---------------------------- MODULE Values_proofs ----------------------------
(* What FormatRefiner, InferTrans, Attributes, Descriptions and Tensors keep of *)
(* the values of a graph, for every graph and every set of formats, of names,  *)
(* of values and of holders and every width of the integers: the shapes of an  *)
(* operator come out of OpDesc::CallInferFunc written in their formats,        *)
(* attributes are typed through every way in, descriptions convert into each   *)
(* other with sizes that are right or refused, tensors show nothing of what is *)
(* not shared, and formats spread until no edge is left behind.                *)
EXTENDS InferTrans, Attributes, Descriptions, Tensors, FormatRefiner,
        FiniteSetTheorems, NaturalsInduction, WellFoundedInduction, TLAPS

-----------------------------------------------------------------------------
(* InferTrans.  While a call runs, the formats of an operator are the origin  *)
(* formats, and what they were is in saved.                                   *)

(* What was saved of a port: nothing, or two formats that differ.             *)
SavedRight(s) == \/ s.format = "RESERVED" /\ s.origin = "RESERVED"
                 \/ s.format \in Formats /\ s.origin \in Formats /\ s.format # s.origin

CallType == [at : {"idle", "func", "update"}, done : Nat, result : {"none", "failed", "success"}, left : SUBSET Nat]

InferTypes == /\ ports \in Seq(PortType) /\ call \in CallType
              /\ DOMAIN saved = DOMAIN ports /\ \A i \in DOMAIN ports : SavedRight(saved[i])

(* Between two calls, while the function is called, and after it.  An output  *)
(* of a failed call may be laid out in its old format; the next one rewrites  *)
(* its shape.                                                                 *)
Between(c, i, p, s) == /\ p.oshape[1] = p.origin
                       /\ p.dir = "in" => p.shape[1] = p.format
                       /\ c.result = "success" => /\ p.shape[1] = p.format
                                                  /\ i \notin c.left => Agree(p, s)
AsOrigin(p, s) == /\ p.format = p.origin /\ p.oshape[1] = p.origin
                  /\ s.format # "RESERVED" => p.origin = s.origin
                  /\ p.dir = "in" => /\ p.shape[1] = p.format
                                     /\ s.format # "RESERVED" => p.shape = p.oshape
AsInferred(p, s) == /\ p.dir = "in" => AsOrigin(p, s)
                    /\ p.dir = "out" => /\ p.shape[1] = p.format /\ p.oshape[1] = p.origin
                                        /\ s.format # "RESERVED" => p.origin = s.origin

PortFits(c, i, p, s) == /\ c.at = "idle" => Between(c, i, p, s)
                        /\ c.at = "func" => AsOrigin(p, s)
                        /\ c.at = "update" => AsInferred(p, s)

InferInv == InferTypes /\ \A i \in DOMAIN ports : PortFits(call, i, ports[i], saved[i])

(* A sequence made from another one place by place.                           *)
LEMMA SameLength ==
  ASSUME NEW S, NEW s \in Seq(S), NEW t, t = [i \in DOMAIN t |-> t[i]], DOMAIN t = DOMAIN s,
         \A i \in DOMAIN s : t[i] \in S
  PROVE  t \in Seq(S)
  <1>1. DOMAIN s = 1..Len(s) /\ Len(s) \in Nat
    OBVIOUS
  <1>2. t \in [1..Len(s) -> S]
    BY <1>1
  <1> QED
    BY <1>1, <1>2

LEMMA CatchKeeps ==
  ASSUME InferInv, CatchFormatAndShape
  PROVE  InferInv'
  <1>1. /\ InferTypes /\ call.at = "idle" /\ call' = [call EXCEPT !.at = "func", !.done = @ + 1]
    BY DEF InferInv, CatchFormatAndShape
  <1>2. call' \in CallType /\ call'.at = "func"
    <2>1. call \in CallType
      BY <1>1 DEF InferTypes
    <2>2. call.done \in Nat /\ call = [at |-> "idle", done |-> call.done, result |-> call.result, left |-> call.left]
      BY <1>1, <2>1 DEF CallType
    <2>3. call' = [at |-> "func", done |-> call.done + 1, result |-> call.result, left |-> call.left]
      BY <1>1, <2>2
    <2> QED
      BY <2>1, <2>2, <2>3 DEF CallType
  <1>3. DOMAIN saved' = DOMAIN ports /\ DOMAIN ports' = DOMAIN ports
    BY DEF CatchFormatAndShape
  <1>4. ASSUME NEW i \in DOMAIN ports
        PROVE  /\ ports'[i] \in PortType /\ SavedRight(saved'[i])
               /\ PortFits(call', i, ports'[i], saved'[i])
    <2> DEFINE p == ports[i]
               q == ports'[i]
               s == saved'[i]
    <2>1. p \in PortType
      BY <1>1 DEF InferTypes
    <2>2. /\ s = IF Kept(p) THEN [format |-> "RESERVED", origin |-> "RESERVED"]
                 ELSE [format |-> p.format, origin |-> p.origin]
          /\ q = IF Kept(p) THEN p
                 ELSE IF p.dir = "in" THEN [p EXCEPT !.format = p.origin, !.shape = p.oshape]
                 ELSE [p EXCEPT !.format = p.origin]
      BY DEF CatchFormatAndShape
    <2>3. p.oshape[1] = p.origin /\ (p.dir = "in" => p.shape[1] = p.format)
      BY <1>1 DEF InferInv, PortFits, Between
    <2> HIDE DEF p, q, s
    <2>4. SavedRight(s)
      BY <2>1, <2>2, InferAssumption DEF SavedRight, Kept, PortType
    <2>5. q \in PortType /\ AsOrigin(q, s)
      <3>1. CASE Kept(p)
        <4>1. q = p /\ s.format = "RESERVED"
          BY <2>2, <3>1
        <4>2. AsOrigin(p, s) <=> /\ p.format = p.origin /\ p.oshape[1] = p.origin
                                 /\ p.dir = "in" => p.shape[1] = p.format
          BY <4>1 DEF AsOrigin
        <4> QED
          BY <2>1, <2>3, <3>1, <4>1, <4>2 DEF Kept
      <3>2. CASE ~Kept(p) /\ p.dir = "in"
        <4>1. q = [p EXCEPT !.format = p.origin, !.shape = p.oshape] /\ s.origin = p.origin
          BY <2>2, <3>2
        <4> QED
          BY <2>1, <2>3, <3>2, <4>1 DEF AsOrigin, PortType
      <3>3. CASE ~Kept(p) /\ p.dir = "out"
        <4>1. q = [p EXCEPT !.format = p.origin] /\ s.origin = p.origin
          BY <2>2, <3>3
        <4> QED
          BY <2>1, <2>3, <3>3, <4>1 DEF AsOrigin, PortType
      <3> QED
        BY <2>1, <3>1, <3>2, <3>3 DEF PortType
    <2>6. PortFits(call', i, q, s)
      BY <1>2, <2>4, <2>5 DEF PortFits
    <2> QED
      BY <2>4, <2>5, <2>6 DEF q, s
  <1>5. ports' \in Seq(PortType)
    <2>1. ports' = [i \in DOMAIN ports' |-> ports'[i]]
      BY DEF CatchFormatAndShape
    <2>2. ports \in Seq(PortType)
      BY <1>1 DEF InferTypes
    <2> QED
      BY <1>3, <1>4, <2>1, <2>2, SameLength
  <1> QED
    BY <1>2, <1>3, <1>4, <1>5 DEF InferInv, InferTypes

LEMMA FuncKeeps ==
  ASSUME InferInv, InferFunc
  PROVE  InferInv'
  <1>1. InferTypes /\ call.at = "func" /\ saved' = saved /\ call \in CallType
    BY DEF InferInv, InferFunc, InferTypes
  <1>2. call = [at |-> "func", done |-> call.done, result |-> call.result, left |-> call.left]
    BY <1>1 DEF CallType
  <1>3. CASE call' = [call EXCEPT !.at = "idle", !.result = "failed"] /\ ports' = ports
    <2>1. call' = [at |-> "idle", done |-> call.done, result |-> "failed", left |-> call.left]
      BY <1>2, <1>3
    <2>2. call' \in CallType /\ call'.at = "idle" /\ call'.result = "failed"
      BY <1>1, <2>1 DEF CallType
    <2>3. ASSUME NEW i \in DOMAIN ports
          PROVE  PortFits(call', i, ports[i], saved[i])
      <3>1. AsOrigin(ports[i], saved[i])
        BY <1>1 DEF InferInv, PortFits
      <3> QED
        BY <2>2, <3>1 DEF PortFits, Between, AsOrigin
    <2> QED
      BY <1>1, <1>3, <2>2, <2>3 DEF InferInv, InferTypes
  <1>4. ASSUME NEW size \in {1, 2}, NEW fm \in Formats \cup {"same"},
               call' = [call EXCEPT !.at = "update"],
               ports' = [i \in DOMAIN ports |->
                   LET p == ports[i]
                       to == IF fm = "same" THEN p.format ELSE fm
                   IN IF p.dir = "in" THEN p ELSE [p EXCEPT !.format = to, !.shape = <<to, size>>]]
        PROVE  InferInv'
    <2>1. call' = [at |-> "update", done |-> call.done, result |-> call.result, left |-> call.left]
      BY <1>2, <1>4
    <2>2. call' \in CallType /\ call'.at = "update"
      BY <1>1, <2>1 DEF CallType
    <2>3. DOMAIN ports' = DOMAIN ports /\ ports' = [i \in DOMAIN ports' |-> ports'[i]]
      BY <1>4
    <2>4. ASSUME NEW i \in DOMAIN ports
          PROVE  ports'[i] \in PortType /\ PortFits(call', i, ports'[i], saved[i])
      <3> DEFINE p == ports[i]
                 q == ports'[i]
                 s == saved[i]
                 to == IF fm = "same" THEN p.format ELSE fm
      <3>1. p \in PortType /\ to \in Formats
        <4>1. p \in PortType
          BY <1>1 DEF InferTypes
        <4>2. p.format \in Formats
          BY <4>1 DEF PortType
        <4> QED
          BY <4>1, <4>2
      <3>2. q = IF p.dir = "in" THEN p ELSE [p EXCEPT !.format = to, !.shape = <<to, size>>]
        BY <1>4
      <3>3. SavedRight(s) /\ AsOrigin(p, s)
        BY <1>1 DEF InferInv, InferTypes, PortFits
      <3> HIDE DEF p, q, s, to
      <3>4. q \in PortType /\ AsInferred(q, s)
        <4>1. CASE p.dir = "in"
          BY <3>1, <3>2, <3>3, <4>1 DEF AsInferred
        <4>2. CASE p.dir # "in"
          <5>1. q = [p EXCEPT !.format = to, !.shape = <<to, size>>] /\ <<to, size>> \in Formats \X Nat
            BY <3>1, <3>2, <4>2
          <5>2. /\ q \in PortType /\ q.dir = p.dir /\ q.format = to /\ q.shape = <<to, size>>
                /\ q.origin = p.origin /\ q.oshape = p.oshape
            BY <3>1, <5>1 DEF PortType
          <5> QED
            BY <3>3, <4>2, <5>2 DEF AsInferred, AsOrigin
        <4> QED
          BY <4>1, <4>2
      <3>5. PortFits(call', i, q, s)
        BY <2>2, <3>3, <3>4 DEF PortFits
      <3> QED
        BY <3>4, <3>5 DEF q, s
    <2>5. ports' \in Seq(PortType)
      <3>1. ports \in Seq(PortType)
        BY <1>1 DEF InferTypes
      <3> QED
        BY <2>3, <2>4, <3>1, SameLength
    <2> QED
      BY <1>1, <2>2, <2>3, <2>4, <2>5 DEF InferInv, InferTypes
  <1> QED
    BY <1>3, <1>4 DEF InferFunc

LEMMA UpdatedInput ==
  ASSUME NEW p \in PortType, NEW s, SavedRight(s)
  PROVE  /\ UpdateInput(p, s) \in PortType
         /\ AsOrigin(p, s) /\ p.dir = "in" =>
              LET q == UpdateInput(p, s) IN
              LaidOut(q) /\ Agree(q, s)
  <1>1. CASE s.format = "RESERVED"
    <2>0. p.format # s.format
      BY <1>1, InferAssumption DEF PortType
    <2>1. UpdateInput(p, s) = [p EXCEPT !.origin = p.format, !.oshape = p.shape]
      BY <1>1, <2>0 DEF UpdateInput
    <2>2. UpdateInput(p, s) \in PortType
      BY <2>1 DEF PortType
    <2>3. AsOrigin(p, s) /\ p.dir = "in" => p.shape[1] = p.format
      BY DEF AsOrigin
    <2>4. LET q == UpdateInput(p, s) IN
            q.format = p.format /\ q.origin = p.format /\ q.shape = p.shape /\ q.oshape = p.shape
      BY <2>1 DEF PortType
    <2> QED
      BY <1>1, <2>2, <2>3, <2>4 DEF LaidOut, Agree
  <1>2. CASE s.format # "RESERVED" /\ p.format = s.format
    <2>1. UpdateInput(p, s) = p
      BY <1>2 DEF UpdateInput
    <2> QED
      BY <1>2, <2>1 DEF SavedRight, AsOrigin, LaidOut, Agree
  <1>3. CASE s.format # "RESERVED" /\ p.format # s.format
    <2>1. UpdateInput(p, s) = [p EXCEPT !.format = s.format, !.shape = Transfer(p.shape, p.format, s.format)]
      BY <1>3 DEF UpdateInput
    <2>2. s.format \in Formats /\ Transfer(p.shape, p.format, s.format) \in Formats \X Nat
      BY <1>3 DEF SavedRight, PortType, Transfer
    <2>3. UpdateInput(p, s) \in PortType
      BY <2>1, <2>2 DEF PortType
    <2>4. ASSUME AsOrigin(p, s), p.dir = "in"
          PROVE  /\ p.format = p.origin /\ p.origin = s.origin /\ p.shape = p.oshape /\ p.shape[1] = p.format
                 /\ Transfer(p.shape, p.format, s.format) = <<s.format, p.shape[2]>>
      BY <1>3, <2>4 DEF AsOrigin, Transfer
    <2> QED
      BY <1>3, <2>1, <2>2, <2>3, <2>4 DEF PortType, LaidOut, Agree
  <1> QED
    BY <1>1, <1>2, <1>3

LEMMA UpdatedOutput ==
  ASSUME NEW p \in PortType, NEW s, SavedRight(s)
  PROVE  /\ UpdateOutput(p, s) \in PortType
         /\ AsInferred(p, s) /\ p.dir = "out" /\ (s.origin # "RESERVED" => p.format = s.origin) =>
              LET q == UpdateOutput(p, s) IN
              LaidOut(q) /\ Agree(q, s)
  <1>1. CASE s.origin = "RESERVED"
    <2>2. s.format = "RESERVED" /\ p.format # s.format
      BY <1>1, InferAssumption DEF SavedRight, PortType
    <2>1. UpdateOutput(p, s) = [p EXCEPT !.origin = p.format, !.oshape = p.shape]
      BY <1>1, <2>2 DEF UpdateOutput
    <2>3. UpdateOutput(p, s) \in PortType
      BY <2>1 DEF PortType
    <2>4. AsInferred(p, s) /\ p.dir = "out" => p.shape[1] = p.format
      BY DEF AsInferred
    <2>5. LET q == UpdateOutput(p, s) IN
            q.format = p.format /\ q.origin = p.format /\ q.shape = p.shape /\ q.oshape = p.shape
      BY <2>1 DEF PortType
    <2> QED
      BY <2>2, <2>3, <2>4, <2>5 DEF LaidOut, Agree
  <1>2. CASE s.origin # "RESERVED" /\ p.format = s.format
    <2>1. UpdateOutput(p, s) = [p EXCEPT !.oshape = p.shape]
      BY <1>2 DEF UpdateOutput
    <2> QED
      BY <1>2, <2>1 DEF SavedRight, PortType, AsInferred, LaidOut, Agree
  <1>3. CASE s.origin # "RESERVED" /\ p.format # s.format
    <2>0. CASE s.format \in Formats
      <3>1. UpdateOutput(p, s) = [p EXCEPT !.oshape = p.shape, !.format = s.format,
                                           !.shape = Transfer(p.shape, p.format, s.format)]
        BY <1>3 DEF UpdateOutput
      <3>2. Transfer(p.shape, p.format, s.format) \in Formats \X Nat
        BY <2>0 DEF PortType, Transfer
      <3>3. UpdateOutput(p, s) \in PortType
        BY <2>0, <3>1, <3>2 DEF PortType
      <3>4. ASSUME AsInferred(p, s), p.dir = "out", p.format = s.origin, s.format # "RESERVED"
            PROVE  /\ p.shape[1] = p.format /\ p.origin = s.origin
                   /\ Transfer(p.shape, p.format, s.format) = <<s.format, p.shape[2]>>
        BY <3>4 DEF AsInferred, Transfer
      <3> QED
        BY <1>3, <2>0, <3>1, <3>3, <3>4, InferAssumption DEF PortType, LaidOut, Agree
    <2> QED
      BY <1>3, <2>0 DEF SavedRight
  <1> QED
    BY <1>1, <1>2, <1>3

LEMMA UpdateKeeps ==
  ASSUME InferInv, UpdateFormatAndShape
  PROVE  InferInv'
  <1>1. InferTypes /\ call.at = "update" /\ saved' = saved /\ call \in CallType
    BY DEF InferInv, UpdateFormatAndShape, InferTypes
  <1>2. call = [at |-> "update", done |-> call.done, result |-> call.result, left |-> call.left]
    BY <1>1 DEF CallType
  <1> DEFINE early(i) == \A j \in 1..i : ~Stray(j)
             left == {i \in DOMAIN ports : ports[i].dir = "out" /\ ~early(i)}
  <1>3. /\ ports' = [i \in DOMAIN ports |->
                IF ports[i].dir = "in" THEN UpdateInput(ports[i], saved[i])
                ELSE IF early(i) THEN UpdateOutput(ports[i], saved[i])
                ELSE ports[i]]
        /\ call' = [call EXCEPT !.at = "idle", !.result = "success", !.left = left]
    BY DEF UpdateFormatAndShape
  <1>4. ports \in Seq(PortType) /\ DOMAIN ports = 1..Len(ports) /\ Len(ports) \in Nat
    <2>1. ports \in Seq(PortType)
      BY <1>1 DEF InferTypes
    <2> QED
      BY <2>1
  <1>5. ASSUME NEW i \in DOMAIN ports, early(i)
        PROVE  ports[i].dir = "out" /\ saved[i].origin # "RESERVED" => ports[i].format = saved[i].origin
    <2>1. i \in 1..i
      BY <1>4
    <2> QED
      BY <1>5, <2>1 DEF Stray
  <1>6. /\ left \subseteq Nat
        /\ \A i \in DOMAIN ports : ports[i].dir = "out" /\ i \notin left => early(i)
        /\ \A i \in DOMAIN ports : early(i) => i \notin left
    BY <1>4
  <1> HIDE DEF left, early
  <1>7. call' \in CallType /\ call'.at = "idle" /\ call'.result = "success" /\ call'.left = left
    <2>1. call' = [at |-> "idle", done |-> call.done, result |-> "success", left |-> left]
      BY <1>2, <1>3
    <2> QED
      BY <1>1, <1>6, <2>1 DEF CallType
  <1>8. DOMAIN ports' = DOMAIN ports /\ ports' = [i \in DOMAIN ports' |-> ports'[i]]
    BY <1>3
  <1>9. ASSUME NEW i \in DOMAIN ports
        PROVE  ports'[i] \in PortType /\ PortFits(call', i, ports'[i], saved[i])
    <2> DEFINE p == ports[i]
               q == ports'[i]
               s == saved[i]
    <2>1. p \in PortType /\ SavedRight(s) /\ AsInferred(p, s)
      BY <1>1 DEF InferInv, InferTypes, PortFits
    <2>2. q = IF p.dir = "in" THEN UpdateInput(p, s) ELSE IF early(i) THEN UpdateOutput(p, s) ELSE p
      BY <1>3
    <2>3. /\ early(i) => (p.dir = "out" /\ s.origin # "RESERVED" => p.format = s.origin)
          /\ ~early(i) => p.dir = "in" \/ i \in left
      BY <1>5, <1>6, <2>1 DEF PortType
    <2> HIDE DEF p, q, s
    <2>4. p.dir \in {"in", "out"}
      BY <2>1 DEF PortType
    <2>5. q \in PortType
      BY <2>1, <2>2, UpdatedInput, UpdatedOutput
    <2>6. LaidOut(q) /\ (i \notin left => Agree(q, s))
      <3>1. CASE p.dir = "in"
        BY <2>1, <2>2, <3>1, UpdatedInput DEF AsInferred
      <3>2. CASE p.dir = "out" /\ early(i)
        BY <2>1, <2>2, <2>3, <3>2, UpdatedOutput
      <3>3. CASE p.dir = "out" /\ ~early(i)
        BY <2>1, <2>2, <2>3, <3>3 DEF AsInferred, LaidOut
      <3> QED
        BY <2>4, <3>1, <3>2, <3>3
    <2>7. PortFits(call', i, q, s)
      BY <1>7, <2>6 DEF PortFits, Between, LaidOut
    <2> QED
      BY <2>5, <2>7 DEF q, s
  <1>10. ports' \in Seq(PortType)
    BY <1>4, <1>8, <1>9, SameLength
  <1> QED
    BY <1>1, <1>7, <1>8, <1>9, <1>10 DEF InferInv, InferTypes

LEMMA InferStarts ==
  ASSUME NEW p \in Seq(PortType), \A i \in DOMAIN p : LaidOut(p[i]), IInit(p)
  PROVE  InferInv
  <1>1. /\ ports = p /\ saved = [i \in DOMAIN p |-> [format |-> "RESERVED", origin |-> "RESERVED"]]
        /\ call = [at |-> "idle", done |-> 0, result |-> "none", left |-> {}]
    BY DEF IInit
  <1>2. call \in CallType /\ call.at = "idle" /\ call.result = "none"
    BY <1>1 DEF CallType
  <1>3. \A i \in DOMAIN ports : SavedRight(saved[i]) /\ PortFits(call, i, ports[i], saved[i])
    BY <1>1, <1>2 DEF SavedRight, PortFits, Between, LaidOut
  <1> QED
    BY <1>1, <1>2, <1>3 DEF InferInv, InferTypes

(* For any operator with any number of inputs and outputs, any formats and    *)
(* any infer function: after a CallInferFunc that succeeded, also after some  *)
(* that failed, every shape is written in its format and every origin shape   *)
(* in its origin format, and but for the outputs at and after one whose       *)
(* format the function changed, both say the same and two formats that        *)
(* differed are as they were.                                                 *)
THEOREM ShapesFitFormatsAlways == InferSpec => []ShapesFitFormats
  <1>1. (\E p \in Seq(PortType) : (\A i \in DOMAIN p : LaidOut(p[i])) /\ IInit(p)) => InferInv
    BY InferStarts
  <1>2. InferInv /\ [INext]_ivars => InferInv'
    <2>1. ASSUME InferInv, UNCHANGED ivars PROVE InferInv'
      BY <2>1 DEF ivars, InferInv, InferTypes
    <2> QED
      BY <2>1, CatchKeeps, FuncKeeps, UpdateKeeps DEF INext
  <1>3. InferInv => ShapesFitFormats
    <2> SUFFICES ASSUME InferInv, call.at = "idle", call.result = "success", NEW i \in DOMAIN ports
                 PROVE  LaidOut(ports[i]) /\ (i \notin call.left => Agree(ports[i], saved[i]))
      BY DEF ShapesFitFormats
    <2>1. Between(call, i, ports[i], saved[i])
      BY DEF InferInv, PortFits
    <2> QED
      BY <2>1 DEF Between, LaidOut
  <1> QED
    BY <1>1, <1>2, <1>3, PTL DEF InferSpec

-----------------------------------------------------------------------------
(* Attributes.  An entry's kind says what its value looks like, and a buffer  *)
(* that shows the whole of an attribute shows one of bytes.                   *)

RightEntries ==
  {e \in Entries : /\ e.case = "none" => e.lt = "none"
                   /\ e.case \in Singles => e.lt = "none" /\ Len(e.val) = 1
                   /\ e.case = "list" => e.lt \in Elements}
Shown == [of : AttrNames \cup {Missing}, item : {0, 1}, own : Items \cup {Missing}]

AttrTypes == /\ attrs \in [AttrNames -> RightEntries \cup {Missing}]
             /\ buffers \in [BufferNames -> Shown]
ShowsBytes == \A b \in BufferNames : buffers[b].of # Missing /\ buffers[b].item = 0 =>
                /\ attrs[buffers[b].of] # Missing
                /\ attrs[buffers[b].of].case = "bytes"
AttrInv == AttrTypes /\ ShowsBytes

Value(e) == IF e = Missing THEN Missing ELSE Read(e)

(* What AttributesTyped says of a step.                                       *)
StepIsTyped ==
  \A n \in AttrNames :
    LET was == Read(Entry(n))
        is  == Value(attrs'[n])
    IN  /\ (n = got'.name /\ got'.op \in {"set", "replace"} /\ got'.ok) => is = got'.val
        /\ (n = got'.name /\ ~got'.ok) => is \in {was, Missing} \/ is[2] = << >>
        /\ (was # Missing /\ is # Missing /\ is[1] # was[1])
              => got'.name = n /\ got'.op = "replace" /\ Entry(n).case = "list"
        /\ n # got'.name => is = was \/ (got'.op = "moved" /\ is[2] = <<NoBytes>>)

LEMMA ReadIsKindAndValue ==
  ASSUME NEW e \in RightEntries
  PROVE  /\ e # Missing
         /\ e.case = "none" => Read(e) = Missing
         /\ e.case \in Singles => Read(e) = <<e.case, e.val>>
         /\ e.case = "list" => Read(e) = <<ListKind(e.lt), e.val>>
  <1>1. e # Missing
    BY AttributesAssumption DEF RightEntries
  <1>2. e.lt \in Elements => ListKind(e.lt) # "none"
    BY DEF Elements, ListKind
  <1>3. e.case = "list" => e.lt \in Elements /\ e.lt # "none"
    BY DEF RightEntries, Elements
  <1>4. e.case \in Singles => e.case \notin {"none", "list"}
    BY DEF Singles
  <1> QED
    BY <1>1, <1>2, <1>3, <1>4 DEF Read, IsEmpty, KindOf

LEMMA EntryIsRight ==
  ASSUME AttrTypes, NEW n \in AttrNames
  PROVE  /\ Entry(n) \in RightEntries
         /\ Read(Entry(n)) = Value(attrs[n])
         /\ attrs[n] # Missing => Entry(n) = attrs[n]
         /\ attrs[n] = Missing => Entry(n) = Unset
  <1>1. Unset \in RightEntries
    BY DEF Unset, RightEntries, Entries, Singles
  <1>2. Read(Unset) = Missing
    BY <1>1, ReadIsKindAndValue DEF Unset
  <1> QED
    BY <1>1, <1>2 DEF AttrTypes, Entry, Value

LEMMA AdriftIsShown ==
  ASSUME AttrTypes, NEW name \in AttrNames
  PROVE  /\ Adrift(name) \in [BufferNames -> Shown]
         /\ \A b \in BufferNames : Adrift(name)[b].of # Missing =>
              Adrift(name)[b] = buffers[b] /\ buffers[b].of # name
  <1>1. ASSUME NEW b \in BufferNames
        PROVE  /\ Adrift(name)[b] \in Shown
               /\ Adrift(name)[b].of # Missing => Adrift(name)[b] = buffers[b] /\ buffers[b].of # name
    <2>1. buffers[b] \in Shown
      BY DEF AttrTypes
    <2>2. Adrift(name)[b] = IF buffers[b].of = name THEN [buffers[b] EXCEPT !.of = Missing, !.own = Missing] ELSE buffers[b]
      BY DEF Adrift
    <2> QED
      BY <2>1, <2>2 DEF Shown
  <1> QED
    BY <1>1 DEF Adrift

(* The value of one name is set, and the buffers that showed it are cut off   *)
(* or go on showing it.                                                       *)
LEMMA PutStep ==
  ASSUME AttrInv, NEW name \in AttrNames, NEW e \in RightEntries \cup {Missing}, Put(name, e),
         \/ buffers' = Adrift(name)
         \/ buffers' = buffers /\ (attrs[name] # Missing /\ attrs[name].case = "bytes" =>
                                     e # Missing /\ e.case = "bytes"),
         got'.name = name,
         got'.op \in {"set", "replace"} /\ got'.ok => Value(e) = got'.val,
         ~got'.ok => Value(e) \in {Read(Entry(name)), Missing} \/ Value(e)[2] = << >>,
         (Read(Entry(name)) # Missing /\ Value(e) # Missing /\ Value(e)[1] # Read(Entry(name))[1])
            => got'.op = "replace" /\ Entry(name).case = "list"
  PROVE  AttrInv' /\ StepIsTyped
  <1>1. attrs' = [attrs EXCEPT ![name] = e] /\ attrs \in [AttrNames -> RightEntries \cup {Missing}] /\ AttrTypes
    BY DEF AttrInv, AttrTypes, Put
  <1>2. attrs'[name] = e /\ (\A n \in AttrNames \ {name} : attrs'[n] = attrs[n])
        /\ attrs' \in [AttrNames -> RightEntries \cup {Missing}]
    BY <1>1
  <1>3. buffers' \in [BufferNames -> Shown]
    BY <1>1, AdriftIsShown DEF AttrTypes
  <1>4. ShowsBytes'
    <2> SUFFICES ASSUME NEW b \in BufferNames, buffers'[b].of # Missing, buffers'[b].item = 0
                 PROVE  attrs'[buffers'[b].of] # Missing /\ attrs'[buffers'[b].of].case = "bytes"
      BY DEF ShowsBytes
    <2>0. buffers'[b].of \in AttrNames
      BY <1>3 DEF Shown
    <2>1. CASE buffers' = Adrift(name)
      <3>1. buffers'[b] = buffers[b] /\ buffers[b].of # name
        BY <1>1, <2>1, AdriftIsShown
      <3> QED
        BY <1>2, <2>0, <3>1 DEF AttrInv, ShowsBytes
    <2>2. CASE buffers' = buffers /\ (attrs[name] # Missing /\ attrs[name].case = "bytes" => e # Missing /\ e.case = "bytes")
      BY <1>2, <2>0, <2>2 DEF AttrInv, ShowsBytes
    <2> QED
      BY <2>1, <2>2
  <1>5. ASSUME NEW n \in AttrNames, n # name PROVE Value(attrs'[n]) = Read(Entry(n))
    BY <1>1, <1>2, <1>5, EntryIsRight
  <1>6. StepIsTyped
    BY <1>2, <1>5 DEF StepIsTyped
  <1> QED
    BY <1>2, <1>3, <1>4, <1>6 DEF AttrInv, AttrTypes

(* Nothing is set.                                                            *)
LEMMA ReadStep ==
  ASSUME AttrInv, attrs' = attrs, buffers' \in [BufferNames -> Shown],
         \A b \in BufferNames : buffers'[b] = buffers[b] \/ buffers'[b].of = Missing \/ buffers'[b].item # 0 \/
            (attrs[buffers'[b].of] # Missing /\ attrs[buffers'[b].of].case = "bytes"),
         got'.op \in {"set", "replace"} => ~got'.ok
  PROVE  AttrInv' /\ StepIsTyped
  <1>1. AttrTypes /\ AttrTypes'
    BY DEF AttrInv, AttrTypes
  <1>2. ShowsBytes'
    BY DEF AttrInv, ShowsBytes
  <1>3. \A n \in AttrNames : Value(attrs'[n]) = Read(Entry(n))
    BY <1>1, EntryIsRight
  <1>4. StepIsTyped
    BY <1>3 DEF StepIsTyped
  <1> QED
    BY <1>1, <1>2, <1>4 DEF AttrInv

LEMMA SingleEntry ==
  ASSUME NEW kind \in Singles, NEW v \in Items
  PROVE  LET e == [case |-> kind, lt |-> "none", val |-> <<v>>] IN
         /\ e \in RightEntries /\ e.case = kind /\ e # Missing
         /\ Value(e) = <<kind, <<v>>>> /\ Read(e) = <<kind, <<v>>>>
  <1> DEFINE e == [case |-> kind, lt |-> "none", val |-> <<v>>]
  <1>1. <<v>> \in Seq(Items) /\ Len(<<v>>) = 1
    OBVIOUS
  <1>2. e \in RightEntries /\ e.case = kind /\ e.val = <<v>>
    BY <1>1 DEF RightEntries, Entries, Singles
  <1> HIDE DEF e
  <1>3. e # Missing /\ Read(e) = <<kind, <<v>>>>
    BY <1>2, ReadIsKindAndValue
  <1>4. Value(e) = <<kind, <<v>>>>
    BY <1>3 DEF Value
  <1> QED
    BY <1>2, <1>3, <1>4 DEF e

LEMMA ListEntry ==
  ASSUME NEW kind \in Elements, NEW l \in Seq(Items)
  PROVE  LET e == [case |-> "list", lt |-> kind, val |-> l] IN
         /\ e \in RightEntries /\ e # Missing
         /\ Value(e) = <<ListKind(kind), l>> /\ Read(e) = <<ListKind(kind), l>>
  <1> DEFINE e == [case |-> "list", lt |-> kind, val |-> l]
  <1>2. e \in RightEntries /\ e.case = "list" /\ e.val = l /\ e.lt = kind
    BY DEF RightEntries, Entries, Singles
  <1> HIDE DEF e
  <1>3. e # Missing /\ Read(e) = <<ListKind(kind), l>>
    BY <1>2, ReadIsKindAndValue
  <1>4. Value(e) = <<ListKind(kind), l>>
    BY <1>3 DEF Value
  <1> QED
    BY <1>2, <1>3, <1>4 DEF e

LEMMA UnsetEntry == Unset \in RightEntries /\ Unset.case = "none" /\ Unset # Missing /\ Value(Unset) = Missing
  <1>1. Unset \in RightEntries /\ Unset.case = "none"
    BY DEF Unset, RightEntries, Entries, Singles
  <1> QED
    BY <1>1, ReadIsKindAndValue DEF Value

(* What was refused: the entry stays, or is made.                             *)
LEMMA RefusedStep ==
  ASSUME AttrInv, NEW name \in AttrNames, Put(name, Entry(name)),
         buffers' = buffers, got'.name = name, ~got'.ok
  PROVE  AttrInv' /\ StepIsTyped
  <1>1. /\ Entry(name) \in RightEntries /\ Entry(name) # Missing
        /\ attrs[name] # Missing => Entry(name) = attrs[name]
    BY EntryIsRight, ReadIsKindAndValue DEF AttrInv
  <1>2. Value(Entry(name)) = Read(Entry(name))
    BY <1>1 DEF Value
  <1> QED
    BY <1>1, <1>2, PutStep

(* One value is set where the kind allows it.                                 *)
LEMMA SingleStep ==
  ASSUME AttrInv, NEW name \in AttrNames, NEW kind \in Singles, NEW v \in Items,
         SetValueCheckType(Entry(name), kind),
         Put(name, [case |-> kind, lt |-> "none", val |-> <<v>>]),
         buffers' = buffers, got'.name = name, got'.ok,
         got'.op \in {"set", "replace"} => got'.val = <<kind, <<v>>>>
  PROVE  AttrInv' /\ StepIsTyped
  <1>1. PICK e \in RightEntries : /\ e = [case |-> kind, lt |-> "none", val |-> <<v>>]
                                  /\ e.case = kind /\ e # Missing /\ Value(e) = <<kind, <<v>>>>
    BY SingleEntry
  <1>2. Entry(name) \in RightEntries /\ (attrs[name] # Missing => Entry(name) = attrs[name])
    BY EntryIsRight DEF AttrInv
  <1>3. Entry(name).case \in {"none", kind}
    BY DEF SetValueCheckType
  <1>4. Read(Entry(name)) # Missing => Read(Entry(name)) = <<kind, Entry(name).val>>
    BY <1>2, <1>3, ReadIsKindAndValue
  <1>5. attrs[name] # Missing /\ attrs[name].case = "bytes" => e.case = "bytes"
    BY <1>1, <1>2, <1>3
  <1>6. (Read(Entry(name)) # Missing /\ Value(e) # Missing /\ Value(e)[1] # Read(Entry(name))[1]) => FALSE
    BY <1>1, <1>4
  <1> QED
    BY <1>1, <1>5, <1>6, PutStep

LEMMA SetOneStep ==
  ASSUME AttrInv, NEW name \in AttrNames, NEW kind \in Singles, NEW v \in Items, SetOne(name, kind, v)
  PROVE  AttrInv' /\ StepIsTyped
  <1>1. CASE SetValueCheckType(Entry(name), kind)
    BY <1>1, SingleStep DEF SetOne, Return
  <1>2. CASE ~SetValueCheckType(Entry(name), kind)
    BY <1>2, RefusedStep DEF SetOne, Return
  <1> QED
    BY <1>1, <1>2

LEMMA SetBytesStep ==
  ASSUME AttrInv, NEW name \in AttrNames, NEW v \in Items, SetBytes(name, v)
  PROVE  AttrInv' /\ StepIsTyped
  <1>0. "bytes" \in Singles
    BY DEF Singles
  <1>1. CASE SetValueCheckType(Entry(name), "bytes")
    BY <1>0, <1>1, SingleStep DEF SetBytes, Return
  <1>2. CASE ~SetValueCheckType(Entry(name), "bytes")
    BY <1>2, RefusedStep DEF SetBytes, Return
  <1> QED
    BY <1>1, <1>2

LEMMA SetGraphStep ==
  ASSUME AttrInv, NEW name \in AttrNames, NEW v \in Items, SetGraph(name, v)
  PROVE  AttrInv' /\ StepIsTyped
  <1>0. "graph" \in Singles
    BY DEF Singles
  <1>1. CASE SetValueCheckType(Entry(name), "graph") /\ v # BadItem
    BY <1>0, <1>1, SingleStep DEF SetGraph, Return
  <1>2. CASE ~SetValueCheckType(Entry(name), "graph")
    BY <1>2, RefusedStep DEF SetGraph, Return
  <1>3. CASE SetValueCheckType(Entry(name), "graph") /\ v = BadItem
    <2>1. Put(name, Unset) /\ buffers' = buffers /\ got'.name = name /\ ~got'.ok
      BY <1>3 DEF SetGraph, Return
    <2>2. attrs[name] # Missing => attrs[name].case \in {"none", "graph"}
      BY <1>3, EntryIsRight DEF SetValueCheckType, AttrInv
    <2> QED
      BY <2>1, <2>2, UnsetEntry, PutStep
  <1> QED
    BY <1>1, <1>2, <1>3

(* A list where the kind allows it, or nothing any more, or no change.        *)
LEMMA ListedBuffers ==
  ASSUME NEW name, Listed(name)
  PROVE  buffers' = buffers \/ buffers' = Adrift(name)
  BY DEF Listed

LEMMA ListPutStep ==
  ASSUME AttrInv, NEW name \in AttrNames, NEW kind \in Elements, NEW l \in Seq(Items),
         ListPut(name, kind, l), Listed(name)
  PROVE  AttrInv' /\ StepIsTyped
  <1>1. /\ Entry(name) \in RightEntries /\ AttrTypes /\ Entry(name) # Missing
        /\ attrs[name] # Missing => Entry(name) = attrs[name]
    BY EntryIsRight, ReadIsKindAndValue DEF AttrInv
  <1>2. CASE ~SetValueCheckAndSetListType(Entry(name), kind)
    <2>1. Put(name, Entry(name)) /\ got'.name = name /\ ~got'.ok
      BY <1>2 DEF ListPut, Return
    <2>2. attrs[name] # Missing => attrs'[name] = attrs[name]
      BY <1>1, <2>1 DEF Put, AttrTypes
    <2>3. buffers' = buffers
      BY <2>2 DEF Listed
    <2> QED
      BY <2>1, <2>3, RefusedStep
  <1>3. ASSUME SetValueCheckAndSetListType(Entry(name), kind),
               NEW e \in RightEntries, Put(name, e), e.case \in {"none", "list"}, got'.name = name,
               got'.op \in {"set", "replace"} /\ got'.ok => Value(e) = got'.val,
               ~got'.ok => Value(e) = Missing,
               Value(e) = Missing \/ Value(e)[1] = ListKind(kind)
        PROVE  AttrInv' /\ StepIsTyped
    <2>1. attrs[name] # Missing => attrs[name].case # "bytes"
      BY <1>1, <1>3 DEF SetValueCheckAndSetListType
    <2>2. Read(Entry(name)) # Missing => Read(Entry(name)) = <<ListKind(kind), Entry(name).val>>
      <3>1. Entry(name).case \in {"none", "list"} /\ Entry(name).lt \in {"none", kind}
        BY <1>3 DEF SetValueCheckAndSetListType
      <3>2. Entry(name).case = "list" => Entry(name).lt = kind
        BY <1>1, <3>1 DEF RightEntries, Elements
      <3> QED
        BY <1>1, <3>1, <3>2, ReadIsKindAndValue
    <2>3. (Read(Entry(name)) # Missing /\ Value(e) # Missing /\ Value(e)[1] # Read(Entry(name))[1]) => FALSE
      BY <1>3, <2>2
    <2>4. buffers' = buffers \/ buffers' = Adrift(name)
      BY ListedBuffers
    <2> QED
      BY <1>3, <2>1, <2>3, <2>4, PutStep
  <1>4. CASE SetValueCheckAndSetListType(Entry(name), kind) /\ \E i \in DOMAIN l : l[i] = BadItem
    <2>1. Put(name, Unset) /\ got'.name = name /\ ~got'.ok
      BY <1>4 DEF ListPut, Return
    <2> QED
      BY <1>3, <1>4, <2>1, UnsetEntry
  <1>5. CASE SetValueCheckAndSetListType(Entry(name), kind) /\ ~\E i \in DOMAIN l : l[i] = BadItem
    <2>1. PICK e \in RightEntries : e = [case |-> "list", lt |-> kind, val |-> l] /\ Value(e) = <<ListKind(kind), l>>
      BY ListEntry
    <2>2. Put(name, e) /\ got'.name = name /\ got'.ok /\ got'.val = <<ListKind(kind), l>> /\ e.case = "list"
      BY <1>5, <2>1 DEF ListPut, Return
    <2> QED
      BY <1>3, <1>5, <2>1, <2>2
  <1> QED
    BY <1>2, <1>4, <1>5

LEMMA SetAttrStep ==
  ASSUME AttrInv, NEW name \in AttrNames, NEW kind \in {"int", "tensor"}, NEW l \in Seq(Items), Len(l) = 1,
         SetAttr(name, kind, l)
  PROVE  AttrInv' /\ StepIsTyped
  <1> DEFINE v == IF kind = "int" THEN [case |-> "int", lt |-> "none", val |-> <<l[1]>>]
                  ELSE [case |-> "list", lt |-> kind, val |-> l]
  <1>1. v \in RightEntries /\ v # Missing /\ v.case \in {"int", "list"} /\ (v.case = "int" => Read(v)[1] = "int")
    <2>1. l[1] \in Items /\ "int" \in Singles /\ (kind = "tensor" => kind \in Elements)
      BY DEF Singles, Elements
    <2>2. CASE kind = "int"
      BY <2>1, <2>2, SingleEntry
    <2>3. CASE kind = "tensor"
      BY <2>1, <2>3, ListEntry
    <2> QED
      BY <2>2, <2>3
  <1>2. Value(v) = Read(v)
    BY <1>1 DEF Value
  <1>3. IF SetValueCheckType(Entry(name), v.case)
        THEN Put(name, v) /\ Return("replace", name, TRUE, Read(v)) /\ Listed(name)
        ELSE Return("replace", name, FALSE, Read(v)) /\ UNCHANGED <<attrs, buffers>>
    BY DEF SetAttr
  <1> HIDE DEF v
  <1>4. /\ Entry(name) \in RightEntries /\ AttrTypes
        /\ attrs[name] # Missing => Entry(name) = attrs[name]
    BY EntryIsRight DEF AttrInv
  <1>5. CASE SetValueCheckType(Entry(name), v.case)
    <2>1. Entry(name).case \in {"none", v.case}
      BY <1>5 DEF SetValueCheckType
    <2>2. got'.name = name /\ got'.op = "replace" /\ got'.ok /\ got'.val = Value(v) /\ Put(name, v)
      BY <1>2, <1>3, <1>5 DEF Return
    <2>3. attrs[name] # Missing => attrs[name].case # "bytes"
      BY <1>1, <1>4, <2>1
    <2>4. (Read(Entry(name)) # Missing /\ Value(v) # Missing /\ Value(v)[1] # Read(Entry(name))[1])
             => Entry(name).case = "list"
      <3>1. Read(Entry(name)) # Missing => Entry(name).case = v.case
        BY <1>4, <2>1, ReadIsKindAndValue
      <3>2. Entry(name).case = "int" => Read(Entry(name))[1] = "int"
        BY <1>4, ReadIsKindAndValue DEF Singles
      <3> QED
        BY <1>1, <1>2, <3>1, <3>2
    <2>5. buffers' = buffers \/ buffers' = Adrift(name)
      BY <1>3, <1>5, ListedBuffers
    <2> QED
      BY <1>1, <2>2, <2>3, <2>4, <2>5, PutStep
  <1>6. CASE ~SetValueCheckType(Entry(name), v.case)
    BY <1>3, <1>4, <1>6, ReadStep DEF Return, AttrTypes
  <1> QED
    BY <1>5, <1>6

LEMMA DelAttrStep ==
  ASSUME AttrInv, NEW name \in AttrNames, DelAttr(name)
  PROVE  AttrInv' /\ StepIsTyped
  <1>1. Put(name, Missing) /\ buffers' = Adrift(name) /\ got'.name = name /\ got'.op = "delete" /\ Value(Missing) = Missing
    BY DEF DelAttr, Return, Value
  <1> QED
    BY <1>1, PutStep

(* The bytes a buffer with a message has, its own or an attribute's.          *)
LEMMA BytesAreItems ==
  ASSUME AttrInv, NEW b \in BufferNames, Bytes(b) # Missing, HasMessage(b)
  PROVE  /\ Bytes(b) \in Items
         /\ buffers[b].of # Missing => /\ buffers[b].of \in AttrNames
                                       /\ attrs[buffers[b].of] \in RightEntries
                                       /\ attrs[buffers[b].of].case = "bytes"
  <1>1. buffers[b] \in Shown /\ buffers[b].item = 0
    BY DEF AttrInv, AttrTypes, HasMessage
  <1>2. buffers[b].of \in AttrNames \cup {Missing} /\ buffers[b].own \in Items \cup {Missing}
    BY <1>1 DEF Shown
  <1>3. CASE buffers[b].of = Missing
    BY <1>2, <1>3 DEF Bytes
  <1>4. CASE buffers[b].of # Missing
    <2> DEFINE e == attrs[buffers[b].of]
    <2>1. e \in RightEntries /\ e.case = "bytes"
      BY <1>1, <1>2, <1>4 DEF AttrInv, AttrTypes, ShowsBytes
    <2>2. Bytes(b) = e.val[1]
      BY <1>1, <1>4 DEF Bytes
    <2> HIDE DEF e
    <2>3. Len(e.val) = 1 /\ e.val \in Seq(Items)
      BY <2>1 DEF RightEntries, Entries, Singles
    <2>4. e.val[1] \in Items
      BY <2>3
    <2> QED
      BY <1>2, <1>4, <2>1, <2>2, <2>4 DEF e
  <1> QED
    BY <1>3, <1>4

(* What is moved out of one attribute and set in another.                     *)
LEMMA MovedStep ==
  ASSUME AttrInv, NEW name \in AttrNames, NEW b \in BufferNames, Bytes(b) # Missing, HasMessage(b),
         buffers[b].of # name, NEW e \in RightEntries, e.case \in {"bytes", "list"}, MovedOut(name, b, e),
         got'.name = name, got'.op = "moved", got'.ok,
         Read(Entry(name)) # Missing => Value(e)[1] = Read(Entry(name))[1]
  PROVE  AttrInv' /\ StepIsTyped
  <1> DEFINE from == buffers[b].of
             hollow == [attrs[from] EXCEPT !.val = <<NoBytes>>]
  <1>1. AttrTypes /\ from \in AttrNames \cup {Missing} /\ Missing \notin AttrNames
    BY AttributesAssumption DEF AttrInv, AttrTypes, Shown
  <1>2. /\ attrs'[name] = e
        /\ from # Missing => attrs'[from] = hollow
        /\ \A a \in AttrNames \ {name, from} : attrs'[a] = attrs[a]
        /\ DOMAIN attrs' = AttrNames /\ attrs' = [a \in AttrNames |-> attrs'[a]]
    BY <1>1 DEF MovedOut
  <1>3. from # Missing => /\ hollow \in RightEntries /\ hollow.case = "bytes"
                          /\ Value(hollow)[2] = <<NoBytes>> /\ Value(hollow)[1] = "bytes"
                          /\ Read(Entry(from))[1] = "bytes"
    <2> SUFFICES ASSUME from # Missing PROVE /\ hollow \in RightEntries /\ hollow.case = "bytes"
                          /\ Value(hollow)[2] = <<NoBytes>> /\ Value(hollow)[1] = "bytes"
                          /\ Read(Entry(from))[1] = "bytes"
      OBVIOUS
    <2>1. attrs[from] \in RightEntries /\ attrs[from].case = "bytes" /\ from \in AttrNames
      BY BytesAreItems
    <2>2. attrs[from] = [case |-> "bytes", lt |-> "none", val |-> attrs[from].val]
      BY <2>1 DEF RightEntries, Entries, Singles
    <2>3. hollow = [case |-> "bytes", lt |-> "none", val |-> <<NoBytes>>]
      BY <2>2
    <2>4. "bytes" \in Singles /\ NoBytes \in Items
      BY DEF Singles, Items
    <2>5. hollow \in RightEntries /\ hollow.case = "bytes" /\ Value(hollow) = <<"bytes", <<NoBytes>>>>
      BY <2>3, <2>4, SingleEntry
    <2>6. Entry(from) = attrs[from]
      BY <1>1, <2>1, EntryIsRight, ReadIsKindAndValue
    <2>7. Read(Entry(from)) = <<"bytes", attrs[from].val>>
      BY <2>1, <2>4, <2>6, ReadIsKindAndValue
    <2> QED
      BY <2>5, <2>7
  <1> HIDE DEF hollow
  <1>4. attrs' \in [AttrNames -> RightEntries \cup {Missing}]
    <2>1. \A a \in AttrNames : attrs'[a] \in RightEntries \cup {Missing}
      BY <1>1, <1>2, <1>3 DEF AttrTypes
    <2> QED
      BY <1>2, <2>1
  <1>5. \A c \in BufferNames : buffers'[c] \in {Own(NoBytes), buffers[c], Adrift(name)[c]}
    BY DEF MovedOut
  <1>6. ASSUME NEW c \in BufferNames
        PROVE  /\ buffers'[c] \in Shown
               /\ buffers'[c].of # Missing => buffers'[c] = buffers[c]
               /\ buffers'[c].of # Missing /\ e.case = "list" => buffers'[c].of # name
    <2>1. Own(NoBytes) \in Shown /\ Own(NoBytes).of = Missing
      BY DEF Own, Shown, Items
    <2>2. buffers[c] \in Shown
      BY <1>1 DEF AttrTypes
    <2>3. /\ Adrift(name)[c] \in Shown
          /\ Adrift(name)[c].of # Missing => Adrift(name)[c] = buffers[c] /\ buffers[c].of # name
      BY <1>1, AdriftIsShown
    <2>4. e.case = "list" => buffers'[c] \in {Own(NoBytes), Adrift(name)[c]}
      BY DEF MovedOut
    <2> QED
      BY <1>5, <2>1, <2>2, <2>3, <2>4
  <1>7. buffers' \in [BufferNames -> Shown]
    BY <1>6 DEF MovedOut
  <1>8. ShowsBytes'
    <2> SUFFICES ASSUME NEW c \in BufferNames, buffers'[c].of # Missing, buffers'[c].item = 0
                 PROVE  attrs'[buffers'[c].of] # Missing /\ attrs'[buffers'[c].of].case = "bytes"
      BY DEF ShowsBytes
    <2>1. buffers'[c] = buffers[c] /\ buffers[c].of \in AttrNames
      BY <1>1, <1>6 DEF AttrTypes, Shown
    <2>2. attrs[buffers[c].of] # Missing /\ attrs[buffers[c].of].case = "bytes"
      BY <2>1 DEF AttrInv, ShowsBytes
    <2>3. CASE buffers[c].of = name
      BY <1>2, <1>6, <2>1, <2>3, ReadIsKindAndValue
    <2>4. CASE buffers[c].of = from
      BY <1>2, <1>3, <2>1, <2>4, ReadIsKindAndValue
    <2>5. CASE buffers[c].of \notin {name, from}
      BY <1>2, <2>1, <2>2, <2>5
    <2> QED
      BY <2>3, <2>4, <2>5
  <1>9. StepIsTyped
    <2>1. Value(attrs'[name]) = Value(e)
      BY <1>2
    <2>2. \A n \in AttrNames \ {name, from} : Value(attrs'[n]) = Read(Entry(n))
      BY <1>1, <1>2, EntryIsRight
    <2>3. from \in AttrNames => Value(attrs'[from])[2] = <<NoBytes>> /\ Value(attrs'[from])[1] = Read(Entry(from))[1]
      BY <1>1, <1>2, <1>3
    <2> QED
      BY <2>1, <2>2, <2>3 DEF StepIsTyped
  <1> QED
    BY <1>4, <1>7, <1>8, <1>9 DEF AttrInv, AttrTypes

LEMMA SetZeroCopyBytesStep ==
  ASSUME AttrInv, NEW name \in AttrNames, NEW b \in BufferNames, SetZeroCopyBytes(name, b)
  PROVE  AttrInv' /\ StepIsTyped
  <1> DEFINE e == Entry(name)
             v == <<"bytes", <<Bytes(b)>>>>
  <1>1. /\ Bytes(b) # Missing
        /\ IF ~SetValueCheckType(e, "bytes") \/ ~HasMessage(b)
           THEN Put(name, e) /\ Return("set", name, FALSE, v) /\ UNCHANGED buffers
           ELSE IF buffers[b].of = name
           THEN /\ \E w \in {Bytes(b), NoBytes} : Put(name, [e EXCEPT !.val = <<w>>])
                /\ Return("moved", name, TRUE, v) /\ UNCHANGED buffers
           ELSE /\ MovedOut(name, b, [case |-> "bytes", lt |-> "none", val |-> <<Bytes(b)>>])
                /\ Return("moved", name, TRUE, v)
    BY DEF SetZeroCopyBytes
  <1>2. "bytes" \in Singles /\ NoBytes \in Items
    BY DEF Singles, Items
  <1>3. CASE ~SetValueCheckType(e, "bytes") \/ ~HasMessage(b)
    BY <1>1, <1>3, RefusedStep DEF Return
  <1>4. ASSUME SetValueCheckType(e, "bytes"), HasMessage(b), buffers[b].of = name
        PROVE  AttrInv' /\ StepIsTyped
    <2>1. PICK w \in Items : Put(name, [e EXCEPT !.val = <<w>>])
      BY <1>1, <1>2, <1>4, BytesAreItems
    <2>2. attrs[name] \in RightEntries /\ attrs[name].case = "bytes" /\ e = attrs[name]
      <3>1. buffers[b].of # Missing
        BY <1>4, AttributesAssumption
      <3> QED
        BY <1>1, <1>4, <3>1, BytesAreItems, EntryIsRight, ReadIsKindAndValue DEF AttrInv
    <2>3. e = [case |-> "bytes", lt |-> "none", val |-> e.val]
      BY <2>2 DEF RightEntries, Entries, Singles
    <2>4. [e EXCEPT !.val = <<w>>] = [case |-> "bytes", lt |-> "none", val |-> <<w>>]
      BY <2>3
    <2>5. got'.name = name /\ got'.ok /\ got'.op = "moved" /\ buffers' = buffers
      BY <1>1, <1>4 DEF Return
    <2> QED
      BY <1>2, <1>4, <2>1, <2>4, <2>5, SingleStep
  <1>5. ASSUME SetValueCheckType(e, "bytes"), HasMessage(b), buffers[b].of # name
        PROVE  AttrInv' /\ StepIsTyped
    <2>1. Bytes(b) \in Items
      BY <1>1, <1>5, BytesAreItems
    <2>2. PICK w \in RightEntries : /\ w = [case |-> "bytes", lt |-> "none", val |-> <<Bytes(b)>>]
                                    /\ w.case = "bytes" /\ Value(w) = v
      BY <1>2, <2>1, SingleEntry
    <2>3. Read(e) # Missing => Read(e)[1] = "bytes"
      BY <1>2, <1>5, EntryIsRight, ReadIsKindAndValue DEF AttrInv, SetValueCheckType
    <2>4. got'.name = name /\ got'.ok /\ got'.op = "moved" /\ MovedOut(name, b, w)
      BY <1>1, <1>5, <2>2 DEF Return
    <2> QED
      BY <1>1, <1>5, <2>2, <2>3, <2>4, MovedStep
  <1> QED
    BY <1>3, <1>4, <1>5

LEMMA SetZeroCopyListBytesStep ==
  ASSUME AttrInv, NEW name \in AttrNames, NEW b \in BufferNames, SetZeroCopyListBytes(name, b)
  PROVE  AttrInv' /\ StepIsTyped
  <1> DEFINE e == Entry(name)
             v == <<"list_bytes", <<Bytes(b)>>>>
  <1>1. /\ Bytes(b) # Missing
        /\ IF ~SetValueCheckAndSetListType(e, "bytes")
           THEN Put(name, e) /\ Return("set", name, FALSE, v) /\ UNCHANGED buffers
           ELSE IF ~HasMessage(b)
           THEN /\ Put(name, [case |-> "list", lt |-> "bytes", val |-> << >>])
                /\ buffers' = Adrift(name) /\ Return("set", name, FALSE, v)
           ELSE /\ MovedOut(name, b, [case |-> "list", lt |-> "bytes", val |-> <<Bytes(b)>>])
                /\ Return("moved", name, TRUE, v)
    BY DEF SetZeroCopyListBytes
  <1>2. "bytes" \in Elements /\ ListKind("bytes") = "list_bytes" /\ << >> \in Seq(Items)
    BY DEF Elements, ListKind
  <1>3. CASE ~SetValueCheckAndSetListType(e, "bytes")
    BY <1>1, <1>3, RefusedStep DEF Return
  <1>4. ASSUME SetValueCheckAndSetListType(e, "bytes")
        PROVE  /\ attrs[name] # Missing => attrs[name].case # "bytes"
               /\ Read(e) # Missing => Read(e)[1] = "list_bytes"
    <2>1. /\ e \in RightEntries /\ (attrs[name] # Missing => e = attrs[name])
          /\ e.case \in {"none", "list"} /\ e.lt \in {"none", "bytes"}
      BY <1>4, EntryIsRight DEF AttrInv, SetValueCheckAndSetListType
    <2>2. e.case = "list" => e.lt = "bytes"
      BY <2>1 DEF RightEntries, Elements
    <2> QED
      BY <1>2, <2>1, <2>2, ReadIsKindAndValue
  <1>5. ASSUME SetValueCheckAndSetListType(e, "bytes"), ~HasMessage(b)
        PROVE  AttrInv' /\ StepIsTyped
    <2>1. PICK w \in RightEntries : /\ w = [case |-> "list", lt |-> "bytes", val |-> << >>]
                                    /\ Value(w) = <<"list_bytes", << >>>>
      BY <1>2, ListEntry
    <2>2. got'.name = name /\ ~got'.ok /\ Put(name, w) /\ buffers' = Adrift(name)
      BY <1>1, <1>5, <2>1 DEF Return
    <2> QED
      BY <1>4, <1>5, <2>1, <2>2, PutStep
  <1>6. ASSUME SetValueCheckAndSetListType(e, "bytes"), HasMessage(b)
        PROVE  AttrInv' /\ StepIsTyped
    <2>1. Bytes(b) \in Items /\ <<Bytes(b)>> \in Seq(Items)
      BY <1>1, <1>6, BytesAreItems
    <2>2. PICK w \in RightEntries : /\ w = [case |-> "list", lt |-> "bytes", val |-> <<Bytes(b)>>]
                                    /\ w.case = "list" /\ Value(w) = v
      BY <1>2, <2>1, ListEntry
    <2>3. buffers[b].of # name
      BY <1>1, <1>4, <1>6, BytesAreItems, AttributesAssumption, ReadIsKindAndValue
    <2>4. got'.name = name /\ got'.ok /\ got'.op = "moved" /\ MovedOut(name, b, w)
      BY <1>1, <1>6, <2>2 DEF Return
    <2> QED
      BY <1>1, <1>4, <1>6, <2>2, <2>3, <2>4, MovedStep
  <1> QED
    BY <1>3, <1>5, <1>6

LEMMA BufferStep ==
  ASSUME AttrInv, NEW b \in BufferNames, NEW r \in Shown, attrs' = attrs,
         buffers' = buffers \/ buffers' = [buffers EXCEPT ![b] = r],
         r.of = Missing \/ r.item # 0 \/ (attrs[r.of] # Missing /\ attrs[r.of].case = "bytes"),
         got'.op \in {"get", "buffer"}
  PROVE  AttrInv' /\ StepIsTyped
  <1>1. buffers \in [BufferNames -> Shown]
    BY DEF AttrInv, AttrTypes
  <1>2. buffers' \in [BufferNames -> Shown] /\ \A c \in BufferNames : buffers'[c] \in {buffers[c], r}
    BY <1>1
  <1> QED
    BY <1>2, ReadStep

LEMMA FillBufferStep ==
  ASSUME AttrInv, NEW b \in BufferNames, NEW v \in Items, FillBuffer(b, v)
  PROVE  AttrInv' /\ StepIsTyped
  <1>1. Own(v) \in Shown /\ Own(v).of = Missing
    BY DEF Own, Shown
  <1> QED
    BY <1>1, BufferStep DEF FillBuffer, Return

LEMMA GetBytesStep ==
  ASSUME AttrInv, NEW b \in BufferNames, NEW name \in AttrNames, GetBytes(b, name)
  PROVE  AttrInv' /\ StepIsTyped
  <1>1. attrs[name] \in RightEntries \cup {Missing}
    BY DEF AttrInv, AttrTypes
  <1>2. attrs' = attrs /\ got'.op = "get"
    BY DEF GetBytes, Return
  <1>3. CASE attrs[name] # Missing /\ GetValueCheckType(attrs[name], "bytes")
    <2> DEFINE r == Own(attrs[name].val[1])
    <2>1. attrs[name].val \in Seq(Items) /\ Len(attrs[name].val) = 1
      BY <1>1, <1>3 DEF GetValueCheckType, RightEntries, Entries, Singles
    <2>2. attrs[name].val[1] \in Items
      BY <2>1
    <2>3. r \in Shown /\ r.of = Missing
      BY <2>2 DEF Own, Shown
    <2>4. buffers' = [buffers EXCEPT ![b] = r]
      BY <1>3 DEF GetBytes
    <2> QED
      BY <1>2, <2>3, <2>4, BufferStep
  <1>4. CASE ~(attrs[name] # Missing /\ GetValueCheckType(attrs[name], "bytes"))
    BY <1>2, <1>4, ReadStep DEF GetBytes, AttrInv, AttrTypes
  <1> QED
    BY <1>3, <1>4

LEMMA GetZeroCopyBytesStep ==
  ASSUME AttrInv, NEW b \in BufferNames, NEW name \in AttrNames, GetZeroCopyBytes(b, name)
  PROVE  AttrInv' /\ StepIsTyped
  <1>2. attrs' = attrs /\ got'.op = "get"
    BY DEF GetZeroCopyBytes, Return
  <1>3. CASE attrs[name] # Missing /\ GetValueCheckType(attrs[name], "bytes")
    <2> DEFINE r == [of |-> name, item |-> 0, own |-> Missing]
    <2>3. r \in Shown /\ attrs[r.of] # Missing /\ attrs[r.of].case = "bytes"
      BY <1>3 DEF Shown, GetValueCheckType
    <2>4. buffers' = [buffers EXCEPT ![b] = r]
      BY <1>3 DEF GetZeroCopyBytes
    <2> QED
      BY <1>2, <2>3, <2>4, BufferStep
  <1>4. CASE ~(attrs[name] # Missing /\ GetValueCheckType(attrs[name], "bytes"))
    BY <1>2, <1>4, ReadStep DEF GetZeroCopyBytes, AttrInv, AttrTypes
  <1> QED
    BY <1>3, <1>4

LEMMA GetZeroCopyListBytesStep ==
  ASSUME AttrInv, NEW b \in BufferNames, NEW name \in AttrNames, GetZeroCopyListBytes(b, name)
  PROVE  AttrInv' /\ StepIsTyped
  <1> DEFINE r == [of |-> name, item |-> 1, own |-> Missing]
  <1>1. r \in Shown /\ r.item # 0
    BY DEF Shown
  <1>2. attrs' = attrs /\ got'.op = "get" /\ (buffers' = buffers \/ buffers' = [buffers EXCEPT ![b] = r])
    BY DEF GetZeroCopyListBytes, Return
  <1> QED
    BY <1>1, <1>2, BufferStep

(* Attributes are typed, through every way in (AttrUtils' Set, Get and zero   *)
(* copies, AttrHolder's SetAttr and DelAttr): what is set is what is read     *)
(* next under its kind, a call that fails leaves no mixture of two values, a  *)
(* kind changes only by DelAttr or a replaced list, and no other attribute    *)
(* changes but the one whose bytes are moved away.                            *)
THEOREM AttributesTypedAlways == AttributesSpec => AttributesTyped
  <1>1. AttributesInit => AttrInv
    <2> SUFFICES ASSUME AttributesInit PROVE AttrInv
      OBVIOUS
    <2>1. attrs \in [AttrNames -> RightEntries \cup {Missing}]
      BY DEF AttributesInit
    <2>2. Own(NoBytes) \in Shown /\ Own(NoBytes).of = Missing
      BY DEF Own, Shown, Items
    <2>3. buffers = [b \in BufferNames |-> Own(NoBytes)]
      BY DEF AttributesInit
    <2>4. ShowsBytes
      BY <2>2, <2>3 DEF ShowsBytes
    <2> QED
      BY <2>1, <2>2, <2>3, <2>4 DEF AttrInv, AttrTypes
  <1>2. AttrInv /\ AttributesNext => AttrInv' /\ StepIsTyped
    <2> SUFFICES ASSUME AttrInv, AttributesNext PROVE AttrInv' /\ StepIsTyped
      OBVIOUS
    <2>0. AttrValues \subseteq Items /\ BadItem \in Items /\ AttrLists \subseteq Seq(Items)
      BY AttributesAssumption DEF Items
    <2>1. ASSUME NEW name \in AttrNames, NEW v \in AttrValues,
                 \/ \E kind \in Singles : SetOne(name, kind, v)
                 \/ SetBytes(name, v)
          PROVE  AttrInv' /\ StepIsTyped
      BY <2>0, <2>1, SetOneStep, SetBytesStep
    <2>2. ASSUME NEW name \in AttrNames, NEW v \in AttrValues \cup {BadItem}, SetGraph(name, v)
          PROVE  AttrInv' /\ StepIsTyped
      BY <2>0, <2>2, SetGraphStep
    <2>3. ASSUME NEW name \in AttrNames, NEW l \in AttrLists,
                 \/ SetListTensor(name, l) \/ SetListGraph(name, l)
                 \/ SetList(name, l) \/ SetListBytes(name, l)
                 \/ \E kind \in {"int", "tensor"} : Len(l) = 1 /\ SetAttr(name, kind, l)
          PROVE  AttrInv' /\ StepIsTyped
      <3>1. l \in Seq(Items)
        BY <2>0
      <3>2. CASE \E kind \in Elements : ListPut(name, kind, l) /\ Listed(name)
        BY <3>1, <3>2, ListPutStep
      <3>3. CASE \E kind \in {"int", "tensor"} : Len(l) = 1 /\ SetAttr(name, kind, l)
        BY <3>1, <3>3, SetAttrStep
      <3>4. SetListTensor(name, l) \/ SetListGraph(name, l) \/ SetList(name, l) \/ SetListBytes(name, l)
              => \E kind \in Elements : ListPut(name, kind, l) /\ Listed(name)
        BY DEF SetListTensor, SetListGraph, SetList, SetListBytes, Elements
      <3> QED
        BY <2>3, <3>2, <3>3, <3>4
    <2>4. ASSUME NEW name \in AttrNames, GetInt32(name) \/ AddRequiredAttr(name) \/ DelAttr(name)
          PROVE  AttrInv' /\ StepIsTyped
      <3>1. CASE GetInt32(name) \/ AddRequiredAttr(name)
        <4>1. attrs' = attrs /\ buffers' = buffers /\ got'.op \notin {"set", "replace"}
          BY <3>1 DEF GetInt32, AddRequiredAttr, Return
        <4> QED
          BY <4>1, ReadStep DEF AttrInv, AttrTypes
      <3> QED
        BY <2>4, <3>1, DelAttrStep
    <2>5. ASSUME NEW b \in BufferNames, NEW v \in AttrValues, FillBuffer(b, v)
          PROVE  AttrInv' /\ StepIsTyped
      BY <2>0, <2>5, FillBufferStep
    <2>6. ASSUME NEW b \in BufferNames, NEW name \in AttrNames,
                 \/ GetBytes(b, name) \/ GetZeroCopyBytes(b, name) \/ GetZeroCopyListBytes(b, name)
                 \/ SetZeroCopyBytes(name, b) \/ SetZeroCopyListBytes(name, b)
          PROVE  AttrInv' /\ StepIsTyped
      BY <2>6, GetBytesStep, GetZeroCopyBytesStep, GetZeroCopyListBytesStep, SetZeroCopyBytesStep,
         SetZeroCopyListBytesStep
    <2> QED
      BY <2>1, <2>2, <2>3, <2>4, <2>5, <2>6 DEF AttributesNext
  <1>3. AttrInv /\ UNCHANGED attrVars => AttrInv'
    BY DEF AttrInv, AttrTypes, ShowsBytes, attrVars
  <1>4. StepIsTyped => \A n \in AttrNames :
          LET was == Read(Entry(n))
              is  == IF attrs'[n] = Missing THEN Missing ELSE Read(attrs'[n])
          IN  /\ (n = got'.name /\ got'.op \in {"set", "replace"} /\ got'.ok) => is = got'.val
              /\ (n = got'.name /\ ~got'.ok) => is \in {was, Missing} \/ is[2] = << >>
              /\ (was # Missing /\ is # Missing /\ is[1] # was[1])
                    => got'.name = n /\ got'.op = "replace" /\ Entry(n).case = "list"
              /\ n # got'.name => is = was \/ (got'.op = "moved" /\ is[2] = <<NoBytes>>)
    BY DEF StepIsTyped, Value
  <1> QED
    BY <1>1, <1>2, <1>3, <1>4, PTL DEF AttributesSpec, AttributesTyped

-----------------------------------------------------------------------------
(* Descriptions.  An integer divided by a positive one and a product that     *)
(* fits are two ways to say the same.                                         *)
LEMMA QuotientBounds ==
  ASSUME NEW n \in Nat, NEW d \in Nat, d > 0, NEW k \in Nat
  PROVE  n \div d \in Nat /\ (k <= n \div d <=> k * d <= n)
  <1> DEFINE q == n \div d
             r == n % d
  <1>1. q \in Nat /\ r \in 0 .. d - 1 /\ n = q * d + r
    BY Z3
  <1> HIDE DEF q, r
  <1>2. k <= q => k * d <= n
    <2>1. k <= q => k * d <= q * d
      BY <1>1, Z3
    <2> QED
      BY <1>1, <2>1, Z3
  <1>3. k > q => k * d > n
    <2>1. k > q => k * d >= (q + 1) * d
      BY <1>1, Z3
    <2>2. (q + 1) * d = q * d + d
      BY <1>1, Z3
    <2> QED
      BY <1>1, <2>1, <2>2, Z3
  <1> QED
    BY <1>1, <1>2, <1>3 DEF q

(* The test before a multiplication says exactly whether the product fits.    *)
LEMMA NotOverflowIsExact ==
  ASSUME NEW a \in Int64Min .. Int64Max, NEW b \in Int64Min .. Int64Max
  PROVE  Int64MulNotOverflow(a, b) <=> a * b \in Int64Min .. Int64Max
  <1>0. /\ a \in Int /\ b \in Int /\ Int64Max \in Nat /\ Int64Min = -(Int64Max + 1)
        /\ Int64Max + 1 \in Nat
    BY DescriptionsAssumption DEF Int64Min
  <1>1. CASE a > 0 /\ b > 0
    <2>1. Int64MulNotOverflow(a, b) <=> a <= Int64Max \div b
      <3>1. ~(a <= 0) /\ ~(b <= 0)
        BY <1>0, <1>1
      <3> QED
        BY <1>1, <3>1, Zenon DEF Int64MulNotOverflow
    <2>2. a \in Nat /\ b \in Nat /\ a * b > 0
      BY <1>0, <1>1, Z3
    <2>3. a <= Int64Max \div b <=> a * b <= Int64Max
      BY <1>0, <1>1, <2>2, QuotientBounds
    <2> QED
      BY <1>0, <2>1, <2>2, <2>3
  <1>2. CASE a > 0 /\ b <= 0
    <2> DEFINE c == -b
    <2>1. c \in Nat /\ a \in Nat /\ a * b = -(c * a) /\ c * a \in Nat
      BY <1>0, <1>2, Z3
    <2>2. Quotient(Int64Min, a) = -((Int64Max + 1) \div a)
      <3>1. Abs(Int64Min) = Int64Max + 1 /\ Abs(a) = a /\ Int64Min < 0 /\ ~(a < 0)
        BY <1>0, <1>2 DEF Abs
      <3> QED
        BY <3>1 DEF Quotient
    <2>3. Int64MulNotOverflow(a, b) <=> b >= -((Int64Max + 1) \div a)
      <3>1. ~(a <= 0) /\ ~(b > 0)
        BY <1>0, <1>2
      <3> QED
        BY <1>2, <2>2, <3>1, Zenon DEF Int64MulNotOverflow
    <2>4. (Int64Max + 1) \div a \in Nat /\ (c <= (Int64Max + 1) \div a <=> c * a <= Int64Max + 1)
      BY <1>0, <1>2, <2>1, QuotientBounds
    <2> QED
      BY <1>0, <2>1, <2>3, <2>4
  <1>3. CASE a <= 0 /\ b > 0
    <2> DEFINE c == -a
    <2>1. c \in Nat /\ b \in Nat /\ a * b = -(c * b) /\ c * b \in Nat
      BY <1>0, <1>3, Z3
    <2>2. Quotient(Int64Min, b) = -((Int64Max + 1) \div b)
      <3>1. Abs(Int64Min) = Int64Max + 1 /\ Abs(b) = b /\ Int64Min < 0 /\ ~(b < 0)
        BY <1>0, <1>3 DEF Abs
      <3> QED
        BY <3>1 DEF Quotient
    <2>3. Int64MulNotOverflow(a, b) <=> a >= -((Int64Max + 1) \div b)
      <3>1. ~(b <= 0) /\ ~(a > 0)
        BY <1>0, <1>3
      <3> QED
        BY <1>3, <2>2, <3>1, Zenon DEF Int64MulNotOverflow
    <2>4. (Int64Max + 1) \div b \in Nat /\ (c <= (Int64Max + 1) \div b <=> c * b <= Int64Max + 1)
      BY <1>0, <1>3, <2>1, QuotientBounds
    <2> QED
      BY <1>0, <2>1, <2>3, <2>4
  <1>4. CASE a <= 0 /\ b <= 0
    <2> DEFINE c == -a
               e == -b
    <2>1. c \in Nat /\ e \in Nat /\ a * b = e * c /\ e * c \in Nat
      BY <1>0, <1>4, Z3
    <2>2. Int64MulNotOverflow(a, b) <=> a = 0 \/ b >= Quotient(Int64Max, a)
      BY <1>0, <1>4 DEF Int64MulNotOverflow
    <2>3. CASE a = 0
      <3>1. a * b = 0
        BY <1>0, <2>3, Z3
      <3> QED
        BY <1>0, <2>2, <2>3, <3>1
    <2>4. CASE a # 0
      <3>1. Abs(Int64Max) = Int64Max /\ Abs(a) = c /\ ~(Int64Max < 0) /\ a < 0 /\ c > 0
        BY <1>0, <1>4, <2>4 DEF Abs
      <3>2. Quotient(Int64Max, a) = -(Int64Max \div c)
        BY <3>1 DEF Quotient
      <3>3. Int64Max \div c \in Nat /\ (e <= Int64Max \div c <=> e * c <= Int64Max)
        BY <1>0, <2>1, <3>1, QuotientBounds
      <3> QED
        BY <1>0, <2>1, <2>2, <2>4, <3>2, <3>3
    <2> QED
      BY <2>3, <2>4
  <1> QED
    BY <1>0, <1>1, <1>2, <1>3, <1>4

(* A number that fits is what it is wrapped to.                               *)
LEMMA WrapOfFitting ==
  ASSUME NEW x \in Int64Min .. Int64Max
  PROVE  Wrap(x) = x
  <1> DEFINE y == x + Int64Max + 1
             k == 2 * (Int64Max + 1)
  <1>1. y \in Nat /\ k \in Nat /\ k > 0 /\ y < k /\ x \in Int /\ Int64Max \in Nat
    BY DescriptionsAssumption DEF Int64Min
  <1>2. Wrap(x) = (y % k) - Int64Max - 1
    BY DEF Wrap
  <1> HIDE DEF k
  <1>3. y % k = y
    <2> HIDE DEF y
    <2> QED
      BY <1>1, Z3
  <1> QED
    BY <1>1, <1>2, <1>3

(* The sizes of a shape of at most two dimensions, unrolled.                  *)
Start == [at |-> 1, done |-> FALSE]
Times(p, x) == IF p.done THEN p
               ELSE IF x \in {UnknownDim, UnknownDimNum} THEN [at |-> UnknownDim, done |-> TRUE]
               ELSE IF ~Int64MulNotOverflow(p.at, x) THEN [at |-> 0, done |-> TRUE]
               ELSE [p EXCEPT !.at = @ * x]

LEMMA UserSizeUnrolled ==
  ASSUME NEW d \in Seq(Dims), Len(d) \in {1, 2}
  PROVE  /\ Len(d) = 1 => UserSize(d) = Times(Start, d[1]).at
         /\ Len(d) = 2 => UserSize(d) = Times(Times(Start, d[1]), d[2]).at
  <1> DEFINE step(g) == [i \in 0 .. Len(d) |-> IF i = 0 THEN Start ELSE Times(g[i - 1], d[i])]
             f == [i \in 0 .. Len(d) |-> IF i = 0 THEN Start ELSE IF i = 1 THEN Times(Start, d[1])
                                         ELSE Times(Times(Start, d[1]), d[2])]
             c == CHOOSE g : g = step(g)
  <1>0. d # << >> /\ Len(d) \in Nat
    OBVIOUS
  <1>1. f = step(f)
    <2>1. /\ 0 \in 0 .. Len(d) /\ 1 \in 0 .. Len(d)
          /\ \A i \in 0 .. Len(d) : i = 0 \/ i = 1 \/ i = 2
      <3>1. \A n \in Nat : n \in {1, 2} => /\ 0 \in 0 .. n /\ 1 \in 0 .. n
                                           /\ \A i \in 0 .. n : i = 0 \/ i = 1 \/ i = 2
        OBVIOUS
      <3> QED
        BY <1>0, <3>1
    <2>2. f[0] = Start /\ f[1] = Times(Start, d[1])
      BY <2>1
    <2>3. \A i \in 0 .. Len(d) : f[i] = step(f)[i]
      <3> SUFFICES ASSUME NEW i \in 0 .. Len(d) PROVE f[i] = step(f)[i]
        OBVIOUS
      <3>1. CASE i = 0
        BY <3>1
      <3>2. CASE i = 1
        BY <2>2, <3>2
      <3>3. CASE i = 2
        BY <2>2, <3>3
      <3> QED
        BY <2>1, <3>1, <3>2, <3>3
    <2> QED
      BY <2>3
  <1>2. c = step(c)
    BY <1>1
  <1>3. UserSize(d) = c[Len(d)].at
    BY <1>0 DEF UserSize, Times, Start
  <1> HIDE DEF c
  <1>4. c[0] = Start /\ c[1] = Times(c[0], d[1]) /\ (Len(d) = 2 => c[2] = Times(c[1], d[2]))
    <2>1. 0 \in 0 .. Len(d) /\ 1 \in 0 .. Len(d) /\ (Len(d) = 2 => 2 \in 0 .. Len(d))
      OBVIOUS
    <2> QED
      BY <1>2, <2>1
  <1> QED
    BY <1>3, <1>4

LEMMA GeSizeUnrolled ==
  ASSUME NEW d \in Seq(Dims), Len(d) = 2
  PROVE  GeSize(d) = IF Range(d) \cap {UnknownDim, UnknownDimNum} # {} THEN UnknownDim
                     ELSE Wrap(Wrap(1 * d[1]) * d[2])
  <1> DEFINE step(g) == [i \in 0 .. Len(d) |-> IF i = 0 THEN 1 ELSE Wrap(g[i - 1] * d[i])]
             f == [i \in 0 .. Len(d) |-> IF i = 0 THEN 1 ELSE IF i = 1 THEN Wrap(1 * d[1])
                                         ELSE Wrap(Wrap(1 * d[1]) * d[2])]
             c == CHOOSE g : g = step(g)
  <1>0. /\ d # << >> /\ Len(d) = 2
        /\ 0 \in 0 .. Len(d) /\ 1 \in 0 .. Len(d) /\ 2 \in 0 .. Len(d)
        /\ \A i \in 0 .. Len(d) : i = 0 \/ i = 1 \/ i = 2
    <2>0. Len(d) # Len(<< >>)
      OBVIOUS
    <2>1. d # << >>
      BY <2>0
    <2>3. Len(d) = 2
      OBVIOUS
    <2>4. Len(d) \in Nat
      BY <2>3
    <2>2. \A n \in Nat : n = 2 => /\ 0 \in 0 .. n /\ 1 \in 0 .. n /\ 2 \in 0 .. n
                                 /\ \A i \in 0 .. n : i = 0 \/ i = 1 \/ i = 2
      OBVIOUS
    <2> QED
      BY <2>1, <2>2, <2>3, <2>4
  <1>1. f = step(f)
    <2>2. f[0] = 1 /\ f[1] = Wrap(1 * d[1]) /\ f[2] = Wrap(Wrap(1 * d[1]) * d[2])
      BY <1>0
    <2>3. step(f)[0] = 1 /\ step(f)[1] = Wrap(f[0] * d[1]) /\ step(f)[2] = Wrap(f[1] * d[2])
      BY <1>0
    <2>4. \A i \in 0 .. Len(d) : f[i] = step(f)[i]
      BY <1>0, <2>2, <2>3
    <2> QED
      BY <2>4
  <1>2. c = step(c)
    BY <1>1
  <1>3. GeSize(d) = IF Range(d) \cap {UnknownDim, UnknownDimNum} # {} THEN UnknownDim ELSE c[Len(d)]
    BY <1>0 DEF GeSize
  <1> HIDE DEF c
  <1>4. c[0] = 1 /\ c[1] = Wrap(c[0] * d[1]) /\ c[2] = Wrap(c[1] * d[2])
    BY <1>0, <1>2
  <1> QED
    BY <1>3, <1>4

LEMMA ValidIsExact ==
  ASSUME NEW size \in 0 .. Int64Max, NEW length \in {1, 2}, NEW bytes \in 0 .. 2
  PROVE  IsValid(size, bytes, length) <=> (bytes = size * length \/ (size = 0 /\ bytes = length))
  <1>1. Int64Max \in Nat /\ size \in Nat /\ ~(size < 0) /\ length # 0 /\ bytes \in Int
    BY DescriptionsAssumption
  <1>2. ~((2 * Int64Max + 1) \div length < size)
    <2>1. (2 * Int64Max + 1) \div 1 = 2 * Int64Max + 1 /\ (2 * Int64Max + 1) \div 2 = Int64Max
      BY <1>1, Z3
    <2> QED
      BY <1>1, <2>1
  <1>3. IsValid(size, bytes, length) <=> (size = 0 /\ bytes = length) \/ size * length = bytes
    BY <1>1, <1>2 DEF IsValid
  <1> QED
    BY <1>3

(* What a shape of one dimension starts with, and of two.                     *)
LEMMA TimesStart ==
  ASSUME NEW x \in Dims
  PROVE  /\ x \in {UnknownDim, UnknownDimNum} => Times(Start, x) = [at |-> UnknownDim, done |-> TRUE]
         /\ x \notin {UnknownDim, UnknownDimNum} => /\ Times(Start, x) = [at |-> x, done |-> FALSE]
                                                    /\ x \in Int64Min .. Int64Max
  <1>1. Start.done = FALSE /\ Start.at = 1
    BY DEF Start
  <1>2. CASE x \in {UnknownDim, UnknownDimNum}
    BY <1>1, <1>2 DEF Times
  <1>3. CASE x \notin {UnknownDim, UnknownDimNum}
    <2>1. x \in Int64Min .. Int64Max /\ 1 \in Int64Min .. Int64Max /\ 1 * x = x
      BY <1>3, DescriptionsAssumption DEF Dims, Int64Min
    <2>2. Int64MulNotOverflow(1, x)
      BY <2>1, NotOverflowIsExact
    <2>3. Times(Start, x) = [Start EXCEPT !.at = 1 * x]
      BY <1>1, <1>3, <2>2 DEF Times
    <2> QED
      BY <1>3, <2>1, <2>3 DEF Start
  <1> QED
    BY <1>2, <1>3

LEMMA SizesOfTwo ==
  ASSUME NEW d \in Seq(Dims), Len(d) = 2
  PROVE  LET exact == d[1] * d[2]
             unknown == Range(d) \cap {UnknownDim, UnknownDimNum} # {}
         IN  /\ unknown => UserSize(d) = UnknownDim /\ GeSize(d) = UnknownDim
             /\ ~unknown /\ exact \in Int64Min .. Int64Max => UserSize(d) = exact /\ GeSize(d) = exact
             /\ ~unknown /\ exact \notin Int64Min .. Int64Max => UserSize(d) = 0
  <1> DEFINE U == {UnknownDim, UnknownDimNum}
             first == Times(Start, d[1])
  <1>1. d[1] \in Dims /\ d[2] \in Dims
    OBVIOUS
  <1>2. Range(d) \cap U # {} <=> d[1] \in U \/ d[2] \in U
    <2>1. 1 \in DOMAIN d /\ 2 \in DOMAIN d /\ \A i \in DOMAIN d : i = 1 \/ i = 2
      OBVIOUS
    <2> QED
      BY <2>1 DEF Range
  <1>3. UserSize(d) = Times(first, d[2]).at
    BY UserSizeUnrolled
  <1>4. GeSize(d) = IF Range(d) \cap U # {} THEN UnknownDim ELSE Wrap(Wrap(1 * d[1]) * d[2])
    BY GeSizeUnrolled
  <1>5. CASE d[1] \in U
    <2>1. first = [at |-> UnknownDim, done |-> TRUE]
      BY <1>1, <1>5, TimesStart
    <2>2. Times(first, d[2]) = first
      BY <2>1 DEF Times
    <2> QED
      BY <1>2, <1>3, <1>4, <1>5, <2>1, <2>2
  <1>6. CASE d[1] \notin U
    <2>1. first = [at |-> d[1], done |-> FALSE] /\ d[1] \in Int64Min .. Int64Max
      BY <1>1, <1>6, TimesStart
    <2> HIDE DEF first
    <2>2. CASE d[2] \in U
      <3>1. Times(first, d[2]).at = UnknownDim
        BY <2>1, <2>2 DEF Times
      <3> QED
        BY <1>2, <1>3, <1>4, <2>2, <3>1
    <2>3. CASE d[2] \notin U
      <3>1. d[2] \in Int64Min .. Int64Max
        BY <1>1, <2>3 DEF Dims
      <3>2. Int64MulNotOverflow(d[1], d[2]) <=> d[1] * d[2] \in Int64Min .. Int64Max
        BY <2>1, <3>1, NotOverflowIsExact
      <3>3. Times(first, d[2]).at = IF Int64MulNotOverflow(d[1], d[2]) THEN d[1] * d[2] ELSE 0
        BY <2>1, <2>3 DEF Times
      <3>4. d[1] * d[2] \in Int64Min .. Int64Max => Wrap(Wrap(1 * d[1]) * d[2]) = d[1] * d[2]
        <4>1. 1 * d[1] = d[1]
          BY <2>1, DescriptionsAssumption DEF Int64Min
        <4>2. Wrap(1 * d[1]) = d[1]
          BY <2>1, <4>1, WrapOfFitting
        <4> QED
          BY <4>2, WrapOfFitting
      <3> QED
        BY <1>2, <1>3, <1>4, <1>6, <2>3, <3>2, <3>3, <3>4
    <2> QED
      BY <2>2, <2>3
  <1> QED
    BY <1>5, <1>6

(* A shape as the variables hold them.                                        *)
ShapesOf == {d \in Seq(Dims) : Len(d) <= 2}

LEMMA SizesOfShapes ==
  ASSUME NEW d \in ShapesOf, UserSize(d) >= 0
  PROVE  UserSize(d) \in 0 .. Int64Max
  <1>0. d \in Seq(Dims) /\ Len(d) \in {0, 1, 2} /\ Int64Max \in Nat /\ 0 \in 0 .. Int64Max /\ ~(UnknownDim >= 0)
    <2>1. d \in Seq(Dims) /\ Len(d) <= 2
      BY DEF ShapesOf
    <2>2. Len(d) \in Nat
      BY <2>1
    <2>3. Len(d) \in {0, 1, 2}
      <3>1. \A n \in Nat : n <= 2 => n \in {0, 1, 2}
        OBVIOUS
      <3> QED
        BY <2>1, <2>2, <3>1
    <2>4. Int64Max \in Nat /\ 0 \in 0 .. Int64Max
      BY DescriptionsAssumption
    <2>5. ~(UnknownDim >= 0)
      BY DEF UnknownDim
    <2> QED
      BY <2>1, <2>3, <2>4, <2>5
  <1>1. CASE Len(d) = 0
    <2>1. d = << >>
      BY <1>0, <1>1
    <2>2. UserSize(d) = 0
      BY <2>1 DEF UserSize
    <2> QED
      BY <1>0, <2>2
  <1>2. CASE Len(d) = 1
    <2>1. d[1] \in Dims /\ UserSize(d) = Times(Start, d[1]).at
      BY <1>0, <1>2, UserSizeUnrolled
    <2>2. CASE d[1] \in {UnknownDim, UnknownDimNum}
      BY <1>0, <2>1, <2>2, TimesStart
    <2>3. CASE d[1] \notin {UnknownDim, UnknownDimNum}
      <3>1. UserSize(d) = d[1] /\ d[1] \in Int64Min .. Int64Max
        BY <2>1, <2>3, TimesStart
      <3> QED
        BY <1>0, <3>1 DEF Int64Min
    <2> QED
      BY <2>2, <2>3
  <1>3. CASE Len(d) = 2
    <2>1. UserSize(d) = UnknownDim \/ UserSize(d) = 0 \/ UserSize(d) \in Int64Min .. Int64Max
      BY <1>0, <1>3, SizesOfTwo
    <2> QED
      BY <1>0, <2>1 DEF Int64Min
  <1> QED
    BY <1>0, <1>1, <1>2, <1>3

(* What the variables hold.                                                   *)
AllFormats == DescFormats \cup {"ND", Reserved}
AllTypes == DescTypes \cup {"FLOAT", Undefined}
UserType == [dims : ShapesOf, odims : ShapesOf, format : AllFormats, oformat : AllFormats, dtype : AllTypes,
             range : Ranges, size : Int, cnt : Int, name : {"", "x"}]
ImplType == [shape : ShapeIds, origin : ShapeIds, format : AllFormats, oformat : AllFormats, dtype : AllTypes,
             range : Ranges, size : Int, cnt : Int, name : {"", "x"}]
GeType == [dims : ShapesOf, format : AllFormats, dtype : AllTypes, name : {"", "x"}, size : Int, cnt : Int,
           oformat : AllFormats \cup {NotSet}, odims : ShapesOf \cup {NotSet},
           odtype : AllTypes \cup {Reserved, NotSet}, range : Ranges \cup {NotSet}]
DescInv == /\ shapes \in [ShapeIds -> ShapesOf]
           /\ desc \in [Vars -> ImplType \cup {NoImpl}]
           /\ ge \in [Vars -> GeType]

LEMMA UserRecord ==
  ASSUME NEW dims \in ShapesOf, NEW odims \in ShapesOf, NEW format \in AllFormats, NEW oformat \in AllFormats,
         NEW dtype \in AllTypes, NEW range \in Ranges, NEW size \in Int, NEW cnt \in Int, NEW name \in {"", "x"}
  PROVE  [dims |-> dims, odims |-> odims, format |-> format, oformat |-> oformat, dtype |-> dtype,
          range |-> range, size |-> size, cnt |-> cnt, name |-> name] \in UserType
  BY DEF UserType

LEMMA GeRecord ==
  ASSUME NEW dims \in ShapesOf, NEW format \in AllFormats, NEW dtype \in AllTypes, NEW name \in {"", "x"},
         NEW size \in Int, NEW cnt \in Int, NEW oformat \in AllFormats, NEW odims \in ShapesOf \cup {NotSet},
         NEW range \in Ranges \cup {NotSet}
  PROVE  [dims |-> dims, format |-> format, dtype |-> dtype, name |-> name, size |-> size, cnt |-> cnt,
          oformat |-> oformat, odims |-> odims, odtype |-> NotSet, range |-> range] \in GeType
  BY DEF GeType

LEMMA ShapeFacts ==
  /\ << >> \in ShapesOf /\ <<UnknownDimNum>> \in ShapesOf
  /\ \A d \in ShapesOf : ShapeImpl(d) \in ShapesOf
  /\ \A a, b \in DimValues : <<a, b>> \in ShapesOf
  /\ \A d \in ShapesOf : \A i \in DOMAIN d, n \in DimValues : [d EXCEPT ![i] = n] \in ShapesOf
  <1>1. << >> \in Seq(Dims) /\ <<UnknownDimNum>> \in Seq(Dims) /\ Len(<< >>) <= 2 /\ Len(<<UnknownDimNum>>) <= 2
    BY DEF Dims
  <1>2. DimValues \subseteq Dims
    BY DescriptionsAssumption DEF Dims
  <1>3. \A a, b \in DimValues : <<a, b>> \in Seq(Dims) /\ Len(<<a, b>>) <= 2
    BY <1>2
  <1>4. ASSUME NEW d \in ShapesOf, NEW i \in DOMAIN d, NEW n \in DimValues
        PROVE  [d EXCEPT ![i] = n] \in ShapesOf
    <2>1. d \in Seq(Dims) /\ Len(d) <= 2 /\ n \in Dims
      BY <1>2 DEF ShapesOf
    <2>2. [d EXCEPT ![i] = n] \in Seq(Dims) /\ Len([d EXCEPT ![i] = n]) = Len(d)
      BY <2>1
    <2> QED
      BY <2>1, <2>2 DEF ShapesOf
  <1> QED
    BY <1>1, <1>3, <1>4 DEF ShapesOf, ShapeImpl

LEMMA DefaultIsTyped == DefaultGe \in GeType
  BY ShapeFacts DEF DefaultGe, GeType, AllFormats, AllTypes

LEMMA ToldIsTyped ==
  ASSUME DescInv, NEW v \in Vars
  PROVE  /\ Told(v) \in UserType
         /\ desc[v] = NoImpl => Told(v) = [dims |-> << >>, odims |-> << >>, format |-> Reserved, oformat |-> Reserved,
                                           dtype |-> Undefined, range |-> << >>, size |-> 0, cnt |-> 0, name |-> ""]
  <1>1. CASE desc[v] = NoImpl
    <2>1. Told(v) = [dims |-> << >>, odims |-> << >>, format |-> Reserved, oformat |-> Reserved,
                     dtype |-> Undefined, range |-> << >>, size |-> 0, cnt |-> 0, name |-> ""]
      BY <1>1 DEF Told, GetDims, GetOriginDims, GetField
    <2>2. << >> \in Ranges
      BY DEF Ranges
    <2>3. Reserved \in AllFormats /\ Undefined \in AllTypes /\ 0 \in Int /\ "" \in {"", "x"}
      BY DEF AllFormats, AllTypes
    <2>4. << >> \in ShapesOf
      BY ShapeFacts
    <2> QED
      BY <1>1, <2>1, <2>2, <2>3, <2>4, UserRecord
  <1>2. CASE desc[v] # NoImpl
    <2>1. desc[v] \in ImplType /\ shapes[desc[v].shape] \in ShapesOf /\ shapes[desc[v].origin] \in ShapesOf
      BY <1>2 DEF DescInv, ImplType
    <2>2. Told(v) = [dims |-> shapes[desc[v].shape], odims |-> shapes[desc[v].origin], format |-> desc[v].format,
                     oformat |-> desc[v].oformat, dtype |-> desc[v].dtype, range |-> desc[v].range,
                     size |-> desc[v].size, cnt |-> desc[v].cnt, name |-> desc[v].name]
      BY <1>2 DEF Told, GetDims, GetOriginDims, GetField
    <2>3. /\ desc[v].format \in AllFormats /\ desc[v].oformat \in AllFormats /\ desc[v].dtype \in AllTypes
          /\ desc[v].range \in Ranges /\ desc[v].size \in Int /\ desc[v].cnt \in Int /\ desc[v].name \in {"", "x"}
      BY <2>1 DEF ImplType
    <2> DEFINE r == desc[v]
    <2>4. [dims |-> shapes[r.shape], odims |-> shapes[r.origin], format |-> r.format, oformat |-> r.oformat,
           dtype |-> r.dtype, range |-> r.range, size |-> r.size, cnt |-> r.cnt, name |-> r.name] \in UserType
      <3> HIDE DEF r
      <3> QED
        BY <2>1, <2>3, UserRecord DEF r
    <2> QED
      BY <1>2, <2>2, <2>4
  <1> QED
    BY <1>1, <1>2

(* The conversions, field by field.                                           *)
LEMMA ToGeFields ==
  ASSUME NEW t \in UserType, NEW known \in BOOLEAN
  PROVE  LET d == TensorDesc2GeTensorDesc(t, known)
         IN  /\ d \in GeType
             /\ d.dims = t.dims /\ d.format = t.format /\ d.odims = t.odims /\ d.oformat = t.oformat
             /\ d.name = t.name
             /\ t.dtype \in MapTypes => d.dtype = t.dtype
             /\ known => d.range = t.range /\ d.size = t.size /\ d.cnt = t.cnt % (UInt32Max + 1)
             /\ ~known => d.range = NotSet /\ d.size = 0 /\ d.cnt = 0
  <1> DEFINE type == IF t.dtype \in MapTypes THEN t.dtype ELSE "FLOAT"
             base == [dims |-> t.dims, format |-> t.format, dtype |-> type, name |-> t.name, size |-> 0, cnt |-> 0,
                      oformat |-> t.oformat, odims |-> t.odims, odtype |-> NotSet, range |-> NotSet]
             full == [dims |-> t.dims, format |-> t.format, dtype |-> type, name |-> t.name, size |-> t.size,
                      cnt |-> t.cnt % (UInt32Max + 1), oformat |-> t.oformat, odims |-> t.odims,
                      odtype |-> NotSet, range |-> t.range]
  <1>1. GeUpdate(DefaultGe, t.dims, t.format, t.dtype)
          = [dims |-> t.dims, format |-> t.format, dtype |-> type, name |-> "", size |-> 0, cnt |-> 0,
             oformat |-> "ND", odims |-> NotSet, odtype |-> NotSet, range |-> NotSet]
    BY DEF GeUpdate, DefaultGe, SetDataType
  <1>2. TensorDesc2GeTensorDesc(t, known) = IF known THEN full ELSE base
    <2> DEFINE none == ""
               nd == "ND"
               bare == [dims |-> t.dims, format |-> t.format, dtype |-> type, name |-> none, size |-> 0, cnt |-> 0,
                        oformat |-> nd, odims |-> NotSet, odtype |-> NotSet, range |-> NotSet]
    <2> HIDE DEF type, none, nd
    <2>1. [bare EXCEPT !.odims = t.odims, !.oformat = t.oformat, !.name = t.name] = base
      <3>1. [bare EXCEPT !.odims = t.odims, !.oformat = t.oformat, !.name = t.name]
              = [[[bare EXCEPT !.odims = t.odims] EXCEPT !.oformat = t.oformat] EXCEPT !.name = t.name]
        BY Zenon
      <3> DEFINE one == [dims |-> t.dims, format |-> t.format, dtype |-> type, name |-> none, size |-> 0, cnt |-> 0,
             oformat |-> nd, odims |-> t.odims, odtype |-> NotSet, range |-> NotSet]
                 two == [dims |-> t.dims, format |-> t.format, dtype |-> type, name |-> none, size |-> 0, cnt |-> 0,
             oformat |-> t.oformat, odims |-> t.odims, odtype |-> NotSet, range |-> NotSet]
      <3>2. [bare EXCEPT !.odims = t.odims] = one
        OBVIOUS
      <3>3. [one EXCEPT !.oformat = t.oformat] = two
        OBVIOUS
      <3>4. [two EXCEPT !.name = t.name] = base
        OBVIOUS
      <3> HIDE DEF bare, one, two, base
      <3> QED
        BY <3>1, <3>2, <3>3, <3>4
    <2>2. [base EXCEPT !.range = t.range, !.size = t.size, !.cnt = t.cnt % (UInt32Max + 1)] = full
      <3> DEFINE k == t.cnt % (UInt32Max + 1)
                 one == [dims |-> t.dims, format |-> t.format, dtype |-> type, name |-> t.name, size |-> 0, cnt |-> 0,
             oformat |-> t.oformat, odims |-> t.odims, odtype |-> NotSet, range |-> t.range]
                 two == [dims |-> t.dims, format |-> t.format, dtype |-> type, name |-> t.name, size |-> t.size, cnt |-> 0,
             oformat |-> t.oformat, odims |-> t.odims, odtype |-> NotSet, range |-> t.range]
      <3>1. [base EXCEPT !.range = t.range, !.size = t.size, !.cnt = k]
              = [[[base EXCEPT !.range = t.range] EXCEPT !.size = t.size] EXCEPT !.cnt = k]
        BY Zenon
      <3>2. [base EXCEPT !.range = t.range] = one
        OBVIOUS
      <3>3. [one EXCEPT !.size = t.size] = two
        OBVIOUS
      <3>4. [two EXCEPT !.cnt = k] = full
        <4> HIDE DEF k
        <4>1. full = [dims |-> t.dims, format |-> t.format, dtype |-> type, name |-> t.name, size |-> t.size, cnt |-> k,
             oformat |-> t.oformat, odims |-> t.odims, odtype |-> NotSet, range |-> t.range]
          BY DEF k
        <4> HIDE DEF full
        <4> QED
          BY <4>1
      <3> HIDE DEF one, two, base, full
      <3> QED
        BY <3>1, <3>2, <3>3, <3>4
    <2> HIDE DEF bare, base, full
    <2>3. GeUpdate(DefaultGe, t.dims, t.format, t.dtype) = bare
      BY <1>1 DEF bare, type, none, nd
    <2> QED
      BY <2>1, <2>2, <2>3 DEF TensorDesc2GeTensorDesc
  <1>3. t.cnt % (UInt32Max + 1) \in Int
    <2>0. t.cnt \in Int
      BY DEF UserType
    <2>1. t.cnt \in Int /\ UInt32Max + 1 \in Nat /\ UInt32Max + 1 > 0
      BY <2>0, DescriptionsAssumption
    <2> HIDE DEF full, base
    <2> QED
      BY <2>1, Z3
  <1>4. /\ t.dims \in ShapesOf /\ t.odims \in ShapesOf /\ t.format \in AllFormats /\ t.oformat \in AllFormats
        /\ t.dtype \in AllTypes /\ type \in AllTypes /\ t.range \in Ranges /\ t.size \in Int /\ t.name \in {"", "x"}
    BY DEF UserType, AllTypes
  <1> HIDE DEF type
  <1>5. full \in GeType /\ base \in GeType
    <2>1. 0 \in Int /\ NotSet \in Ranges \cup {NotSet}
      OBVIOUS
    <2> QED
      BY <1>3, <1>4, <2>1, GeRecord
  <1>6. t.dtype \in MapTypes => type = t.dtype
    BY DEF type
  <1> QED
    BY <1>2, <1>5, <1>6

LEMMA ToUserFields ==
  ASSUME NEW d \in GeType
  PROVE  LET u == GeTensorDesc2TensorDesc(d)
         IN  /\ u \in UserType
             /\ u = [dims |-> ShapeImpl(d.dims),
                     odims |-> ShapeImpl(IF d.odims = NotSet THEN << >> ELSE d.odims), format |-> d.format,
                     oformat |-> IF d.oformat = NotSet THEN Reserved ELSE d.oformat, dtype |-> d.dtype,
                     range |-> IF d.range = NotSet THEN << >> ELSE d.range,
                     size |-> d.size, cnt |-> d.cnt, name |-> d.name]
  <1> DEFINE od == IF d.odims = NotSet THEN << >> ELSE d.odims
             of == IF d.oformat = NotSet THEN Reserved ELSE d.oformat
             rg == IF d.range = NotSet THEN << >> ELSE d.range
             u == [dims |-> ShapeImpl(d.dims), odims |-> ShapeImpl(od), format |-> d.format, oformat |-> of,
                   dtype |-> d.dtype, range |-> rg, size |-> d.size, cnt |-> d.cnt, name |-> d.name]
  <1>1. GetOriginShape(d) = od /\ GetOriginFormat(d) = of /\ GetShapeRange(d) = rg
    BY DEF GetOriginShape, GetOriginFormat, GetShapeRange
  <1>2. GeTensorDesc2TensorDesc(d) = u
    BY <1>1 DEF GeTensorDesc2TensorDesc
  <1>3. /\ d.dims \in ShapesOf /\ od \in ShapesOf /\ d.format \in AllFormats /\ of \in AllFormats
        /\ d.dtype \in AllTypes /\ rg \in Ranges /\ d.size \in Int /\ d.cnt \in Int /\ d.name \in {"", "x"}
    BY ShapeFacts DEF GeType, AllFormats, Ranges
  <1>4. ShapeImpl(d.dims) \in ShapesOf /\ ShapeImpl(od) \in ShapesOf
    BY <1>3, ShapeFacts
  <1>5. u \in UserType
    <2> HIDE DEF od, of, rg
    <2> QED
      BY <1>3, <1>4 DEF UserType
  <1> QED
    BY <1>2, <1>5

LEMMA ConversionsAgree == DescInv => DescriptionsConvert
  <1> SUFFICES ASSUME DescInv, NEW v \in Vars, Told(v).dtype \in MapTypes
               PROVE  GeTensorDesc2TensorDesc(TensorDesc2GeTensorDesc(Told(v), desc[v] # NoImpl))
                        = [Told(v) EXCEPT !.dims = ShapeImpl(@), !.odims = ShapeImpl(@), !.cnt = @ % (UInt32Max + 1)]
    BY DEF DescriptionsConvert
  <1> DEFINE t == Told(v)
             known == desc[v] # NoImpl
             d == TensorDesc2GeTensorDesc(t, known)
             m == UInt32Max + 1
  <1>1. t \in UserType
    BY ToldIsTyped
  <1>2. /\ d \in GeType /\ d.dims = t.dims /\ d.format = t.format /\ d.odims = t.odims /\ d.oformat = t.oformat
        /\ d.name = t.name /\ d.dtype = t.dtype
        /\ known => d.range = t.range /\ d.size = t.size /\ d.cnt = t.cnt % m
        /\ ~known => d.range = NotSet /\ d.size = 0 /\ d.cnt = 0
    BY <1>1, ToGeFields
  <1>3. t.odims # NotSet /\ t.oformat # NotSet /\ t.range # NotSet
    <2>1. NotSet \notin Seq(Dims) /\ NotSet \notin Ranges /\ NotSet \notin DescFormats \cup {"ND", Reserved}
      BY DescriptionsAssumption
    <2>2. ASSUME NEW x \in UserType PROVE x.odims # NotSet /\ x.oformat # NotSet /\ x.range # NotSet
      <3>1. x.odims \in ShapesOf /\ x.oformat \in AllFormats /\ x.range \in Ranges
        BY DEF UserType
      <3>2. x.odims # NotSet
        BY <2>1, <3>1 DEF ShapesOf
      <3>3. x.oformat # NotSet
        BY <2>1, <3>1 DEF AllFormats
      <3>4. x.range # NotSet
        BY <2>1, <3>1, Zenon
      <3> QED
        BY <3>2, <3>3, <3>4
    <2> QED
      BY <1>1, <2>2
  <1>4. ~known => t.range = << >> /\ t.size = 0 /\ t.cnt = 0 /\ 0 % m = 0
    <2>1. ~known => t.range = << >> /\ t.size = 0 /\ t.cnt = 0
      <3>1. ~known => t = [dims |-> << >>, odims |-> << >>, format |-> Reserved, oformat |-> Reserved,
                           dtype |-> Undefined, range |-> << >>, size |-> 0, cnt |-> 0, name |-> ""]
        BY ToldIsTyped
      <3>2. ASSUME NEW none, NEW r, r = [dims |-> << >>, odims |-> << >>, format |-> Reserved, oformat |-> Reserved,
                                         dtype |-> Undefined, range |-> << >>, size |-> 0, cnt |-> 0, name |-> none]
            PROVE  r.range = << >> /\ r.size = 0 /\ r.cnt = 0
        BY <3>2
      <3> QED
        BY <3>1, <3>2
    <2>2. m \in Nat /\ m > 0
      BY DescriptionsAssumption
    <2>3. 0 % m = 0
      <3> HIDE DEF m
      <3> QED
        BY <2>2, Z3
    <2> QED
      BY <2>1, <2>3
  <1>5. /\ d.cnt = t.cnt % m /\ d.size = t.size
        /\ (IF d.range = NotSet THEN << >> ELSE d.range) = t.range
        /\ (IF d.odims = NotSet THEN << >> ELSE d.odims) = t.odims
        /\ (IF d.oformat = NotSet THEN Reserved ELSE d.oformat) = t.oformat
    <2> HIDE DEF t, d, known, m
    <2> QED
      BY <1>2, <1>3, <1>4
  <1>6. GeTensorDesc2TensorDesc(d)
          = [dims |-> ShapeImpl(t.dims), odims |-> ShapeImpl(t.odims), format |-> t.format, oformat |-> t.oformat,
             dtype |-> t.dtype, range |-> t.range, size |-> t.size, cnt |-> t.cnt % m, name |-> t.name]
    <2> HIDE DEF t, d, known, m
    <2>1. GeTensorDesc2TensorDesc(d)
          = [dims |-> ShapeImpl(d.dims), odims |-> ShapeImpl(IF d.odims = NotSet THEN << >> ELSE d.odims),
             format |-> d.format, oformat |-> IF d.oformat = NotSet THEN Reserved ELSE d.oformat,
             dtype |-> d.dtype, range |-> IF d.range = NotSet THEN << >> ELSE d.range,
             size |-> d.size, cnt |-> d.cnt, name |-> d.name]
      BY <1>2, ToUserFields
    <2> QED
      BY <1>2, <1>5, <2>1
  <1>7. t = [dims |-> t.dims, odims |-> t.odims, format |-> t.format, oformat |-> t.oformat, dtype |-> t.dtype,
             range |-> t.range, size |-> t.size, cnt |-> t.cnt, name |-> t.name]
    <2> HIDE DEF t
    <2> QED
      BY <1>1 DEF UserType
  <1>8. [t EXCEPT !.dims = ShapeImpl(@), !.odims = ShapeImpl(@), !.cnt = @ % m]
          = [dims |-> ShapeImpl(t.dims), odims |-> ShapeImpl(t.odims), format |-> t.format, oformat |-> t.oformat,
             dtype |-> t.dtype, range |-> t.range, size |-> t.size, cnt |-> t.cnt % m, name |-> t.name]
    <2> DEFINE r == [dims |-> t.dims, odims |-> t.odims, format |-> t.format, oformat |-> t.oformat,
                     dtype |-> t.dtype, range |-> t.range, size |-> t.size, cnt |-> t.cnt, name |-> t.name]
    <2> HIDE DEF t, m
    <2> DEFINE one == [dims |-> ShapeImpl(t.dims), odims |-> t.odims, format |-> t.format, oformat |-> t.oformat,
                     dtype |-> t.dtype, range |-> t.range, size |-> t.size, cnt |-> t.cnt, name |-> t.name]
               two == [dims |-> ShapeImpl(t.dims), odims |-> ShapeImpl(t.odims), format |-> t.format, oformat |-> t.oformat,
                     dtype |-> t.dtype, range |-> t.range, size |-> t.size, cnt |-> t.cnt, name |-> t.name]
               all == [dims |-> ShapeImpl(t.dims), odims |-> ShapeImpl(t.odims), format |-> t.format, oformat |-> t.oformat,
                     dtype |-> t.dtype, range |-> t.range, size |-> t.size, cnt |-> t.cnt % m, name |-> t.name]
    <2>1. [r EXCEPT !.dims = ShapeImpl(@), !.odims = ShapeImpl(@), !.cnt = @ % m] = all
      <3>1. [r EXCEPT !.dims = ShapeImpl(@), !.odims = ShapeImpl(@), !.cnt = @ % m]
              = [[[r EXCEPT !.dims = ShapeImpl(@)] EXCEPT !.odims = ShapeImpl(@)] EXCEPT !.cnt = @ % m]
        OBVIOUS
      <3>2. [r EXCEPT !.dims = ShapeImpl(@)] = one
        OBVIOUS
      <3>3. [one EXCEPT !.odims = ShapeImpl(@)] = two
        OBVIOUS
      <3>4. [two EXCEPT !.cnt = @ % m] = all
        OBVIOUS
      <3> HIDE DEF r, one, two, all
      <3> QED
        BY <3>1, <3>2, <3>3, <3>4
    <2>2. t = r
      BY <1>7
    <2> HIDE DEF r
    <2> QED
      BY <2>1, <2>2
  <1> QED
    BY <1>6, <1>8

(* There are always two shapes that no description uses.                      *)
Below == OpToRel(<, Nat)

LEMMA LeastNumber ==
  ASSUME NEW S, S \subseteq Nat, S # {}
  PROVE  \E x \in S : \A y \in S : x <= y
  <1>1. IsWellFoundedOn(Below, Nat)
    BY NatLessThanWellFounded DEF Below
  <1>2. PICK x \in S : \A y \in S : ~(<<y, x>> \in Below)
    BY <1>1, WFMin
  <1>3. ASSUME NEW y \in S PROVE x <= y
    <2>1. x \in Nat /\ y \in Nat /\ ~(<<y, x>> \in Below)
      BY <1>2
    <2>2. ~(y < x)
      BY <2>1 DEF Below, OpToRel
    <2> QED
      BY <2>1, <2>2
  <1> QED
    BY <1>3

LEMMA LeastIsIn ==
  ASSUME NEW S, S \subseteq Nat, S # {}
  PROVE  Least(S) \in S
  BY LeastNumber DEF Least

LEMMA ImageIsSmall ==
  ASSUME NEW W, IsFiniteSet(W), NEW f, DOMAIN f = W, f = [w \in W |-> f[w]]
  PROVE  /\ IsFiniteSet({f[w] : w \in W}) /\ Cardinality({f[w] : w \in W}) <= Cardinality(W)
         /\ Cardinality({f[w] : w \in W}) \in Nat /\ Cardinality(W) \in Nat
  <1> DEFINE A == {f[w] : w \in W}
  <1>1. f \in Surjection(W, A)
    BY DEF Surjection
  <1>2. IsFiniteSet(A) /\ Cardinality(A) <= Cardinality(W)
    <2> HIDE DEF A
    <2> QED
      BY <1>1, FS_Surjection
  <1> QED
    BY <1>2, FS_CardinalityType

LEMMA TwoAreFree == One \in ShapeIds /\ Other \in ShapeIds
  <1> DEFINE W == {w \in Vars : desc[w] # NoImpl}
             f == [w \in W |-> desc[w].shape]
             g == [w \in W |-> desc[w].origin]
             A == {f[w] : w \in W}
             B == {g[w] : w \in W}
             N == Cardinality(Vars)
  <1>1. IsFiniteSet(W) /\ Cardinality(W) <= N /\ Cardinality(W) \in Nat /\ N \in Nat
    <2>1. IsFiniteSet(Vars) /\ W \in SUBSET Vars
      BY DescriptionsAssumption
    <2> HIDE DEF W
    <2> QED
      BY <2>1, FS_Subset, FS_CardinalityType
  <1>2. IsFiniteSet(A) /\ Cardinality(A) <= N /\ Cardinality(A) \in Nat
    <2>1. DOMAIN f = W /\ f = [w \in W |-> f[w]]
      OBVIOUS
    <2> HIDE DEF f, W
    <2>2. IsFiniteSet(A) /\ Cardinality(A) <= Cardinality(W) /\ Cardinality(A) \in Nat
      BY <1>1, <2>1, ImageIsSmall
    <2> HIDE DEF A, N
    <2> QED
      BY <1>1, <2>2
  <1>3. IsFiniteSet(B) /\ Cardinality(B) <= N /\ Cardinality(B) \in Nat
    <2>1. DOMAIN g = W /\ g = [w \in W |-> g[w]]
      OBVIOUS
    <2> HIDE DEF g, W
    <2>2. IsFiniteSet(B) /\ Cardinality(B) <= Cardinality(W) /\ Cardinality(B) \in Nat
      BY <1>1, <2>1, ImageIsSmall
    <2> HIDE DEF B, N
    <2> QED
      BY <1>1, <2>2
  <1>4. ShapesUsed = A \cup B
    <2>1. ShapesUsed = UNION {{desc[v].shape, desc[v].origin} : v \in W}
      BY DEF ShapesUsed
    <2>2. A = {desc[v].shape : v \in W} /\ B = {desc[v].origin : v \in W}
      OBVIOUS
    <2> HIDE DEF A, B, W
    <2> QED
      BY <2>1, <2>2
  <1> HIDE DEF A, B
  <1>5. IsFiniteSet(ShapesUsed) /\ Cardinality(ShapesUsed) <= 2 * N /\ Cardinality(ShapesUsed) \in Nat
    <2>1. /\ IsFiniteSet(A \cup B) /\ Cardinality(A \cup B) \in Nat
          /\ Cardinality(A \cup B) = Cardinality(A) + Cardinality(B) - Cardinality(A \cap B)
      BY <1>2, <1>3, FS_Union, FS_CardinalityType
    <2>2. IsFiniteSet(A \cap B)
      BY <1>2, FS_Subset
    <2>3. Cardinality(A \cap B) \in Nat
      BY <2>2, FS_CardinalityType
    <2> QED
      BY <1>1, <1>2, <1>3, <1>4, <2>1, <2>3
  <1>6. IsFiniteSet(ShapeIds) /\ Cardinality(ShapeIds) = 2 * N + 2 /\ ShapeIds \subseteq Nat
    <2>1. ShapeIds = 1 .. 2 * N + 2 /\ 2 * N + 2 \in Nat
      BY <1>1 DEF ShapeIds
    <2> HIDE DEF N
    <2>2. Cardinality(1 .. 2 * N + 2) = (2 * N + 2) - 1 + 1 /\ IsFiniteSet(1 .. 2 * N + 2)
      BY <2>1, FS_Interval
    <2> QED
      BY <1>1, <2>1, <2>2
  <1>7. IsFiniteSet(FreeShapes) /\ Cardinality(FreeShapes) >= 2 /\ Cardinality(FreeShapes) \in Nat
    <2>1. /\ IsFiniteSet(FreeShapes)
          /\ Cardinality(FreeShapes) = Cardinality(ShapeIds) - Cardinality(ShapeIds \cap ShapesUsed)
      BY <1>6, FS_Difference DEF FreeShapes
    <2>2. /\ Cardinality(ShapeIds \cap ShapesUsed) <= Cardinality(ShapesUsed)
          /\ IsFiniteSet(ShapeIds \cap ShapesUsed)
      <3>1. ShapeIds \cap ShapesUsed \in SUBSET ShapesUsed
        OBVIOUS
      <3> QED
        BY <1>5, <3>1, FS_Subset
    <2>3. Cardinality(ShapeIds \cap ShapesUsed) \in Nat /\ Cardinality(FreeShapes) \in Nat
      BY <2>1, <2>2, FS_CardinalityType
    <2> HIDE DEF N
    <2> QED
      BY <1>1, <1>5, <1>6, <2>1, <2>2, <2>3
  <1>8. FreeShapes \subseteq ShapeIds /\ FreeShapes \subseteq Nat
    BY <1>6 DEF FreeShapes
  <1>9. FreeShapes # {}
    BY <1>7, FS_EmptySet
  <1>10. One \in FreeShapes
    BY <1>8, <1>9, LeastIsIn DEF One
  <1>11. FreeShapes \ {One} # {}
    <2>1. IsFiniteSet(FreeShapes \ {One}) /\ Cardinality(FreeShapes \ {One}) = Cardinality(FreeShapes) - 1
      BY <1>7, <1>10, FS_RemoveElement
    <2>2. Cardinality(FreeShapes \ {One}) # 0
      BY <1>7, <2>1
    <2> QED
      BY <2>2, FS_EmptySet
  <1>12. Other \in FreeShapes \ {One}
    <2>1. FreeShapes \ {One} \subseteq Nat
      BY <1>8
    <2> QED
      BY <1>11, <2>1, LeastIsIn DEF Other
  <1> QED
    BY <1>8, <1>10, <1>12

(* The fields of a description, set one by one.                               *)
LEMMA FieldsStayTyped ==
  /\ \A r \in UserType, x \in ShapesOf : [r EXCEPT !.odims = x] \in UserType
  /\ \A r \in ImplType, x \in AllFormats : [r EXCEPT !.oformat = x] \in ImplType
  /\ \A r \in ImplType, x \in Int : [r EXCEPT !.size = x] \in ImplType
  /\ \A r \in ImplType, x \in Int : [r EXCEPT !.cnt = x] \in ImplType
  /\ \A r \in ImplType, x \in {"", "x"} : [r EXCEPT !.name = x] \in ImplType
  /\ \A r \in ImplType, x \in Ranges : [r EXCEPT !.range = x] \in ImplType
  /\ \A r \in ImplType, x \in ShapeIds : [r EXCEPT !.shape = x] \in ImplType /\ [r EXCEPT !.origin = x] \in ImplType
  /\ \A r \in GeType, x \in ShapesOf : [r EXCEPT !.dims = x] \in GeType
  /\ \A r \in GeType, x \in AllTypes : [r EXCEPT !.dtype = x] \in GeType
  /\ \A r \in GeType, x \in AllTypes \cup {Reserved} : [r EXCEPT !.odtype = x] \in GeType
  BY DEF UserType, ImplType, GeType

LEMMA HoldingStep ==
  ASSUME DescInv, NEW v \in Vars, NEW t \in UserType, Holding(v, t)
  PROVE  /\ shapes' \in [ShapeIds -> ShapesOf]
         /\ desc' \in [Vars -> ImplType \cup {NoImpl}]
  <1>1. t.dims \in ShapesOf /\ t.odims \in ShapesOf
    BY DEF UserType
  <1>2. shapes' \in [ShapeIds -> ShapesOf]
    BY <1>1 DEF Holding, DescInv
  <1> DEFINE r == [shape |-> One, origin |-> Other, format |-> t.format, oformat |-> t.oformat,
                   dtype |-> t.dtype, range |-> t.range, size |-> t.size, cnt |-> t.cnt, name |-> t.name]
  <1>3. r \in ImplType
    <2>1. One \in ShapeIds /\ Other \in ShapeIds
      BY TwoAreFree
    <2>2. /\ t.format \in AllFormats /\ t.oformat \in AllFormats /\ t.dtype \in AllTypes
          /\ t.range \in Ranges /\ t.size \in Int /\ t.cnt \in Int /\ t.name \in {"", "x"}
      BY DEF UserType
    <2> QED
      BY <2>1, <2>2 DEF ImplType
  <1>4. desc' = [desc EXCEPT ![v] = r]
    BY DEF Holding
  <1> HIDE DEF r
  <1> QED
    BY <1>2, <1>3, <1>4 DEF DescInv

LEMMA NewTensorDescStep ==
  ASSUME DescInv, NEW v \in Vars, NEW dims \in ShapesOf, NEW f \in DescFormats, NEW t \in DescTypes,
         NewTensorDesc(v, dims, f, t)
  PROVE  DescInv'
  <1> DEFINE none == ""
             nd == "ND"
             d == ShapeImpl(dims)
             n == GetDimNum(d)
             r == [dims |-> d, odims |-> << >>, format |-> f, oformat |-> nd, dtype |-> t,
                   range |-> << >>, size |-> 0, cnt |-> n, name |-> none]
  <1>1. Holding(v, r) /\ ge' = ge
    BY DEF NewTensorDesc
  <1>2. d \in ShapesOf /\ << >> \in ShapesOf
    BY ShapeFacts
  <1>3. n \in Int
    <2>1. \A x \in ShapesOf : GetDimNum(x) \in Int
      BY DEF GetDimNum, ShapesOf
    <2> QED
      BY <1>2, <2>1
  <1>4. /\ f \in AllFormats /\ nd \in AllFormats /\ t \in AllTypes /\ << >> \in Ranges
        /\ 0 \in Int /\ none \in {"", "x"}
    BY DEF AllFormats, AllTypes, Ranges
  <1> HIDE DEF none, nd, d, n
  <1>5. r \in UserType
    BY <1>2, <1>3, <1>4 DEF UserType
  <1> HIDE DEF r
  <1> QED
    BY <1>1, <1>5, HoldingStep DEF DescInv

LEMMA CopyTensorDescStep ==
  ASSUME DescInv, NEW v \in Vars, NEW w \in Vars, CopyTensorDesc(v, w)
  PROVE  DescInv'
  <1>1. CASE desc[w] = NoImpl
    <2> DEFINE u == GeTensorDesc2TensorDesc(DefaultGe)
    <2>1. u \in UserType
      BY DefaultIsTyped, ToUserFields
    <2>2. [u EXCEPT !.odims = << >>] \in UserType
      <3> HIDE DEF u
      <3> QED
        BY <2>1, ShapeFacts, FieldsStayTyped
    <2>3. Holding(v, [u EXCEPT !.odims = << >>]) /\ ge' = ge
      BY <1>1 DEF CopyTensorDesc
    <2> HIDE DEF u
    <2> QED
      BY <2>2, <2>3, HoldingStep DEF DescInv
  <1>2. CASE desc[w] # NoImpl
    <2>1. desc' = [desc EXCEPT ![v] = desc[w]] /\ shapes' = shapes /\ ge' = ge
      BY <1>2 DEF CopyTensorDesc
    <2> QED
      BY <2>1 DEF DescInv
  <1> QED
    BY <1>1, <1>2

LEMMA MoveTensorDescStep ==
  ASSUME DescInv, NEW v \in Vars, NEW w \in Vars, MoveTensorDesc(v, w)
  PROVE  DescInv'
  <1>1. desc' = [desc EXCEPT ![v] = desc[w], ![w] = NoImpl] /\ shapes' = shapes /\ ge' = ge
    BY DEF MoveTensorDesc
  <1> QED
    BY <1>1 DEF DescInv

LEMMA SetDimStep ==
  ASSUME DescInv, NEW v \in Vars, NEW i, NEW n \in DimValues, SetDim(v, i, n)
  PROVE  DescInv'
  <1>1. desc[v] \in ImplType /\ desc[v].shape \in ShapeIds
    BY DEF SetDim, DescInv, ImplType
  <1> DEFINE s == desc[v].shape
             e == [shapes[s] EXCEPT ![i] = n]
  <1>2. i \in DOMAIN shapes[s]
    BY DEF SetDim, GetDims
  <1>3. e \in ShapesOf
    <2>1. shapes[s] \in ShapesOf
      BY <1>1 DEF DescInv
    <2> HIDE DEF s
    <2> QED
      BY <1>2, <2>1, ShapeFacts
  <1>4. shapes' = [shapes EXCEPT ![s] = e] /\ desc' = desc /\ ge' = ge
    BY DEF SetDim
  <1> HIDE DEF e, s
  <1> QED
    BY <1>3, <1>4 DEF DescInv

(* One field of a description that has a value.                               *)
LEMMA DescPut ==
  ASSUME NEW D \in [Vars -> ImplType \cup {NoImpl}], NEW v \in Vars, NEW r \in ImplType
  PROVE  [D EXCEPT ![v] = r] \in [Vars -> ImplType \cup {NoImpl}] /\ [D EXCEPT ![v] = r][v] = r
  OBVIOUS

LEMMA SetOriginShapeStep ==
  ASSUME DescInv, NEW v \in Vars, NEW w \in Vars, SetOriginShape(v, w)
  PROVE  DescInv'
  <1>1. desc[v] \in ImplType /\ desc[w] \in ImplType /\ desc[w].shape \in ShapeIds
    BY DEF SetOriginShape, DescInv, ImplType
  <1>2. [desc[v] EXCEPT !.origin = desc[w].shape] \in ImplType
    BY <1>1, FieldsStayTyped
  <1>3. desc' = [desc EXCEPT ![v] = [desc[v] EXCEPT !.origin = desc[w].shape]] /\ shapes' = shapes /\ ge' = ge
    BY DEF SetOriginShape
  <1> QED
    BY <1>2, <1>3, DescPut DEF DescInv

LEMMA SetUnknownDimNumShapeStep ==
  ASSUME DescInv, NEW v \in Vars, SetUnknownDimNumShape(v)
  PROVE  DescInv'
  <1>1. desc[v] \in ImplType /\ One \in ShapeIds
    BY TwoAreFree DEF SetUnknownDimNumShape, DescInv
  <1>2. [desc[v] EXCEPT !.shape = One] \in ImplType
    BY <1>1, FieldsStayTyped
  <1>3. /\ desc' = [desc EXCEPT ![v] = [desc[v] EXCEPT !.shape = One]] /\ ge' = ge
        /\ shapes' = [shapes EXCEPT ![One] = <<UnknownDimNum>>]
    BY DEF SetUnknownDimNumShape
  <1>4. shapes' \in [ShapeIds -> ShapesOf]
    BY <1>3, ShapeFacts DEF DescInv
  <1> QED
    BY <1>2, <1>3, <1>4, DescPut DEF DescInv

LEMMA SetShapeRangeStep ==
  ASSUME DescInv, NEW v \in Vars, NEW n \in DimValues, SetShapeRange(v, <<<<1, n>>>>)
  PROVE  DescInv'
  <1> DEFINE g == <<<<1, n>>>>
  <1>1. desc[v] \in ImplType /\ g \in Ranges
    BY DEF SetShapeRange, DescInv, Ranges
  <1>3. desc' = [desc EXCEPT ![v] = [desc[v] EXCEPT !.range = g]] /\ shapes' = shapes /\ ge' = ge
    BY DEF SetShapeRange
  <1> HIDE DEF g
  <1>2. [desc[v] EXCEPT !.range = g] \in ImplType
    BY <1>1, FieldsStayTyped
  <1> QED
    BY <1>2, <1>3, DescPut DEF DescInv

LEMMA SetFieldsStep ==
  ASSUME DescInv, NEW v \in Vars, NEW f \in DescFormats, NEW s \in DimValues, SetFields(v, f, s)
  PROVE  DescInv'
  <1>1. /\ desc[v] \in ImplType /\ desc \in [Vars -> ImplType \cup {NoImpl}]
        /\ f \in AllFormats /\ s \in Int /\ "x" \in {"", "x"}
    BY DescriptionsAssumption DEF SetFields, DescInv, AllFormats
  <1> DEFINE r1 == [desc[v] EXCEPT !.oformat = f]
             r2 == [r1 EXCEPT !.size = s]
             r3 == [r2 EXCEPT !.cnt = s]
             r4 == [r3 EXCEPT !.name = "x"]
             d1 == [desc EXCEPT ![v] = r1]
             d2 == [d1 EXCEPT ![v] = r2]
             d3 == [d2 EXCEPT ![v] = r3]
             d4 == [d3 EXCEPT ![v] = r4]
  <1>2. r1 \in ImplType
    BY <1>1, FieldsStayTyped
  <1>3. r2 \in ImplType
    <2> HIDE DEF r1
    <2> QED
      BY <1>1, <1>2, FieldsStayTyped
  <1>4. r3 \in ImplType
    <2> HIDE DEF r2
    <2> QED
      BY <1>1, <1>3, FieldsStayTyped
  <1>5. r4 \in ImplType
    <2> HIDE DEF r3
    <2> QED
      BY <1>1, <1>4, FieldsStayTyped
  <1>6. d1 = [desc EXCEPT ![v].oformat = f] /\ d1[v] = r1
    BY <1>1
  <1>7. d2 = [d1 EXCEPT ![v].size = s] /\ d2[v] = r2 /\ d1 \in [Vars -> ImplType \cup {NoImpl}]
    <2> HIDE DEF r1
    <2> QED
      BY <1>1, <1>2
  <1>8. d3 = [d2 EXCEPT ![v].cnt = s] /\ d3[v] = r3 /\ d2 \in [Vars -> ImplType \cup {NoImpl}]
    <2> HIDE DEF r2, d1
    <2> QED
      BY <1>3, <1>7
  <1>9. d4 = [d3 EXCEPT ![v].name = "x"] /\ d3 \in [Vars -> ImplType \cup {NoImpl}]
    <2> HIDE DEF r3, d2
    <2> QED
      BY <1>4, <1>8
  <1>10. d4 \in [Vars -> ImplType \cup {NoImpl}]
    <2> HIDE DEF r4, d3
    <2> QED
      BY <1>5, <1>9
  <1>11. desc' = [[[[desc EXCEPT ![v].oformat = f] EXCEPT ![v].size = s] EXCEPT ![v].cnt = s] EXCEPT ![v].name = "x"]
    BY DEF SetFields
  <1>12. desc' = d4
    <2> HIDE DEF d1, d2, d3, d4
    <2> QED
      BY <1>6, <1>7, <1>8, <1>9, <1>11
  <1>13. shapes' = shapes /\ ge' = ge
    BY DEF SetFields
  <1> HIDE DEF d4
  <1> QED
    BY <1>10, <1>12, <1>13 DEF DescInv

LEMMA ConversionSteps ==
  ASSUME DescInv, NEW v \in Vars, ToGe(v) \/ ToUser(v)
  PROVE  DescInv'
  <1>1. CASE ToGe(v)
    <2> DEFINE d == TensorDesc2GeTensorDesc(Told(v), desc[v] # NoImpl)
    <2>1. d \in GeType
      BY ToldIsTyped, ToGeFields
    <2>2. ge' = [ge EXCEPT ![v] = d] /\ shapes' = shapes /\ desc' = desc
      BY <1>1 DEF ToGe
    <2> HIDE DEF d
    <2> QED
      BY <2>1, <2>2 DEF DescInv
  <1>2. CASE ToUser(v)
    <2> DEFINE u == GeTensorDesc2TensorDesc(ge[v])
    <2>1. ge[v] \in GeType
      BY DEF DescInv
    <2>2. u \in UserType
      BY <2>1, ToUserFields
    <2>3. Holding(v, u) /\ ge' = ge
      BY <1>2 DEF ToUser
    <2> HIDE DEF u
    <2> QED
      BY <2>2, <2>3, HoldingStep DEF DescInv
  <1> QED
    BY <1>1, <1>2

LEMMA ChangeGeStep ==
  ASSUME DescInv, NEW v \in Vars, NEW i, NEW n \in DimValues, NEW t \in DescTypes, ChangeGe(v, i, n, t)
  PROVE  DescInv'
  <1> DEFINE a == GeSetDim(ge[v], i, n)
             b == SetDataType(a, t)
             c == SetOriginDataType(b, t)
  <1>1. ge[v] \in GeType /\ t \in AllTypes
    BY DEF DescInv, AllTypes
  <1>2. a \in GeType
    <2>1. ASSUME i \in DOMAIN ge[v].dims PROVE [ge[v] EXCEPT !.dims = [ge[v].dims EXCEPT ![i] = n]] \in GeType
      <3>1. ge[v].dims \in ShapesOf
        BY <1>1 DEF GeType
      <3>2. [ge[v].dims EXCEPT ![i] = n] \in ShapesOf
        BY <2>1, <3>1, ShapeFacts
      <3> QED
        BY <1>1, <3>2, FieldsStayTyped
    <2> QED
      BY <1>1, <2>1 DEF GeSetDim
  <1>3. b \in GeType
    <2> HIDE DEF a
    <2> QED
      BY <1>1, <1>2, FieldsStayTyped DEF SetDataType
  <1>4. c \in GeType
    <2> HIDE DEF b
    <2>1. (IF t = Undefined THEN Reserved ELSE t) \in AllTypes \cup {Reserved}
      BY <1>1
    <2> QED
      BY <1>3, <2>1, FieldsStayTyped DEF SetOriginDataType
  <1>5. ge' = [ge EXCEPT ![v] = c] /\ shapes' = shapes /\ desc' = desc
    BY DEF ChangeGe
  <1> HIDE DEF c
  <1> QED
    BY <1>4, <1>5 DEF DescInv

LEMMA SizesAgree == DescInv => SizesAreExact
  <1> SUFFICES ASSUME DescInv, NEW s \in ShapeIds
               PROVE  LET d == shapes[s]
                          exact == d[1] * d[2]
                          unknown == Range(d) \cap {UnknownDim, UnknownDimNum} # {}
                          size == UserSize(d)
                      IN  /\ Len(d) = 2 =>
                               /\ unknown => size \in {UnknownDim, 0} /\ GeSize(d) = UnknownDim
                               /\ ~unknown /\ exact \in Int64Min .. Int64Max => size = exact /\ GeSize(d) = exact
                               /\ ~unknown /\ exact \notin Int64Min .. Int64Max => size = 0
                          /\ size >= 0 => \A length \in {1, 2}, bytes \in 0 .. 2 :
                               IsValid(size, bytes, length) <=> (bytes = size * length \/ (size = 0 /\ bytes = length))
    BY DEF SizesAreExact
  <1> DEFINE d == shapes[s]
  <1>1. d \in ShapesOf /\ d \in Seq(Dims)
    BY DEF DescInv, ShapesOf
  <1> HIDE DEF d
  <1>2. Len(d) = 2 => LET exact == d[1] * d[2]
                          unknown == Range(d) \cap {UnknownDim, UnknownDimNum} # {}
                      IN  /\ unknown => UserSize(d) = UnknownDim /\ GeSize(d) = UnknownDim
                          /\ ~unknown /\ exact \in Int64Min .. Int64Max => UserSize(d) = exact /\ GeSize(d) = exact
                          /\ ~unknown /\ exact \notin Int64Min .. Int64Max => UserSize(d) = 0
    BY <1>1, SizesOfTwo
  <1>3. UserSize(d) >= 0 => \A length \in {1, 2}, bytes \in 0 .. 2 :
          IsValid(UserSize(d), bytes, length)
             <=> (bytes = UserSize(d) * length \/ (UserSize(d) = 0 /\ bytes = length))
    BY <1>1, SizesOfShapes, ValidIsExact
  <1> QED
    BY <1>2, <1>3 DEF d

(* A description that is converted to the internal form and back tells the    *)
(* same (TensorAdapter), and Shape::GetShapeSize, GeShape::GetShapeSize and   *)
(* Tensor::IsValid agree on the number of elements or refuse it, for every    *)
(* width of the integers and every sharing of shapes between descriptions.    *)
THEOREM DescriptionsAgreeAlways == DescriptionsSpec => []DescriptionsAgree
  <1>1. DescriptionsInit => DescInv
    <2> SUFFICES ASSUME DescriptionsInit PROVE DescInv
      OBVIOUS
    <2>1. << >> \in ShapesOf /\ DefaultGe \in GeType
      BY ShapeFacts, DefaultIsTyped
    <2> QED
      BY <2>1 DEF DescriptionsInit, DescInv
  <1>2. DescInv /\ [DescriptionsNext]_descVars => DescInv'
    <2> SUFFICES ASSUME DescInv, [DescriptionsNext]_descVars PROVE DescInv'
      OBVIOUS
    <2>1. ASSUME NEW v \in Vars, NEW d \in DimValues, NEW e \in DimValues, NEW f \in DescFormats, NEW t \in DescTypes,
                 NewTensorDesc(v, <<d, e>>, f, t)
          PROVE  DescInv'
      <3>1. <<d, e>> \in ShapesOf
        BY ShapeFacts
      <3> QED
        BY <2>1, <3>1, NewTensorDescStep
    <2>2. ASSUME NEW v \in Vars, NEW w \in Vars, CopyTensorDesc(v, w) \/ MoveTensorDesc(v, w) \/ SetOriginShape(v, w)
          PROVE  DescInv'
      BY <2>2, CopyTensorDescStep, MoveTensorDescStep, SetOriginShapeStep
    <2>3. ASSUME NEW v \in Vars, NEW n \in DimValues, SetDim(v, 1, n) \/ SetShapeRange(v, <<<<1, n>>>>)
          PROVE  DescInv'
      BY <2>3, SetDimStep, SetShapeRangeStep
    <2>4. ASSUME NEW v \in Vars, NEW f \in DescFormats, NEW s \in DimValues, SetFields(v, f, s)
          PROVE  DescInv'
      BY <2>4, SetFieldsStep
    <2>5. ASSUME NEW v \in Vars, SetUnknownDimNumShape(v) \/ ToGe(v) \/ ToUser(v)
          PROVE  DescInv'
      BY <2>5, SetUnknownDimNumShapeStep, ConversionSteps
    <2>6. ASSUME NEW v \in Vars, NEW i \in 1 .. 2, NEW n \in DimValues, NEW t \in DescTypes, ChangeGe(v, i, n, t)
          PROVE  DescInv'
      BY <2>6, ChangeGeStep
    <2>7. CASE UNCHANGED descVars
      BY <2>7 DEF descVars, DescInv
    <2> QED
      BY <2>1, <2>2, <2>3, <2>4, <2>5, <2>6, <2>7 DEF DescriptionsNext
  <1>3. DescInv => DescriptionsAgree
    BY ConversionsAgree, SizesAgree DEF DescriptionsAgree
  <1> QED
    BY <1>1, <1>2, <1>3, PTL DEF DescriptionsSpec

-----------------------------------------------------------------------------
LEMMA SmallestIsIn ==
  ASSUME NEW S, S \subseteq Nat, S # {}
  PROVE  Smallest(S) \in S
  BY LeastNumber DEF Smallest

(* Tensors.  What an object or an attribute that is there refers to.          *)
CellsAt(m, x) == IF x \in TensorAttrs THEN {m.defs[x].cell} ELSE {m.heap[x].own, m.heap[x].td}
BlocksAt(m, x) == (IF x \in TensorAttrs THEN {m.defs[x].block} ELSE {m.heap[x].block}) \ {Nil}
Present(m, at) == Live(at) \cup DOMAIN m.defs

HeapType(t, there) == /\ t = [def |-> t.def, own |-> t.own, td |-> t.td, block |-> t.block, len |-> t.len]
                      /\ t.def \in there \cup {Nil, Gone} /\ t.own \in Cells /\ t.td \in Cells
                      /\ t.block \in Blocks \cup {Nil}
DefType(t) == t = [cell |-> t.cell, block |-> t.block, len |-> t.len] /\ t.cell \in Cells /\ t.block \in Blocks
MemType(m) ==
    /\ m = [heap |-> m.heap, cells |-> m.cells, blocks |-> m.blocks, defs |-> m.defs]
    /\ DOMAIN m.heap = Objects /\ DOMAIN m.cells = Cells /\ DOMAIN m.blocks = Blocks
    /\ DOMAIN m.defs \subseteq TensorAttrs
    /\ \A o \in Objects : HeapType(m.heap[o], DOMAIN m.defs)
    /\ \A p \in DOMAIN m.defs : DefType(m.defs[p])

(* What two families refer to is not the same, and an object that stands for  *)
(* an attribute is of its family.                                             *)
Parted(m, at, k) ==
    \A x, y \in Present(m, at) : k[x] # k[y] =>
        CellsAt(m, x) \cap CellsAt(m, y) = {} /\ BlocksAt(m, x) \cap BlocksAt(m, y) = {}
Standing(m, at, k) == \A o \in Live(at) : m.heap[o].def \in TensorAttrs => k[o] = k[m.heap[o].def]
TensorInv == /\ MemType(mem) /\ object \in [Holders -> Objects \cup {0}]
             /\ DOMAIN kin = Objects \cup TensorAttrs
             /\ Parted(mem, object, kin) /\ Standing(mem, object, kin)

OthersUnseen ==
    \A h \in Holders : (object[h] # 0 /\ object'[h] = object[h] /\ Sound(mem, object[h])
                             /\ kin[object[h]] # kin'[touched'] /\ kin[object[h]] = kin'[object[h]])
            => Sound(mem', object[h]) /\ Seen(mem', object[h]) = Seen(mem, object[h])

-----------------------------------------------------------------------------
(* There is always memory that nothing refers to.                             *)
LEMMA FreeNumber ==
  ASSUME NEW N \in Nat, NEW U, IsFiniteSet(U), Cardinality(U) < N
  PROVE  Smallest((1 .. N) \ U) \in (1 .. N) \ U
  <1>1. IsFiniteSet(1 .. N) /\ Cardinality(1 .. N) = N
    BY FS_Interval
  <1>2. (1 .. N) \ U # {}
    <2> SUFFICES ASSUME 1 .. N \subseteq U PROVE FALSE
      OBVIOUS
    <2>1. 1 .. N \in SUBSET U
      OBVIOUS
    <2>2. Cardinality(1 .. N) <= Cardinality(U) /\ Cardinality(U) \in Nat
      BY <2>1, FS_Subset, FS_CardinalityType
    <2> QED
      BY <1>1, <2>2
  <1>3. (1 .. N) \ U \subseteq Nat
    OBVIOUS
  <1> QED
    BY <1>2, <1>3, SmallestIsIn

LEMMA UnionIsSmall ==
  ASSUME NEW A, NEW B, IsFiniteSet(A), IsFiniteSet(B), NEW a \in Nat, NEW b \in Nat,
         Cardinality(A) <= a, Cardinality(B) <= b
  PROVE  IsFiniteSet(A \cup B) /\ Cardinality(A \cup B) <= a + b
  <1>1. IsFiniteSet(A \cup B) /\ Cardinality(A \cup B) = Cardinality(A) + Cardinality(B) - Cardinality(A \cap B)
    BY FS_Union
  <1>2. IsFiniteSet(A \cap B)
    BY FS_Subset
  <1>3. Cardinality(A \cap B) \in Nat /\ Cardinality(A) \in Nat /\ Cardinality(B) \in Nat
    BY <1>2, FS_CardinalityType
  <1> QED
    BY <1>1, <1>3

LEMMA Counted == /\ IsFiniteSet(Holders) /\ Cardinality(Holders) \in Nat
                 /\ IsFiniteSet(TensorAttrs) /\ Cardinality(TensorAttrs) \in Nat
                 /\ Cardinality(Objects) = Cardinality(Holders)
  <1>1. IsFiniteSet(Holders) /\ Cardinality(Holders) \in Nat
        /\ IsFiniteSet(TensorAttrs) /\ Cardinality(TensorAttrs) \in Nat
    BY TensorsAssumption, FS_CardinalityType
  <1> DEFINE n == Cardinality(Holders)
  <1>2. Cardinality(1 .. n) = n
    <2> HIDE DEF n
    <2>1. n \in Nat
      BY <1>1 DEF n
    <2> QED
      BY <2>1, FS_Interval
  <1> QED
    BY <1>1, <1>2 DEF Objects

LEMMA LiveAreFew ==
  ASSUME NEW at, DOMAIN at = Holders, at = [h \in Holders |-> at[h]]
  PROVE  /\ IsFiniteSet(Live(at)) /\ Cardinality(Live(at)) <= Cardinality(Holders)
         /\ (\E h \in Holders : at[h] = 0) => Cardinality(Live(at)) < Cardinality(Holders)
  <1> DEFINE A == {at[h] : h \in Holders}
  <1>1. IsFiniteSet(A) /\ Cardinality(A) <= Cardinality(Holders) /\ Cardinality(A) \in Nat
        /\ Cardinality(Holders) \in Nat
    BY Counted, ImageIsSmall
  <1>2. Live(at) = A \ {0} /\ ((\E h \in Holders : at[h] = 0) => 0 \in A)
    BY DEF Live
  <1> HIDE DEF A
  <1>3. IsFiniteSet(A \ {0}) /\ Cardinality(A \ {0}) <= Cardinality(A)
    <2>1. A \ {0} \in SUBSET A
      OBVIOUS
    <2> QED
      BY <1>1, <2>1, FS_Subset
  <1>4. 0 \in A => Cardinality(A \ {0}) = Cardinality(A) - 1
    BY <1>1, FS_RemoveElement
  <1>5. Cardinality(A \ {0}) \in Nat
    BY <1>3, FS_CardinalityType
  <1> QED
    BY <1>1, <1>2, <1>3, <1>4, <1>5

LEMMA ImageOf ==
  ASSUME NEW W, IsFiniteSet(W), NEW f, NEW n \in Nat, Cardinality(W) <= n
  PROVE  IsFiniteSet({f[w] : w \in W}) /\ Cardinality({f[w] : w \in W}) <= n
  <1> DEFINE g == [w \in W |-> f[w]]
  <1>1. DOMAIN g = W /\ g = [w \in W |-> g[w]] /\ {g[w] : w \in W} = {f[w] : w \in W}
    OBVIOUS
  <1> HIDE DEF g
  <1>2. /\ IsFiniteSet({g[w] : w \in W}) /\ Cardinality({g[w] : w \in W}) <= Cardinality(W)
        /\ Cardinality({g[w] : w \in W}) \in Nat /\ Cardinality(W) \in Nat
    BY <1>1, ImageIsSmall
  <1>3. DEFINE k == Cardinality({f[w] : w \in W})
               c == Cardinality(W)
  <1>4. IsFiniteSet({f[w] : w \in W}) /\ k <= c /\ k \in Nat /\ c \in Nat /\ c <= n
    BY <1>1, <1>2
  <1> HIDE DEF k, c
  <1>5. k <= n
    BY <1>4
  <1> QED
    BY <1>4, <1>5 DEF k

LEMMA UsedCells ==
  ASSUME NEW m, NEW at, NEW c
  PROVE  c \in CellsUsed(m, at) <=> \/ \E o \in Live(at) : c \in {m.heap[o].own, m.heap[o].td}
                                  \/ \E p \in DOMAIN m.defs : c = m.defs[p].cell
  <1> DEFINE S == {{m.heap[o].own, m.heap[o].td} : o \in Live(at)}
             T == {m.defs[p].cell : p \in DOMAIN m.defs}
  <1>1. CellsUsed(m, at) = (UNION S) \cup T
    BY DEF CellsUsed
  <1>2. c \in UNION S <=> \E o \in Live(at) : c \in {m.heap[o].own, m.heap[o].td}
    OBVIOUS
  <1>3. c \in T <=> \E p \in DOMAIN m.defs : c = m.defs[p].cell
    OBVIOUS
  <1> HIDE DEF S, T
  <1>4. c \in CellsUsed(m, at) <=> c \in UNION S \/ c \in T
    BY <1>1
  <1> QED
    BY <1>2, <1>3, <1>4

(* New cells, blocks, objects and families are in nobody's use.               *)
LEMMA NewMemory ==
  ASSUME NEW m, MemType(m), NEW at, DOMAIN at = Holders, at = [h \in Holders |-> at[h]]
  PROVE  /\ NewCell(m, at) \in Cells \ CellsUsed(m, at)
         /\ NewBlock(m, at) \in Blocks \ BlocksUsed(m, at)
  <1> DEFINE H == Cardinality(Holders)
             T == Cardinality(TensorAttrs)
             L == Live(at)
             D == DOMAIN m.defs
             own == [o \in L |-> m.heap[o].own]
             td == [o \in L |-> m.heap[o].td]
             block == [o \in L |-> m.heap[o].block]
             cell == [p \in D |-> m.defs[p].cell]
             bytes == [p \in D |-> m.defs[p].block]
             Owns == {own[o] : o \in L}
             Tds == {td[o] : o \in L}
             DefCells == {cell[p] : p \in D}
             Used == {block[o] : o \in L}
             DefBlocks == {bytes[p] : p \in D}
  <1>1. IsFiniteSet(L) /\ Cardinality(L) <= H /\ H \in Nat /\ T \in Nat
    BY LiveAreFew, Counted
  <1>2. IsFiniteSet(D) /\ Cardinality(D) <= T
    BY Counted, FS_Subset DEF MemType
  <1>3. CellsUsed(m, at) = (Owns \cup Tds) \cup DefCells
    <2> SUFFICES ASSUME NEW c PROVE c \in CellsUsed(m, at) <=> c \in (Owns \cup Tds) \cup DefCells
      OBVIOUS
    <2>1. c \in Owns <=> \E o \in Live(at) : c = m.heap[o].own
      OBVIOUS
    <2>2. c \in Tds <=> \E o \in Live(at) : c = m.heap[o].td
      OBVIOUS
    <2>3. c \in DefCells <=> \E p \in DOMAIN m.defs : c = m.defs[p].cell
      OBVIOUS
    <2> HIDE DEF Owns, Tds, DefCells
    <2> QED
      BY <2>1, <2>2, <2>3, UsedCells
  <1>4. BlocksUsed(m, at) = Used \cup DefBlocks
    BY DEF BlocksUsed
  <1>5. Cells = 1 .. 2 * H + T + 1 /\ Blocks = 1 .. H + T + 1
    BY DEF Cells, Blocks
  <1> HIDE DEF H, T, L, D, own, td, block, cell, bytes
  <1>6. IsFiniteSet(CellsUsed(m, at)) /\ Cardinality(CellsUsed(m, at)) <= (H + H) + T
    <2>1. IsFiniteSet(Owns) /\ Cardinality(Owns) <= H
      BY <1>1, ImageOf
    <2>3. IsFiniteSet(Tds) /\ Cardinality(Tds) <= H
      BY <1>1, ImageOf
    <2>4. IsFiniteSet(DefCells) /\ Cardinality(DefCells) <= T
      BY <1>1, <1>2, ImageOf
    <2> HIDE DEF Owns, Tds, DefCells
    <2>2. IsFiniteSet(Owns \cup Tds) /\ Cardinality(Owns \cup Tds) <= H + H
      BY <1>1, <2>1, <2>3, UnionIsSmall
    <2>5. H + H \in Nat
      BY <1>1
    <2> QED
      BY <1>1, <1>3, <2>2, <2>4, <2>5, UnionIsSmall
  <1>7. IsFiniteSet(BlocksUsed(m, at)) /\ Cardinality(BlocksUsed(m, at)) <= H + T
    <2>1. IsFiniteSet(Used) /\ Cardinality(Used) <= H
      BY <1>1, ImageOf
    <2>2. IsFiniteSet(DefBlocks) /\ Cardinality(DefBlocks) <= T
      BY <1>1, <1>2, ImageOf
    <2> HIDE DEF Used, DefBlocks
    <2> QED
      BY <1>1, <1>4, <2>1, <2>2, UnionIsSmall
  <1>8. Cardinality(CellsUsed(m, at)) \in Nat /\ Cardinality(BlocksUsed(m, at)) \in Nat
    BY <1>6, <1>7, FS_CardinalityType
  <1>9. /\ 2 * H + T + 1 \in Nat /\ Cardinality(CellsUsed(m, at)) < 2 * H + T + 1
        /\ H + T + 1 \in Nat /\ Cardinality(BlocksUsed(m, at)) < H + T + 1
    BY <1>1, <1>6, <1>7, <1>8
  <1>10. NewCell(m, at) \in Cells \ CellsUsed(m, at)
    BY <1>5, <1>6, <1>9, FreeNumber DEF NewCell
  <1>11. NewBlock(m, at) \in Blocks \ BlocksUsed(m, at)
    BY <1>5, <1>7, <1>9, FreeNumber DEF NewBlock
  <1> QED
    BY <1>10, <1>11

LEMMA NewObject ==
  ASSUME object \in [Holders -> Objects \cup {0}], NEW h \in Holders
  PROVE  Fresh(h) \in Objects \ Live(Rehold(h))
  <1>1. Rehold(h) = [g \in Holders |-> Rehold(h)[g]] /\ DOMAIN Rehold(h) = Holders /\ Rehold(h)[h] = 0
    BY DEF Rehold
  <1>2. IsFiniteSet(Live(Rehold(h))) /\ Cardinality(Live(Rehold(h))) < Cardinality(Holders)
    BY <1>1, LiveAreFew
  <1> QED
    BY <1>2, Counted, FreeNumber DEF Fresh, Objects

LEMMA NewFamily ==
  ASSUME object \in [Holders -> Objects \cup {0}]
  PROVE  \A x \in Live(object) \cup TensorAttrs : kin[x] # FreshFamily
  <1> DEFINE W == Live(object) \cup TensorAttrs
             U == {kin[x] : x \in W}
             N == Cardinality(Holders) + Cardinality(TensorAttrs)
  <1>1. object = [h \in Holders |-> object[h]] /\ DOMAIN object = Holders
    OBVIOUS
  <1>2. IsFiniteSet(Live(object)) /\ Cardinality(Live(object)) <= Cardinality(Holders)
    BY <1>1, LiveAreFew
  <1>3. IsFiniteSet(W) /\ Cardinality(W) <= N /\ N \in Nat
    <2> DEFINE H == Cardinality(Holders)
               T == Cardinality(TensorAttrs)
    <2>1. /\ H \in Nat /\ T \in Nat /\ IsFiniteSet(TensorAttrs) /\ Cardinality(TensorAttrs) <= T
          /\ IsFiniteSet(Live(object)) /\ Cardinality(Live(object)) <= H /\ N = H + T
      BY <1>2, Counted
    <2>2. IsFiniteSet(W) /\ Cardinality(W) <= H + T
      <3> HIDE DEF H, T, N
      <3> QED
        BY <2>1, UnionIsSmall
    <2> HIDE DEF H, T, N, W
    <2> QED
      BY <2>1, <2>2
  <1> HIDE DEF W
  <1>4. IsFiniteSet(U) /\ Cardinality(U) <= N
    <2> HIDE DEF N
    <2> QED
      BY <1>3, ImageOf
  <1>5. FreshFamily = Smallest((1 .. N + 1) \ U)
    BY Counted DEF FreshFamily, W
  <1> HIDE DEF N, U
  <1>6. Cardinality(U) \in Nat
    BY <1>4, FS_CardinalityType
  <1>7. Smallest((1 .. N + 1) \ U) \notin U
    BY <1>3, <1>4, <1>6, FreeNumber
  <1> QED
    BY <1>5, <1>7 DEF U, W

-----------------------------------------------------------------------------
(* Steps.  What the families in D refer to.                                   *)
HasCell(D, c) == \E z \in Present(mem, object) : kin[z] \in D /\ c \in CellsAt(mem, z)
HasBlock(D, b) == \E z \in Present(mem, object) : kin[z] \in D /\ b \in BlocksAt(mem, z)
EntryAt(m, x) == IF x \in TensorAttrs THEN m.defs[x] ELSE m.heap[x]

LEMMA PresentIsKnown ==
  ASSUME NEW m, MemType(m), NEW at \in [Holders -> Objects \cup {0}]
  PROVE  /\ Present(m, at) \subseteq Objects \cup TensorAttrs /\ Live(at) \subseteq Objects
         /\ Objects \cap TensorAttrs = {} /\ Objects \subseteq Nat /\ 0 \notin Objects
         /\ \A x \in Present(m, at) : IF x \in TensorAttrs THEN x \in DOMAIN m.defs ELSE x \in Live(at)
         /\ \A x \in Present(m, at) : CellsAt(m, x) \subseteq Cells /\ BlocksAt(m, x) \subseteq Blocks
  <1>1. Objects \subseteq Nat /\ 0 \notin Objects
    BY Counted DEF Objects
  <1>2. Objects \cap TensorAttrs = {}
    BY <1>1, TensorsAssumption
  <1>3. Live(at) \subseteq Objects
    BY DEF Live
  <1>4. \A x \in Present(m, at) : IF x \in TensorAttrs THEN x \in DOMAIN m.defs ELSE x \in Live(at)
    BY <1>2, <1>3 DEF Present, MemType
  <1>5. ASSUME NEW x \in Present(m, at)
        PROVE  CellsAt(m, x) \subseteq Cells /\ BlocksAt(m, x) \subseteq Blocks
    <2>1. CASE x \in TensorAttrs
      <3>1. DefType(m.defs[x])
        BY <1>4, <2>1 DEF MemType
      <3> QED
        BY <2>1, <3>1 DEF DefType, CellsAt, BlocksAt
    <2>2. CASE x \notin TensorAttrs
      <3>1. HeapType(m.heap[x], DOMAIN m.defs)
        BY <1>3, <1>4, <2>2 DEF MemType
      <3> QED
        BY <2>2, <3>1 DEF HeapType, CellsAt, BlocksAt
    <2> QED
      BY <2>1, <2>2
  <1>6. Present(m, at) \subseteq Objects \cup TensorAttrs
    BY <1>3 DEF Present, MemType
  <1> QED
    BY <1>1, <1>2, <1>3, <1>4, <1>5, <1>6

(* What a step must be like: the touched family f is made of families in D    *)
(* and new memory; the others are as before and keep what they refer to.      *)
StepIsLocal(D, NC, NB) ==
    LET f == kin'[touched']
    IN  /\ \A x \in Present(mem', object') : kin'[x] # f =>
             /\ x \in Present(mem, object) /\ kin'[x] = kin[x] /\ kin[x] \notin D
             /\ EntryAt(mem', x) = EntryAt(mem, x)
             /\ CellsAt(mem, x) \cap NC = {} /\ BlocksAt(mem, x) \cap NB = {}
        /\ \A x \in Present(mem', object') : kin'[x] = f =>
             /\ \A c \in CellsAt(mem', x) : c \in NC \/ HasCell(D, c)
             /\ \A b \in BlocksAt(mem', x) : b \in NB \/ HasBlock(D, b)
        /\ \A c \in Cells : mem'.cells[c] # mem.cells[c] => c \in NC \/ HasCell(D, c)
        /\ \A b \in Blocks : mem'.blocks[b] # mem.blocks[b] => b \in NB \/ HasBlock(D, b)

LEMMA LocalStep ==
  ASSUME TensorInv, MemType(mem'), object' \in [Holders -> Objects \cup {0}],
         DOMAIN kin' = Objects \cup TensorAttrs, Standing(mem', object', kin'),
         NEW D, NEW NC, NEW NB, StepIsLocal(D, NC, NB)
  PROVE  TensorInv' /\ OthersUnseen
  <1> DEFINE f == kin'[touched']
             Q == Present(mem', object')
  <1>1. ASSUME NEW y \in Q, kin'[y] # f
        PROVE  /\ y \in Present(mem, object) /\ kin'[y] = kin[y] /\ kin[y] \notin D
               /\ EntryAt(mem', y) = EntryAt(mem, y)
               /\ CellsAt(mem', y) = CellsAt(mem, y) /\ BlocksAt(mem', y) = BlocksAt(mem, y)
               /\ \A c \in CellsAt(mem, y) : c \notin NC /\ ~HasCell(D, c)
               /\ \A b \in BlocksAt(mem, y) : b \notin NB /\ ~HasBlock(D, b)
    <2>1. /\ y \in Present(mem, object) /\ kin'[y] = kin[y] /\ kin[y] \notin D
          /\ EntryAt(mem', y) = EntryAt(mem, y)
          /\ CellsAt(mem, y) \cap NC = {} /\ BlocksAt(mem, y) \cap NB = {}
      BY <1>1 DEF StepIsLocal
    <2>2. CellsAt(mem', y) = CellsAt(mem, y) /\ BlocksAt(mem', y) = BlocksAt(mem, y)
      BY <2>1 DEF EntryAt, CellsAt, BlocksAt
    <2>3. ASSUME NEW c \in CellsAt(mem, y), HasCell(D, c) PROVE FALSE
      <3>1. PICK z \in Present(mem, object) : kin[z] \in D /\ c \in CellsAt(mem, z)
        BY <2>3 DEF HasCell
      <3> QED
        BY <2>1, <3>1 DEF TensorInv, Parted
    <2>4. ASSUME NEW b \in BlocksAt(mem, y), HasBlock(D, b) PROVE FALSE
      <3>1. PICK z \in Present(mem, object) : kin[z] \in D /\ b \in BlocksAt(mem, z)
        BY <2>4 DEF HasBlock
      <3> QED
        BY <2>1, <3>1 DEF TensorInv, Parted
    <2> QED
      BY <2>1, <2>2, <2>3, <2>4
  <1>2. ASSUME NEW x \in Q, kin'[x] = f
        PROVE  /\ \A c \in CellsAt(mem', x) : c \in NC \/ HasCell(D, c)
               /\ \A b \in BlocksAt(mem', x) : b \in NB \/ HasBlock(D, b)
    BY <1>2 DEF StepIsLocal
  <1>3. Parted(mem', object', kin')
    <2> SUFFICES ASSUME NEW x \in Q, NEW y \in Q, kin'[x] # kin'[y]
                 PROVE  CellsAt(mem', x) \cap CellsAt(mem', y) = {} /\ BlocksAt(mem', x) \cap BlocksAt(mem', y) = {}
      BY DEF Parted
    <2>1. CASE kin'[x] # f /\ kin'[y] # f
      BY <1>1, <2>1 DEF TensorInv, Parted
    <2>2. CASE kin'[x] = f
      BY <1>1, <1>2, <2>2
    <2>3. CASE kin'[y] = f
      BY <1>1, <1>2, <2>3
    <2> QED
      BY <2>1, <2>2, <2>3
  <1>4. TensorInv'
    BY <1>3 DEF TensorInv
  <1>5. ASSUME NEW h \in Holders, object[h] # 0, object'[h] = object[h], Sound(mem, object[h]),
               kin[object[h]] # kin'[touched'], kin[object[h]] = kin'[object[h]]
        PROVE  Sound(mem', object[h]) /\ Seen(mem', object[h]) = Seen(mem, object[h])
    <2> DEFINE o == object[h]
    <2>1. o \in Live(object') /\ o \in Q /\ kin'[o] # f
      BY <1>5 DEF Live, Present
    <2>2. o \in Objects /\ o \notin TensorAttrs /\ o \in Live(object)
      BY <1>1, <2>1, PresentIsKnown DEF TensorInv
    <2> HIDE DEF o
    <2>3. mem'.heap[o] = mem.heap[o]
      BY <1>1, <2>1, <2>2 DEF EntryAt
    <2>4. \A c \in Cells : c \in {mem.heap[o].own, mem.heap[o].td} => mem'.cells[c] = mem.cells[c]
      <3>1. CellsAt(mem, o) = {mem.heap[o].own, mem.heap[o].td}
        BY <2>2 DEF CellsAt
      <3> QED
        BY <1>1, <2>1, <3>1 DEF StepIsLocal
    <2>5. mem.heap[o].block # Nil => mem'.blocks[mem.heap[o].block] = mem.blocks[mem.heap[o].block]
      <3>1. mem.heap[o].block # Nil => mem.heap[o].block \in BlocksAt(mem, o) /\ mem.heap[o].block \in Blocks
        BY <2>2, PresentIsKnown DEF BlocksAt, TensorInv, MemType, HeapType
      <3> QED
        BY <1>1, <2>1, <3>1 DEF StepIsLocal
    <2>6. HeapType(mem.heap[o], DOMAIN mem.defs)
      BY <2>2 DEF TensorInv, MemType
    <2>7. DescCell(mem', o) = DescCell(mem, o) /\ mem'.cells[DescCell(mem, o)] = mem.cells[DescCell(mem, o)]
      <3> DEFINE q == mem.heap[o].def
      <3>1. CASE q = Nil
        BY <2>3, <2>4, <2>6, <3>1 DEF DescCell, HeapType
      <3>2. CASE q # Nil
        <4>1. q # Gone
          BY <1>5 DEF Sound, o
        <4>2. q \in DOMAIN mem.defs /\ q \in TensorAttrs
          BY <2>6, <3>2, <4>1 DEF HeapType, TensorInv, MemType
        <4>3. q \in DOMAIN mem'.defs
          BY <2>2, <2>3, <3>2, <4>1 DEF MemType, HeapType
        <4>4. kin'[o] = kin'[q]
          BY <2>1, <2>3, <4>2 DEF Standing
        <4>5. q \in Q /\ kin'[q] # f
          BY <2>1, <4>3, <4>4 DEF Present
        <4>6. mem'.defs[q] = mem.defs[q]
          BY <1>1, <4>2, <4>5 DEF EntryAt
        <4>7. mem.defs[q].cell \in CellsAt(mem, q) /\ mem.defs[q].cell \in Cells
          BY <4>2 DEF CellsAt, TensorInv, MemType, DefType
        <4>8. mem'.cells[mem.defs[q].cell] = mem.cells[mem.defs[q].cell]
          BY <1>1, <4>5, <4>7 DEF StepIsLocal
        <4> QED
          BY <2>3, <3>2, <4>6, <4>8 DEF DescCell
      <3> QED
        BY <3>1, <3>2
    <2>8. GetData(mem', o) = GetData(mem, o)
      BY <2>3, <2>5 DEF GetData
    <2>9. Sound(mem', o)
      BY <1>5, <2>3, <2>4, <2>6, <2>8 DEF Sound, o, HeapType
    <2> QED
      BY <2>7, <2>8, <2>9 DEF Seen, GetTensorDesc, o
  <1> QED
    BY <1>4, <1>5 DEF OthersUnseen

LEMMA NobodysMemory ==
  ASSUME NEW m, NEW at \in [Holders -> Objects \cup {0}], MemType(m), NEW x \in Present(m, at)
  PROVE  /\ \A c : c \notin CellsUsed(m, at) => c \notin CellsAt(m, x)
         /\ \A b : b \notin BlocksUsed(m, at) => b \notin BlocksAt(m, x)
  <1>1. IF x \in TensorAttrs THEN x \in DOMAIN m.defs ELSE x \in Live(at)
    BY PresentIsKnown
  <1>2. ASSUME NEW c, c \in CellsAt(m, x) PROVE c \in CellsUsed(m, at)
    BY <1>1, <1>2, UsedCells DEF CellsAt
  <1>3. ASSUME NEW b, b \in BlocksAt(m, x) PROVE b \in BlocksUsed(m, at)
    BY <1>1, <1>3 DEF BlocksAt, BlocksUsed
  <1> QED
    BY <1>2, <1>3

LEMMA OwnMemory ==
  ASSUME TensorInv, NEW o \in Live(object)
  PROVE  /\ o \in Objects /\ o \notin TensorAttrs /\ o \in Present(mem, object) /\ o \in DOMAIN kin
         /\ HeapType(mem.heap[o], DOMAIN mem.defs)
         /\ HasCell({kin[o]}, mem.heap[o].own) /\ HasCell({kin[o]}, mem.heap[o].td)
         /\ mem.heap[o].block # Nil => HasBlock({kin[o]}, mem.heap[o].block)
         /\ mem.heap[o].def \in TensorAttrs =>
              LET p == mem.heap[o].def
              IN  /\ p \in DOMAIN mem.defs /\ p \in Present(mem, object) /\ kin[p] = kin[o]
                  /\ HasCell({kin[o]}, mem.defs[p].cell) /\ HasBlock({kin[o]}, mem.defs[p].block)
  <1>1. o \in Objects /\ o \notin TensorAttrs /\ o \in Present(mem, object)
    BY PresentIsKnown DEF TensorInv, Present
  <1>2. HeapType(mem.heap[o], DOMAIN mem.defs)
    BY <1>1 DEF TensorInv, MemType
  <1>3. HasCell({kin[o]}, mem.heap[o].own) /\ HasCell({kin[o]}, mem.heap[o].td)
        /\ (mem.heap[o].block # Nil => HasBlock({kin[o]}, mem.heap[o].block))
    BY <1>1 DEF HasCell, HasBlock, CellsAt, BlocksAt
  <1>4. ASSUME mem.heap[o].def \in TensorAttrs
        PROVE  LET p == mem.heap[o].def
               IN  /\ p \in DOMAIN mem.defs /\ p \in Present(mem, object) /\ kin[p] = kin[o]
                   /\ HasCell({kin[o]}, mem.defs[p].cell) /\ HasBlock({kin[o]}, mem.defs[p].block)
    <2> DEFINE p == mem.heap[o].def
    <2>1. p \in DOMAIN mem.defs /\ p \in TensorAttrs
      BY <1>2, <1>4, TensorsAssumption DEF HeapType
    <2>2. p \in Present(mem, object) /\ kin[p] = kin[o]
      BY <1>4, <2>1 DEF Present, TensorInv, Standing
    <2>3. mem.defs[p].block # Nil
      BY <2>1, TensorsAssumption DEF TensorInv, MemType, DefType, Blocks
    <2>4. HasCell({kin[o]}, mem.defs[p].cell) /\ HasBlock({kin[o]}, mem.defs[p].block)
      BY <2>1, <2>2, <2>3 DEF HasCell, HasBlock, CellsAt, BlocksAt
    <2> QED
      BY <2>1, <2>2, <2>4
  <1> QED
    BY <1>1, <1>2, <1>3, <1>4 DEF TensorInv

(* An operation on a tensor or an attribute that is there.                    *)
LEMMA InPlace ==
  ASSUME TensorInv, MemType(mem'), object' = object, kin' = kin, NEW t \in Present(mem, object), touched' = t,
         DOMAIN mem'.defs \subseteq DOMAIN mem.defs,
         \A x \in Present(mem, object) : kin[x] # kin[t] => EntryAt(mem', x) = EntryAt(mem, x),
         \A x \in Present(mem', object) : kin[x] = kin[t] =>
             /\ \A c \in CellsAt(mem', x) : HasCell({kin[t]}, c)
             /\ \A b \in BlocksAt(mem', x) : b = NewBlock(mem, object) \/ HasBlock({kin[t]}, b),
         \A o \in Live(object) : mem'.heap[o].def \in {mem.heap[o].def, Gone},
         \A c \in Cells : mem'.cells[c] # mem.cells[c] => HasCell({kin[t]}, c),
         \A b \in Blocks : mem'.blocks[b] # mem.blocks[b] => b = NewBlock(mem, object) \/ HasBlock({kin[t]}, b)
  PROVE  TensorInv' /\ OthersUnseen
  <1> DEFINE D == {kin[t]}
             NB == {NewBlock(mem, object)}
  <1>1. Present(mem', object') \subseteq Present(mem, object)
    BY DEF Present
  <1>2. object \in [Holders -> Objects \cup {0}] /\ MemType(mem) /\ DOMAIN kin = Objects \cup TensorAttrs
    BY DEF TensorInv
  <1>3. Standing(mem', object', kin')
    BY TensorsAssumption DEF Standing, TensorInv
  <1>4. ASSUME NEW x \in Present(mem', object') PROVE BlocksAt(mem, x) \cap NB = {}
    <2>1. object = [h \in Holders |-> object[h]] /\ DOMAIN object = Holders
      BY <1>2
    <2>2. NewBlock(mem, object) \notin BlocksUsed(mem, object)
      BY <1>2, <2>1, NewMemory
    <2> QED
      BY <1>1, <1>2, <1>4, <2>2, NobodysMemory
  <1>5. StepIsLocal(D, {}, NB)
    BY <1>1, <1>4 DEF StepIsLocal
  <1> HIDE DEF D, NB
  <1> QED
    BY <1>2, <1>3, <1>5, LocalStep

(* A new object that h holds.                                                 *)
Begins(h, o, fam) == o = Fresh(h) /\ object' = [object EXCEPT ![h] = o] /\ touched' = o /\ kin' = [kin EXCEPT ![o] = fam]

LEMMA NewOne ==
  ASSUME TensorInv, MemType(mem'), NEW h \in Holders, NEW o, NEW fam, Begins(h, o, fam),
         mem'.defs = mem.defs, \A x \in Objects : x # o => mem'.heap[x] = mem.heap[x],
         \A c \in {mem'.heap[o].own, mem'.heap[o].td} : c = NewCell(mem, Rehold(h)) \/ HasCell({fam}, c),
         mem'.heap[o].block \notin {Nil, NewBlock(mem, Rehold(h))} => HasBlock({fam}, mem'.heap[o].block),
         mem'.heap[o].def \in TensorAttrs => kin[mem'.heap[o].def] = fam,
         \A c \in Cells : mem'.cells[c] # mem.cells[c] => c = NewCell(mem, Rehold(h)),
         \A b \in Blocks : mem'.blocks[b] # mem.blocks[b] => b = NewBlock(mem, Rehold(h))
  PROVE  TensorInv' /\ OthersUnseen
  <1> DEFINE at == Rehold(h)
             NC == {NewCell(mem, at)}
             NB == {NewBlock(mem, at)}
             D == {fam}
  <1>0. o = Fresh(h) /\ object' = [object EXCEPT ![h] = o] /\ touched' = o /\ kin' = [kin EXCEPT ![o] = fam]
    BY DEF Begins
  <1>1. object \in [Holders -> Objects \cup {0}] /\ MemType(mem) /\ DOMAIN kin = Objects \cup TensorAttrs
    BY DEF TensorInv
  <1>2. o \in Objects /\ o \notin Live(at) /\ o \notin TensorAttrs
    BY <1>0, <1>1, NewObject, PresentIsKnown
  <1>3. at \in [Holders -> Objects \cup {0}] /\ at = [g \in Holders |-> at[g]] /\ DOMAIN at = Holders
    BY <1>1 DEF Rehold
  <1>4. Live(at) \subseteq Live(object) /\ Live(object') = Live(at) \cup {o}
    <2>1. 0 \notin Objects
      BY <1>1, PresentIsKnown
    <2>2. \A g \in Holders : at[g] = IF g = h THEN 0 ELSE object[g]
      BY <1>1 DEF Rehold
    <2>3. \A g \in Holders : object'[g] = IF g = h THEN o ELSE object[g]
      BY <1>0, <1>1
    <2> HIDE DEF at
    <2> QED
      BY <1>2, <2>1, <2>2, <2>3 DEF Live
  <1>5. object' \in [Holders -> Objects \cup {0}] /\ DOMAIN kin' = Objects \cup TensorAttrs
    BY <1>0, <1>1, <1>2
  <1>6. ASSUME NEW x \in Present(mem', object'), x # o
        PROVE  /\ x \in Present(mem, at) /\ x \in Present(mem, object) /\ kin'[x] = kin[x]
               /\ EntryAt(mem', x) = EntryAt(mem, x)
               /\ CellsAt(mem, x) \cap NC = {} /\ BlocksAt(mem, x) \cap NB = {}
    <2>1. x \in Present(mem, at) /\ x \in Present(mem, object)
      BY <1>4, <1>6 DEF Present
    <2>2. x \in Objects \cup TensorAttrs /\ kin'[x] = kin[x]
      BY <1>0, <1>1, <1>6, <2>1, PresentIsKnown
    <2>3. EntryAt(mem', x) = EntryAt(mem, x)
      BY <1>6, <2>2 DEF EntryAt
    <2>4. CellsAt(mem, x) \cap NC = {} /\ BlocksAt(mem, x) \cap NB = {}
      <3>1. NewCell(mem, at) \notin CellsUsed(mem, at) /\ NewBlock(mem, at) \notin BlocksUsed(mem, at)
        BY <1>1, <1>3, NewMemory
      <3> HIDE DEF at
      <3> QED
        BY <1>1, <1>3, <2>1, <3>1, NobodysMemory
    <2> QED
      BY <2>1, <2>2, <2>3, <2>4
  <1>7. kin'[o] = fam /\ touched' = o
    BY <1>0, <1>1, <1>2
  <1>8. Standing(mem', object', kin')
    <2> SUFFICES ASSUME NEW x \in Live(object'), mem'.heap[x].def \in TensorAttrs
                 PROVE  kin'[x] = kin'[mem'.heap[x].def]
      BY DEF Standing
    <2>1. kin'[mem'.heap[x].def] = kin[mem'.heap[x].def]
      BY <1>0, <1>1, <1>2
    <2>2. CASE x = o
      BY <1>7, <2>1, <2>2
    <2>3. CASE x # o
      <3>1. x \in Live(object) /\ x \in Objects /\ kin'[x] = kin[x]
        BY <1>0, <1>1, <1>4, <2>3, PresentIsKnown
      <3> QED
        BY <2>1, <2>3, <3>1 DEF TensorInv, Standing
    <2> QED
      BY <2>2, <2>3
  <1>9. ASSUME NEW x \in Present(mem', object'), kin'[x] = fam
        PROVE  /\ \A c \in CellsAt(mem', x) : c \in NC \/ HasCell(D, c)
               /\ \A b \in BlocksAt(mem', x) : b \in NB \/ HasBlock(D, b)
    <2>1. CASE x = o
      BY <1>2, <2>1 DEF CellsAt, BlocksAt
    <2>2. CASE x # o
      <3>1. CellsAt(mem', x) = CellsAt(mem, x) /\ BlocksAt(mem', x) = BlocksAt(mem, x)
            /\ x \in Present(mem, object) /\ kin[x] = fam
        BY <1>6, <1>9, <2>2 DEF EntryAt, CellsAt, BlocksAt
      <3> QED
        BY <3>1 DEF HasCell, HasBlock
    <2> QED
      BY <2>1, <2>2
  <1>10. StepIsLocal(D, NC, NB)
    BY <1>6, <1>7, <1>9 DEF StepIsLocal
  <1> HIDE DEF D, NC, NB
  <1> QED
    BY <1>5, <1>8, <1>10, LocalStep

-----------------------------------------------------------------------------
(* Memory, written in one place.                                              *)
WithHeap(m, o, t) == [m EXCEPT !.heap[o] = t]
WithCell(m, c, d) == [m EXCEPT !.cells[c] = d]
WithBlock(m, b, d) == [m EXCEPT !.blocks[b] = d]
WithDef(m, p, t) == [m EXCEPT !.defs[p] = t]

LEMMA PutHeap ==
  ASSUME NEW m, MemType(m), NEW o \in Objects, NEW t, HeapType(t, DOMAIN m.defs), NEW n, n = WithHeap(m, o, t)
  PROVE  /\ MemType(n) /\ n.cells = m.cells /\ n.blocks = m.blocks /\ n.defs = m.defs
         /\ n.heap[o] = t /\ \A x \in Objects : x # o => n.heap[x] = m.heap[x]
  BY DEF MemType, WithHeap

LEMMA PutCell ==
  ASSUME NEW m, MemType(m), NEW c \in Cells, NEW d, NEW n, n = WithCell(m, c, d)
  PROVE  /\ MemType(n) /\ n.heap = m.heap /\ n.blocks = m.blocks /\ n.defs = m.defs
         /\ n.cells[c] = d /\ \A x \in Cells : x # c => n.cells[x] = m.cells[x]
  BY DEF MemType, WithCell

LEMMA PutBlock ==
  ASSUME NEW m, MemType(m), NEW b \in Blocks, NEW d, NEW n, n = WithBlock(m, b, d)
  PROVE  /\ MemType(n) /\ n.heap = m.heap /\ n.cells = m.cells /\ n.defs = m.defs
         /\ n.blocks[b] = d /\ \A x \in Blocks : x # b => n.blocks[x] = m.blocks[x]
  BY DEF MemType, WithBlock

LEMMA PutDef ==
  ASSUME NEW m, MemType(m), NEW p \in DOMAIN m.defs, NEW t, DefType(t), NEW n, n = WithDef(m, p, t)
  PROVE  /\ MemType(n) /\ n.heap = m.heap /\ n.cells = m.cells /\ n.blocks = m.blocks
         /\ DOMAIN n.defs = DOMAIN m.defs
         /\ n.defs[p] = t /\ \A x \in DOMAIN m.defs : x # p => n.defs[x] = m.defs[x]
  BY DEF MemType, WithDef

(* A record of an object, with a field set.                                   *)
WithBytes(t, b, l) == [t EXCEPT !.block = b, !.len = l]

LEMMA SetOwn ==
  ASSUME NEW t, NEW there, HeapType(t, there), NEW c \in Cells, NEW r, r = [t EXCEPT !.own = c]
  PROVE  HeapType(r, there) /\ r.own = c /\ r.td = t.td /\ r.block = t.block /\ r.def = t.def
  BY DEF HeapType

LEMMA SetBlock ==
  ASSUME NEW t, NEW there, HeapType(t, there), NEW b \in Blocks \cup {Nil}, NEW l,
         NEW r, r = WithBytes(t, b, l)
  PROVE  HeapType(r, there) /\ r.own = t.own /\ r.td = t.td /\ r.block = b /\ r.def = t.def
  BY DEF HeapType, WithBytes

LEMMA SetDef ==
  ASSUME NEW t, DefType(t), NEW b \in Blocks, NEW l, NEW r, r = WithBytes(t, b, l)
  PROVE  DefType(r) /\ r.cell = t.cell /\ r.block = b
  BY DEF DefType, WithBytes

LEMMA DescReferenceIs ==
  ASSUME NEW m, MemType(m), NEW o \in Objects, DescCell(m, o) \in Cells, NEW n, n = DescReference(m, o)
  PROVE  /\ MemType(n) /\ n.cells = m.cells /\ n.blocks = m.blocks /\ n.defs = m.defs
         /\ \A x \in Objects : x # o => n.heap[x] = m.heap[x]
         /\ n.heap[o].own = DescCell(m, o) /\ n.heap[o].td = m.heap[o].td
         /\ n.heap[o].block = m.heap[o].block /\ n.heap[o].def = m.heap[o].def
  <1> DEFINE t == [m.heap[o] EXCEPT !.own = DescCell(m, o)]
  <1>1. HeapType(m.heap[o], DOMAIN m.defs)
    BY DEF MemType
  <1>2. HeapType(t, DOMAIN m.defs) /\ t.own = DescCell(m, o) /\ t.td = m.heap[o].td
        /\ t.block = m.heap[o].block /\ t.def = m.heap[o].def
    BY <1>1, SetOwn
  <1>3. n = WithHeap(m, o, t)
    BY DEF DescReference, WithHeap
  <1> HIDE DEF t
  <1> QED
    BY <1>2, <1>3, PutHeap

LEMMA ClearTensorDataIs ==
  ASSUME NEW m, MemType(m), NEW o \in Objects, NEW n, n = ClearTensorData(m, o)
  PROVE  /\ MemType(n) /\ n.cells = m.cells /\ n.blocks = m.blocks /\ n.defs = m.defs
         /\ \A x \in Objects : x # o => n.heap[x] = m.heap[x]
         /\ n.heap[o].own = m.heap[o].own /\ n.heap[o].td = m.heap[o].td
         /\ n.heap[o].block = Nil /\ n.heap[o].def = m.heap[o].def
  <1> DEFINE t == WithBytes(m.heap[o], Nil, 0)
  <1>1. HeapType(m.heap[o], DOMAIN m.defs)
    BY DEF MemType
  <1>2. HeapType(t, DOMAIN m.defs) /\ t.own = m.heap[o].own /\ t.td = m.heap[o].td
        /\ t.block = Nil /\ t.def = m.heap[o].def
    BY <1>1, SetBlock
  <1>3. n = WithHeap(m, o, t)
    BY DEF ClearTensorData, WithHeap, WithBytes
  <1> HIDE DEF t
  <1> QED
    BY <1>2, <1>3, PutHeap

(* The bytes of a tensor go where they are shared, or to a block of its own.  *)
LEMMA SetTensorDataIs ==
  ASSUME NEW m, MemType(m), NEW o \in Objects, NEW at, NEW bytes, NewBlock(m, at) \in Blocks,
         NEW n, n = SetTensorData(m, at, o, bytes)
  PROVE  /\ MemType(n) /\ n.cells = m.cells /\ n.defs = m.defs
         /\ \A x \in Objects : x # o => n.heap[x] = m.heap[x]
         /\ n.heap[o].own = m.heap[o].own /\ n.heap[o].td = m.heap[o].td /\ n.heap[o].def = m.heap[o].def
         /\ n.heap[o].block \in {Nil, m.heap[o].block, NewBlock(m, at)}
         /\ \A b \in Blocks : n.blocks[b] # m.blocks[b] => b = n.heap[o].block
  <1>1. CASE bytes = << >>
    <2>1. n = ClearTensorData(m, o)
      BY <1>1 DEF SetTensorData
    <2> QED
      BY <2>1, ClearTensorDataIs
  <1>2. CASE bytes # << >>
    <2> DEFINE k == MallocAlignedPtr(m, at, o, Len(bytes))
               t == WithBytes(m.heap[o], NewBlock(m, at), Len(bytes))
               b0 == k.heap[o].block
               d == Overlay(IF k = m THEN k.blocks[b0] ELSE << >>, bytes)
    <2>1. HeapType(m.heap[o], DOMAIN m.defs)
      BY DEF MemType
    <2>2. /\ MemType(k) /\ k.cells = m.cells /\ k.defs = m.defs /\ k.blocks = m.blocks
          /\ \A x \in Objects : x # o => k.heap[x] = m.heap[x]
          /\ k.heap[o].own = m.heap[o].own /\ k.heap[o].td = m.heap[o].td /\ k.heap[o].def = m.heap[o].def
          /\ k.heap[o].block \in {m.heap[o].block, NewBlock(m, at)} /\ k.heap[o].block \in Blocks
      <3>1. CASE m.heap[o].len = Len(bytes) /\ m.heap[o].block # Nil
        BY <2>1, <3>1 DEF MallocAlignedPtr, HeapType
      <3>2. CASE ~(m.heap[o].len = Len(bytes) /\ m.heap[o].block # Nil)
        <4>1. HeapType(t, DOMAIN m.defs) /\ t.own = m.heap[o].own /\ t.td = m.heap[o].td
              /\ t.block = NewBlock(m, at) /\ t.def = m.heap[o].def
          BY <2>1, SetBlock
        <4>2. k = WithHeap(m, o, t)
          BY <3>2 DEF MallocAlignedPtr, WithHeap, WithBytes
        <4> HIDE DEF t, k
        <4> QED
          BY <4>1, <4>2, PutHeap
      <3> QED
        BY <3>1, <3>2
    <2>3. n = WithBlock(k, b0, d)
      BY <1>2 DEF SetTensorData, WithBlock
    <2> HIDE DEF k, d
    <2>4. /\ MemType(n) /\ n.heap = k.heap /\ n.cells = k.cells /\ n.defs = k.defs
          /\ \A x \in Blocks : x # b0 => n.blocks[x] = k.blocks[x]
      BY <2>2, <2>3, PutBlock
    <2> QED
      BY <2>2, <2>4
  <1> QED
    BY <1>1, <1>2

(* The string of an attribute's message, in place or moved.                   *)
LEMMA StringInIs ==
  ASSUME NEW m, MemType(m), NEW p \in DOMAIN m.defs, NEW bytes, NEW n, n = StringIn(m, p, bytes)
  PROVE  /\ MemType(n) /\ n.cells = m.cells /\ n.heap = m.heap /\ DOMAIN n.defs = DOMAIN m.defs
         /\ \A q \in DOMAIN m.defs : q # p => n.defs[q] = m.defs[q]
         /\ n.defs[p].cell = m.defs[p].cell /\ n.defs[p].block = m.defs[p].block
         /\ \A b \in Blocks : n.blocks[b] # m.blocks[b] => b = m.defs[p].block
  <1> DEFINE d == Overlay(m.blocks[m.defs[p].block], bytes)
             k == WithBlock(m, m.defs[p].block, d)
             t == [m.defs[p] EXCEPT !.len = Len(bytes)]
  <1>1. DefType(m.defs[p])
    BY DEF MemType
  <1>2. /\ MemType(k) /\ k.heap = m.heap /\ k.cells = m.cells /\ k.defs = m.defs
        /\ \A x \in Blocks : x # m.defs[p].block => k.blocks[x] = m.blocks[x]
    <2> HIDE DEF d
    <2>1. m.defs[p].block \in Blocks
      BY <1>1 DEF DefType
    <2> QED
      BY <2>1, PutBlock
  <1>3. DefType(t) /\ t.cell = m.defs[p].cell /\ t.block = m.defs[p].block
    BY <1>1 DEF DefType
  <1>4. n = WithDef(k, p, t)
    BY DEF StringIn, MemType, WithBlock, WithDef
  <1> HIDE DEF k, t, d
  <1> QED
    BY <1>2, <1>3, <1>4, PutDef

LEMMA StringMovedIs ==
  ASSUME NEW m, MemType(m), NEW p \in DOMAIN m.defs, NEW at, NEW bytes, NewBlock(m, at) \in Blocks,
         NEW n, n = StringMoved(m, at, p, bytes)
  PROVE  /\ MemType(n) /\ n.cells = m.cells /\ n.heap = m.heap /\ DOMAIN n.defs = DOMAIN m.defs
         /\ \A q \in DOMAIN m.defs : q # p => n.defs[q] = m.defs[q]
         /\ n.defs[p].cell = m.defs[p].cell /\ n.defs[p].block = NewBlock(m, at)
         /\ \A b \in Blocks : n.blocks[b] # m.blocks[b] => b \in {m.defs[p].block, NewBlock(m, at)}
  <1> DEFINE b0 == NewBlock(m, at)
             j == WithBlock(m, m.defs[p].block, Gone)
             k == WithBlock(j, b0, bytes)
             t == WithBytes(m.defs[p], b0, Len(bytes))
  <1>1. DefType(m.defs[p])
    BY DEF MemType
  <1>2. /\ MemType(j) /\ j.heap = m.heap /\ j.cells = m.cells /\ j.defs = m.defs
        /\ \A x \in Blocks : x # m.defs[p].block => j.blocks[x] = m.blocks[x]
    <2>1. m.defs[p].block \in Blocks
      BY <1>1 DEF DefType
    <2> QED
      BY <2>1, PutBlock
  <1>3. DefType(t) /\ t.cell = m.defs[p].cell /\ t.block = b0
    BY <1>1, SetDef
  <1>4. n = WithDef(k, p, t)
    BY DEF StringMoved, MemType, WithBlock, WithDef, WithBytes
  <1> HIDE DEF j, t
  <1>5. /\ MemType(k) /\ k.heap = j.heap /\ k.cells = j.cells /\ k.defs = j.defs
        /\ \A x \in Blocks : x # b0 => k.blocks[x] = j.blocks[x]
    BY <1>2, PutBlock
  <1> HIDE DEF k
  <1> QED
    BY <1>2, <1>3, <1>4, <1>5, PutDef

LEMMA SetStringIs ==
  ASSUME NEW m, MemType(m), NEW p \in DOMAIN m.defs, NEW at, NEW bytes, NewBlock(m, at) \in Blocks,
         NEW n \in SetString(m, at, p, bytes)
  PROVE  /\ MemType(n) /\ n.cells = m.cells /\ n.heap = m.heap /\ DOMAIN n.defs = DOMAIN m.defs
         /\ \A q \in DOMAIN m.defs : q # p => n.defs[q] = m.defs[q]
         /\ n.defs[p].cell = m.defs[p].cell /\ n.defs[p].block \in {m.defs[p].block, NewBlock(m, at)}
         /\ \A b \in Blocks : n.blocks[b] # m.blocks[b] => b \in {m.defs[p].block, NewBlock(m, at)}
  <1>1. n = StringIn(m, p, bytes) \/ n = StringMoved(m, at, p, bytes)
    BY DEF SetString
  <1> QED
    BY <1>1, StringInIs, StringMovedIs

-----------------------------------------------------------------------------
(* The operations on a tensor that is there.                                  *)
LEMMA UsableFacts ==
  ASSUME TensorInv, NEW h \in Holders, Usable(h)
  PROVE  /\ object[h] \in Live(object) /\ object[h] \in Objects
         /\ mem.heap[object[h]].def \in TensorAttrs \cup {Nil}
         /\ DescCell(mem, object[h]) \in Cells /\ HasCell({kin[object[h]]}, DescCell(mem, object[h]))
  <1> DEFINE o == object[h]
  <1>1. o \in Live(object)
    BY DEF Usable, Live
  <1> HIDE DEF o
  <1>2. o \in Objects /\ HeapType(mem.heap[o], DOMAIN mem.defs) /\ MemType(mem)
    BY <1>1, OwnMemory DEF TensorInv
  <1>3. mem.heap[o].def # Gone
    BY DEF Usable, Sound, o
  <1>4. mem.heap[o].def \in TensorAttrs \cup {Nil}
    BY <1>2, <1>3 DEF HeapType, MemType
  <1>5. CASE mem.heap[o].def = Nil
    BY <1>1, <1>2, <1>4, <1>5, OwnMemory DEF DescCell, HeapType, o
  <1>6. CASE mem.heap[o].def # Nil
    <2> DEFINE p == mem.heap[o].def
    <2>1. p \in DOMAIN mem.defs /\ HasCell({kin[o]}, mem.defs[p].cell)
      BY <1>1, <1>4, <1>6, OwnMemory
    <2>2. mem.defs[p].cell \in Cells
      BY <1>2, <2>1 DEF MemType, DefType
    <2>3. DescCell(mem, o) = mem.defs[p].cell
      BY <1>6 DEF DescCell
    <2> QED
      BY <1>1, <1>2, <1>4, <2>1, <2>2, <2>3 DEF o
  <1> QED
    BY <1>5, <1>6

LEMMA OnObject ==
  ASSUME TensorInv, NEW o \in Live(object), MemType(mem'), object' = object, kin' = kin, touched' = o,
         \A x \in Objects : x # o => mem'.heap[x] = mem.heap[x],
         mem'.heap[o].def = mem.heap[o].def,
         HasCell({kin[o]}, mem'.heap[o].own), HasCell({kin[o]}, mem'.heap[o].td),
         mem'.heap[o].block # Nil => mem'.heap[o].block = NewBlock(mem, object) \/ HasBlock({kin[o]}, mem'.heap[o].block),
         DOMAIN mem'.defs = DOMAIN mem.defs,
         \A p \in DOMAIN mem.defs :
             IF p = mem.heap[o].def
             THEN mem'.defs[p].cell = mem.defs[p].cell
                  /\ (mem'.defs[p].block = NewBlock(mem, object) \/ HasBlock({kin[o]}, mem'.defs[p].block))
             ELSE mem'.defs[p] = mem.defs[p],
         \A c \in Cells : mem'.cells[c] # mem.cells[c] => HasCell({kin[o]}, c),
         \A b \in Blocks : mem'.blocks[b] # mem.blocks[b] => b = NewBlock(mem, object) \/ HasBlock({kin[o]}, b)
  PROVE  TensorInv' /\ OthersUnseen
  <1>1. o \in Objects /\ o \notin TensorAttrs /\ o \in Present(mem, object)
    BY OwnMemory
  <1>2. MemType(mem) /\ object \in [Holders -> Objects \cup {0}]
    BY DEF TensorInv
  <1>3. Present(mem', object) = Present(mem, object)
    BY DEF Present
  <1>4. ASSUME NEW x \in Present(mem, object), kin[x] # kin[o] PROVE EntryAt(mem', x) = EntryAt(mem, x)
    <2>1. CASE x \in TensorAttrs
      <3>1. x \in DOMAIN mem.defs
        BY <1>2, <2>1, PresentIsKnown
      <3>2. x # mem.heap[o].def
        BY <1>4, <2>1, OwnMemory
      <3> QED
        BY <2>1, <3>1, <3>2 DEF EntryAt
    <2>2. CASE x \notin TensorAttrs
      <3>1. x \in Objects /\ x # o
        BY <1>2, <1>4, <2>2, PresentIsKnown
      <3> QED
        BY <2>2, <3>1 DEF EntryAt
    <2> QED
      BY <2>1, <2>2
  <1>5. ASSUME NEW x \in Present(mem, object), kin[x] = kin[o]
        PROVE  /\ \A c \in CellsAt(mem', x) : HasCell({kin[o]}, c)
               /\ \A b \in BlocksAt(mem', x) : b = NewBlock(mem, object) \/ HasBlock({kin[o]}, b)
    <2>1. CASE x = o
      BY <1>1, <2>1 DEF CellsAt, BlocksAt
    <2>2. CASE x \in TensorAttrs /\ x = mem.heap[o].def
      <3>1. x \in DOMAIN mem.defs /\ HasCell({kin[o]}, mem.defs[x].cell)
        BY <2>2, OwnMemory
      <3> QED
        BY <2>2, <3>1 DEF CellsAt, BlocksAt
    <2>3. CASE x # o /\ ~(x \in TensorAttrs /\ x = mem.heap[o].def)
      <3>1. EntryAt(mem', x) = EntryAt(mem, x)
        <4>1. x \in TensorAttrs => x \in DOMAIN mem.defs /\ x # mem.heap[o].def
          BY <1>2, <2>3, PresentIsKnown
        <4>2. x \notin TensorAttrs => x \in Objects /\ x # o
          BY <1>2, <2>3, PresentIsKnown
        <4> QED
          BY <4>1, <4>2 DEF EntryAt
      <3>2. CellsAt(mem', x) = CellsAt(mem, x) /\ BlocksAt(mem', x) = BlocksAt(mem, x)
        BY <3>1 DEF EntryAt, CellsAt, BlocksAt
      <3> QED
        BY <1>5, <3>2 DEF HasCell, HasBlock
    <2> QED
      BY <2>1, <2>2, <2>3
  <1>6. ASSUME NEW x \in Live(object) PROVE mem'.heap[x].def \in {mem.heap[x].def, Gone}
    BY <1>1, <1>2, PresentIsKnown
  <1>7. \A x \in Present(mem', object) : kin[x] = kin[o] =>
             /\ \A c \in CellsAt(mem', x) : HasCell({kin[o]}, c)
             /\ \A b \in BlocksAt(mem', x) : b = NewBlock(mem, object) \/ HasBlock({kin[o]}, b)
    BY <1>3, <1>5
  <1>8. \A x \in Present(mem, object) : kin[x] # kin[o] => EntryAt(mem', x) = EntryAt(mem, x)
    BY <1>4
  <1> QED
    BY <1>1, <1>6, <1>7, <1>8, InPlace

LEMMA ReadDescStep ==
  ASSUME TensorInv, NEW h \in Holders, ReadDesc(h)
  PROVE  TensorInv' /\ OthersUnseen
  <1> DEFINE o == object[h]
  <1>1. Usable(h) /\ mem' = DescReference(mem, o) /\ touched' = o /\ object' = object /\ kin' = kin
    BY DEF ReadDesc
  <1>2. /\ o \in Live(object) /\ o \in Objects /\ DescCell(mem, o) \in Cells /\ HasCell({kin[o]}, DescCell(mem, o))
        /\ MemType(mem)
    BY <1>1, UsableFacts DEF TensorInv
  <1> HIDE DEF o
  <1>3. /\ MemType(mem') /\ mem'.cells = mem.cells /\ mem'.blocks = mem.blocks /\ mem'.defs = mem.defs
        /\ \A x \in Objects : x # o => mem'.heap[x] = mem.heap[x]
        /\ mem'.heap[o].own = DescCell(mem, o) /\ mem'.heap[o].td = mem.heap[o].td
        /\ mem'.heap[o].block = mem.heap[o].block /\ mem'.heap[o].def = mem.heap[o].def
    BY <1>1, <1>2, DescReferenceIs
  <1>4. /\ HasCell({kin[o]}, mem.heap[o].td)
        /\ mem.heap[o].block # Nil => HasBlock({kin[o]}, mem.heap[o].block)
        /\ \A p \in DOMAIN mem.defs : p = mem.heap[o].def => HasBlock({kin[o]}, mem.defs[p].block)
    BY <1>2, OwnMemory DEF MemType
  <1> QED
    BY <1>1, <1>2, <1>3, <1>4, OnObject

LEMMA DescribeStep ==
  ASSUME TensorInv, NEW h \in Holders, NEW d, Describe(h, d)
  PROVE  TensorInv' /\ OthersUnseen
  <1> DEFINE o == object[h]
             n == DescReference(mem, o)
             c == DescCell(mem, o)
  <1>1. Usable(h) /\ mem' = SetTensorDesc(mem, o, d) /\ touched' = o /\ object' = object /\ kin' = kin
    BY DEF Describe
  <1>2. /\ o \in Live(object) /\ o \in Objects /\ c \in Cells /\ HasCell({kin[o]}, c) /\ MemType(mem)
    BY <1>1, UsableFacts DEF TensorInv
  <1>3. mem' = WithCell(n, n.heap[o].own, d)
    BY <1>1 DEF SetTensorDesc, WithCell
  <1> HIDE DEF o
  <1>4. /\ MemType(n) /\ n.cells = mem.cells /\ n.blocks = mem.blocks /\ n.defs = mem.defs
        /\ \A x \in Objects : x # o => n.heap[x] = mem.heap[x]
        /\ n.heap[o].own = c /\ n.heap[o].td = mem.heap[o].td
        /\ n.heap[o].block = mem.heap[o].block /\ n.heap[o].def = mem.heap[o].def
    BY <1>2, DescReferenceIs
  <1> HIDE DEF n, c
  <1>5. /\ MemType(mem') /\ mem'.heap = n.heap /\ mem'.blocks = n.blocks /\ mem'.defs = n.defs
        /\ \A x \in Cells : x # c => mem'.cells[x] = n.cells[x]
    BY <1>2, <1>3, <1>4, PutCell
  <1>6. /\ HasCell({kin[o]}, mem.heap[o].td)
        /\ mem.heap[o].block # Nil => HasBlock({kin[o]}, mem.heap[o].block)
        /\ \A p \in DOMAIN mem.defs : p = mem.heap[o].def => HasBlock({kin[o]}, mem.defs[p].block)
    BY <1>2, OwnMemory DEF MemType
  <1>8. \A x \in Cells : mem'.cells[x] # mem.cells[x] => HasCell({kin[o]}, x)
    BY <1>2, <1>4, <1>5
  <1>9. \A x \in Objects : x # o => mem'.heap[x] = mem.heap[x]
    BY <1>4, <1>5
  <1>10. mem'.heap[o].def = mem.heap[o].def /\ mem'.heap[o].own = c /\ mem'.heap[o].td = mem.heap[o].td
         /\ mem'.heap[o].block = mem.heap[o].block /\ mem'.defs = mem.defs /\ mem'.blocks = mem.blocks
    BY <1>4, <1>5
  <1> QED
    BY <1>1, <1>2, <1>5, <1>6, <1>8, <1>9, <1>10, OnObject

LEMMA NewBlockIsBlock ==
  ASSUME TensorInv
  PROVE  NewBlock(mem, object) \in Blocks /\ NewCell(mem, object) \in Cells
  <1>1. MemType(mem) /\ object = [h \in Holders |-> object[h]] /\ DOMAIN object = Holders
    BY DEF TensorInv
  <1> QED
    BY <1>1, NewMemory

LEMMA FillStep ==
  ASSUME TensorInv, NEW h \in Holders, NEW bytes, Fill(h, bytes)
  PROVE  TensorInv' /\ OthersUnseen
  <1> DEFINE o == object[h]
  <1>1. Usable(h) /\ mem' \in SetData(mem, object, o, bytes) /\ touched' = o /\ object' = object /\ kin' = kin
    BY DEF Fill
  <1>2. o \in Live(object) /\ o \in Objects /\ mem.heap[o].def \in TensorAttrs \cup {Nil} /\ MemType(mem)
    BY <1>1, UsableFacts DEF TensorInv
  <1> HIDE DEF o
  <1>3. /\ HasCell({kin[o]}, mem.heap[o].own) /\ HasCell({kin[o]}, mem.heap[o].td)
        /\ mem.heap[o].block # Nil => HasBlock({kin[o]}, mem.heap[o].block)
        /\ \A p \in DOMAIN mem.defs : p = mem.heap[o].def => HasBlock({kin[o]}, mem.defs[p].block)
    BY <1>2, OwnMemory DEF MemType
  <1>4. CASE mem.heap[o].def = Nil
    <2>1. mem' = SetTensorData(mem, object, o, bytes)
      BY <1>1, <1>4 DEF SetData
    <2>2. /\ MemType(mem') /\ mem'.cells = mem.cells /\ mem'.defs = mem.defs
          /\ \A x \in Objects : x # o => mem'.heap[x] = mem.heap[x]
          /\ mem'.heap[o].own = mem.heap[o].own /\ mem'.heap[o].td = mem.heap[o].td
          /\ mem'.heap[o].def = mem.heap[o].def
          /\ mem'.heap[o].block \in {Nil, mem.heap[o].block, NewBlock(mem, object)}
          /\ \A b \in Blocks : mem'.blocks[b] # mem.blocks[b] => b = mem'.heap[o].block
      BY <1>2, <2>1, NewBlockIsBlock, SetTensorDataIs
    <2>3. Nil \notin Blocks
      BY TensorsAssumption DEF Blocks
    <2>4. \A b \in Blocks : mem'.blocks[b] # mem.blocks[b] => b = NewBlock(mem, object) \/ HasBlock({kin[o]}, b)
      BY <1>3, <2>2, <2>3
    <2>5. mem'.heap[o].block # Nil =>
            mem'.heap[o].block = NewBlock(mem, object) \/ HasBlock({kin[o]}, mem'.heap[o].block)
      BY <1>3, <2>2
    <2> QED
      BY <1>1, <1>2, <1>3, <2>2, <2>4, <2>5, OnObject
  <1>5. CASE mem.heap[o].def # Nil
    <2> DEFINE p == mem.heap[o].def
    <2>1. PICK n \in SetString(mem, object, p, bytes) : mem' = BuildAlignerPtrWithProtoData(n, o)
      BY <1>1, <1>5 DEF SetData
    <2>2. p \in DOMAIN mem.defs /\ HasBlock({kin[o]}, mem.defs[p].block)
      BY <1>2, <1>5, OwnMemory
    <2>3. /\ MemType(n) /\ n.cells = mem.cells /\ n.heap = mem.heap /\ DOMAIN n.defs = DOMAIN mem.defs
          /\ \A q \in DOMAIN mem.defs : q # p => n.defs[q] = mem.defs[q]
          /\ n.defs[p].cell = mem.defs[p].cell /\ n.defs[p].block \in {mem.defs[p].block, NewBlock(mem, object)}
          /\ \A b \in Blocks : n.blocks[b] # mem.blocks[b] => b \in {mem.defs[p].block, NewBlock(mem, object)}
      BY <1>2, <2>1, <2>2, NewBlockIsBlock, SetStringIs
    <2> DEFINE t == WithBytes(n.heap[o], n.defs[p].block, n.defs[p].len)
    <2>4. mem' = n \/ mem' = WithHeap(n, o, t)
      BY <2>1, <2>3 DEF BuildAlignerPtrWithProtoData, WithHeap, WithBytes
    <2> HIDE DEF p
    <2>5. HeapType(n.heap[o], DOMAIN n.defs) /\ n.defs[p].block \in Blocks
      BY <1>2, <2>2, <2>3 DEF MemType, DefType
    <2>6. HeapType(t, DOMAIN n.defs) /\ t.own = n.heap[o].own /\ t.td = n.heap[o].td
          /\ t.block = n.defs[p].block /\ t.def = n.heap[o].def
      BY <2>5, SetBlock
    <2> HIDE DEF t
    <2>7. /\ MemType(mem') /\ mem'.cells = n.cells /\ mem'.blocks = n.blocks /\ mem'.defs = n.defs
          /\ \A x \in Objects : x # o => mem'.heap[x] = n.heap[x]
          /\ mem'.heap[o] = n.heap[o] \/ mem'.heap[o] = t
      BY <1>2, <2>3, <2>4, <2>6, PutHeap
    <2>8. /\ mem'.heap[o].own = mem.heap[o].own /\ mem'.heap[o].td = mem.heap[o].td
          /\ mem'.heap[o].def = mem.heap[o].def /\ mem'.heap[o].block \in {mem.heap[o].block, n.defs[p].block}
          /\ \A x \in Objects : x # o => mem'.heap[x] = mem.heap[x]
      BY <2>3, <2>6, <2>7
    <2>9. mem'.heap[o].block # Nil =>
            mem'.heap[o].block = NewBlock(mem, object) \/ HasBlock({kin[o]}, mem'.heap[o].block)
      BY <1>3, <2>2, <2>3, <2>8
    <2>10. \A q \in DOMAIN mem.defs :
             IF q = mem.heap[o].def
             THEN mem'.defs[q].cell = mem.defs[q].cell
                  /\ (mem'.defs[q].block = NewBlock(mem, object) \/ HasBlock({kin[o]}, mem'.defs[q].block))
             ELSE mem'.defs[q] = mem.defs[q]
      BY <2>2, <2>3, <2>7 DEF p
    <2>11. \A b \in Blocks : mem'.blocks[b] # mem.blocks[b] => b = NewBlock(mem, object) \/ HasBlock({kin[o]}, b)
      BY <2>2, <2>3, <2>7
    <2>12. mem'.cells = mem.cells /\ DOMAIN mem'.defs = DOMAIN mem.defs
      BY <2>3, <2>7
    <2> QED
      BY <1>1, <1>2, <1>3, <2>7, <2>8, <2>9, <2>10, <2>11, <2>12, OnObject
  <1> QED
    BY <1>4, <1>5

LEMMA EmptyStep ==
  ASSUME TensorInv, NEW h \in Holders, Empty(h)
  PROVE  TensorInv' /\ OthersUnseen
  <1> DEFINE o == object[h]
             p == mem.heap[o].def
             n == IF p = Nil THEN mem ELSE StringIn(mem, p, << >>)
  <1>1. Usable(h) /\ mem' = ClearTensorData(n, o) /\ touched' = o /\ object' = object /\ kin' = kin
    BY DEF Empty, ClearData
  <1>2. o \in Live(object) /\ o \in Objects /\ mem.heap[o].def \in TensorAttrs \cup {Nil} /\ MemType(mem)
    BY <1>1, UsableFacts DEF TensorInv
  <1> HIDE DEF o
  <1>3. /\ HasCell({kin[o]}, mem.heap[o].own) /\ HasCell({kin[o]}, mem.heap[o].td)
        /\ p # Nil => p \in DOMAIN mem.defs
        /\ \A q \in DOMAIN mem.defs : q = p => HasBlock({kin[o]}, mem.defs[q].block)
    BY <1>2, OwnMemory DEF MemType
  <1> HIDE DEF p
  <1>4. /\ MemType(n) /\ n.cells = mem.cells /\ n.heap = mem.heap /\ DOMAIN n.defs = DOMAIN mem.defs
        /\ \A q \in DOMAIN mem.defs :
             IF q = p THEN n.defs[q].cell = mem.defs[q].cell /\ n.defs[q].block = mem.defs[q].block
             ELSE n.defs[q] = mem.defs[q]
        /\ \A b \in Blocks : n.blocks[b] # mem.blocks[b] => HasBlock({kin[o]}, b)
    <2>1. CASE p = Nil
      <3>1. n = mem /\ \A q \in DOMAIN mem.defs : q # p
        BY <1>2, <2>1, TensorsAssumption DEF MemType
      <3> QED
        BY <1>2, <3>1
    <2>2. CASE p # Nil
      <3>1. n = StringIn(mem, p, << >>) /\ p \in DOMAIN mem.defs
        BY <1>3, <2>2
      <3> HIDE DEF n
      <3>2. /\ MemType(n) /\ n.cells = mem.cells /\ n.heap = mem.heap /\ DOMAIN n.defs = DOMAIN mem.defs
            /\ \A q \in DOMAIN mem.defs : q # p => n.defs[q] = mem.defs[q]
            /\ n.defs[p].cell = mem.defs[p].cell /\ n.defs[p].block = mem.defs[p].block
            /\ \A b \in Blocks : n.blocks[b] # mem.blocks[b] => b = mem.defs[p].block
        BY <1>2, <3>1, StringInIs
      <3> QED
        BY <1>3, <3>1, <3>2
    <2> QED
      BY <2>1, <2>2
  <1> HIDE DEF n
  <1>5. /\ MemType(mem') /\ mem'.cells = n.cells /\ mem'.blocks = n.blocks /\ mem'.defs = n.defs
        /\ \A x \in Objects : x # o => mem'.heap[x] = n.heap[x]
        /\ mem'.heap[o].own = n.heap[o].own /\ mem'.heap[o].td = n.heap[o].td
        /\ mem'.heap[o].block = Nil /\ mem'.heap[o].def = n.heap[o].def
    <2>1. MemType(n) /\ o \in Objects /\ mem' = ClearTensorData(n, o)
      BY <1>1, <1>2, <1>4
    <2> QED
      BY <2>1, ClearTensorDataIs
  <1>6. \A q \in DOMAIN mem.defs :
             IF q = mem.heap[o].def
             THEN mem'.defs[q].cell = mem.defs[q].cell
                  /\ (mem'.defs[q].block = NewBlock(mem, object) \/ HasBlock({kin[o]}, mem'.defs[q].block))
             ELSE mem'.defs[q] = mem.defs[q]
    BY <1>3, <1>4, <1>5 DEF p
  <1>7. \A b \in Blocks : mem'.blocks[b] # mem.blocks[b] => b = NewBlock(mem, object) \/ HasBlock({kin[o]}, b)
    BY <1>4, <1>5
  <1>8. /\ mem'.cells = mem.cells /\ DOMAIN mem'.defs = DOMAIN mem.defs
        /\ \A x \in Objects : x # o => mem'.heap[x] = mem.heap[x]
        /\ mem'.heap[o].own = mem.heap[o].own /\ mem'.heap[o].td = mem.heap[o].td
        /\ mem'.heap[o].def = mem.heap[o].def
    BY <1>4, <1>5
  <1> QED
    BY <1>1, <1>2, <1>3, <1>5, <1>6, <1>7, <1>8, OnObject

(* The operations on an attribute.                                            *)
LEMMA DefFacts ==
  ASSUME TensorInv, NEW p \in DOMAIN mem.defs
  PROVE  /\ p \in TensorAttrs /\ p \in Present(mem, object) /\ DefType(mem.defs[p])
         /\ HasCell({kin[p]}, mem.defs[p].cell) /\ HasBlock({kin[p]}, mem.defs[p].block)
         /\ mem.defs[p].block # Nil
  <1>1. p \in TensorAttrs /\ p \in Present(mem, object) /\ DefType(mem.defs[p])
    BY DEF TensorInv, MemType, Present
  <1>2. mem.defs[p].block # Nil
    BY <1>1, TensorsAssumption DEF DefType, Blocks
  <1> QED
    BY <1>1, <1>2 DEF HasCell, HasBlock, CellsAt, BlocksAt

LEMMA SetOldAttrStep ==
  ASSUME TensorInv, NEW p \in DOMAIN mem.defs, NEW bytes, NEW d, NEW n \in SetString(mem, object, p, bytes),
         mem' = [n EXCEPT !.cells[n.defs[p].cell] = d], object' = object, kin' = kin, touched' = p
  PROVE  TensorInv' /\ OthersUnseen
  <1>1. MemType(mem) /\ DefType(mem.defs[p]) /\ p \in Present(mem, object) /\ p \in TensorAttrs
        /\ object \in [Holders -> Objects \cup {0}]
    BY DefFacts DEF TensorInv
  <1>2. /\ MemType(n) /\ n.cells = mem.cells /\ n.heap = mem.heap /\ DOMAIN n.defs = DOMAIN mem.defs
        /\ \A q \in DOMAIN mem.defs : q # p => n.defs[q] = mem.defs[q]
        /\ n.defs[p].cell = mem.defs[p].cell /\ n.defs[p].block \in {mem.defs[p].block, NewBlock(mem, object)}
        /\ \A b \in Blocks : n.blocks[b] # mem.blocks[b] => b \in {mem.defs[p].block, NewBlock(mem, object)}
    BY <1>1, NewBlockIsBlock, SetStringIs
  <1>3. mem' = WithCell(n, mem.defs[p].cell, d) /\ mem.defs[p].cell \in Cells
    BY <1>1, <1>2 DEF WithCell, DefType
  <1>4. /\ MemType(mem') /\ mem'.heap = n.heap /\ mem'.blocks = n.blocks /\ mem'.defs = n.defs
        /\ \A x \in Cells : x # mem.defs[p].cell => mem'.cells[x] = n.cells[x]
    BY <1>2, <1>3, PutCell
  <1>5. HasCell({kin[p]}, mem.defs[p].cell) /\ HasBlock({kin[p]}, mem.defs[p].block)
    BY DefFacts
  <1>6. Present(mem', object) = Present(mem, object)
    BY <1>2, <1>4 DEF Present
  <1>7. ASSUME NEW x \in Present(mem, object), x # p PROVE EntryAt(mem', x) = EntryAt(mem, x)
    <2>1. x \in TensorAttrs => x \in DOMAIN mem.defs
      BY <1>1, PresentIsKnown
    <2> QED
      BY <1>2, <1>4, <1>7, <2>1 DEF EntryAt
  <1>8. ASSUME NEW x \in Present(mem', object), kin[x] = kin[p]
        PROVE  /\ \A c \in CellsAt(mem', x) : HasCell({kin[p]}, c)
               /\ \A b \in BlocksAt(mem', x) : b = NewBlock(mem, object) \/ HasBlock({kin[p]}, b)
    <2>1. CASE x = p
      BY <1>1, <1>2, <1>4, <1>5, <2>1 DEF CellsAt, BlocksAt
    <2>2. CASE x # p
      <3>1. CellsAt(mem', x) = CellsAt(mem, x) /\ BlocksAt(mem', x) = BlocksAt(mem, x)
        BY <1>6, <1>7, <2>2 DEF EntryAt, CellsAt, BlocksAt
      <3> QED
        BY <1>6, <1>8, <3>1 DEF HasCell, HasBlock
    <2> QED
      BY <2>1, <2>2
  <1>9. \A b \in Blocks : mem'.blocks[b] # mem.blocks[b] => b = NewBlock(mem, object) \/ HasBlock({kin[p]}, b)
    BY <1>2, <1>4, <1>5
  <1>10. \A c \in Cells : mem'.cells[c] # mem.cells[c] => HasCell({kin[p]}, c)
    BY <1>2, <1>4, <1>5
  <1>11. DOMAIN mem'.defs \subseteq DOMAIN mem.defs /\ \A o \in Live(object) : mem'.heap[o].def \in {mem.heap[o].def, Gone}
    BY <1>2, <1>4
  <1>12. \A x \in Present(mem, object) : kin[x] # kin[p] => EntryAt(mem', x) = EntryAt(mem, x)
    BY <1>7
  <1> QED
    BY <1>1, <1>4, <1>8, <1>9, <1>10, <1>11, <1>12, InPlace

AddDef(m, p, t) == [m EXCEPT !.defs = [q \in DOMAIN m.defs \cup {p} |-> IF q = p THEN t ELSE m.defs[q]]]

LEMMA AddDefIs ==
  ASSUME NEW m, MemType(m), NEW p \in TensorAttrs, NEW t, DefType(t), NEW n, n = AddDef(m, p, t)
  PROVE  /\ MemType(n) /\ n.heap = m.heap /\ n.cells = m.cells /\ n.blocks = m.blocks
         /\ DOMAIN n.defs = DOMAIN m.defs \cup {p} /\ n.defs[p] = t
         /\ \A q \in DOMAIN m.defs : q # p => n.defs[q] = m.defs[q]
  <1> DEFINE f == [q \in DOMAIN m.defs \cup {p} |-> IF q = p THEN t ELSE m.defs[q]]
  <1>1. n = [heap |-> m.heap, cells |-> m.cells, blocks |-> m.blocks, defs |-> f]
    BY DEF AddDef, MemType
  <1>2. DOMAIN f = DOMAIN m.defs \cup {p} /\ f[p] = t /\ \A q \in DOMAIN m.defs : q # p => f[q] = m.defs[q]
    OBVIOUS
  <1> HIDE DEF f
  <1>3. n.heap = m.heap /\ n.cells = m.cells /\ n.blocks = m.blocks /\ n.defs = f
        /\ n = [heap |-> n.heap, cells |-> n.cells, blocks |-> n.blocks, defs |-> n.defs]
    BY <1>1
  <1>4. ASSUME NEW o \in Objects PROVE HeapType(n.heap[o], DOMAIN n.defs)
    BY <1>2, <1>3 DEF MemType, HeapType
  <1>5. ASSUME NEW q \in DOMAIN n.defs PROVE DefType(n.defs[q])
    BY <1>2, <1>3 DEF MemType
  <1> QED
    BY <1>2, <1>3, <1>4, <1>5 DEF MemType

LEMMA NewAttrMemory ==
  ASSUME NEW m, MemType(m), NEW p \in TensorAttrs, NEW c0 \in Cells, NEW b0 \in Blocks, NEW d, NEW bytes,
         NEW t, DefType(t), NEW n, n = AddDef(WithBlock(WithCell(m, c0, d), b0, bytes), p, t)
  PROVE  /\ MemType(n) /\ n.heap = m.heap
         /\ \A c \in Cells : c # c0 => n.cells[c] = m.cells[c]
         /\ \A b \in Blocks : b # b0 => n.blocks[b] = m.blocks[b]
         /\ DOMAIN n.defs = DOMAIN m.defs \cup {p} /\ n.defs[p] = t
         /\ \A q \in DOMAIN m.defs : q # p => n.defs[q] = m.defs[q]
  <1> DEFINE m1 == WithCell(m, c0, d)
             m2 == WithBlock(m1, b0, bytes)
  <1>1. /\ MemType(m1) /\ m1.heap = m.heap /\ m1.blocks = m.blocks /\ m1.defs = m.defs
        /\ \A x \in Cells : x # c0 => m1.cells[x] = m.cells[x]
    BY PutCell
  <1> HIDE DEF m1
  <1>2. /\ MemType(m2) /\ m2.heap = m1.heap /\ m2.cells = m1.cells /\ m2.defs = m1.defs
        /\ \A x \in Blocks : x # b0 => m2.blocks[x] = m1.blocks[x]
    BY <1>1, PutBlock
  <1>3. n = AddDef(m2, p, t)
    BY DEF m1
  <1> HIDE DEF m2
  <1>4. /\ MemType(n) /\ n.heap = m2.heap /\ n.cells = m2.cells /\ n.blocks = m2.blocks
        /\ DOMAIN n.defs = DOMAIN m2.defs \cup {p} /\ n.defs[p] = t
        /\ \A q \in DOMAIN m2.defs : q # p => n.defs[q] = m2.defs[q]
    <2>1. MemType(m2)
      BY <1>2
    <2> QED
      BY <1>3, <2>1, AddDefIs
  <1> QED
    BY <1>1, <1>2, <1>4

LEMMA SetNewAttrStep ==
  ASSUME TensorInv, NEW p \in TensorAttrs, p \notin DOMAIN mem.defs, NEW d, NEW bytes, NEW l, NEW fam,
         NEW c0, c0 = NewCell(mem, object), NEW b0, b0 = NewBlock(mem, object),
         NEW t, t = [cell |-> c0, block |-> b0, len |-> l],
         mem' = AddDef(WithBlock(WithCell(mem, c0, d), b0, bytes), p, t),
         object' = object, kin' = [kin EXCEPT ![p] = fam], touched' = p
  PROVE  TensorInv' /\ OthersUnseen
  <1> DEFINE D == {fam}
             NC == {c0}
             NB == {b0}
  <1>1. MemType(mem) /\ object \in [Holders -> Objects \cup {0}] /\ DOMAIN kin = Objects \cup TensorAttrs
        /\ object = [h \in Holders |-> object[h]] /\ DOMAIN object = Holders
    BY DEF TensorInv
  <1>2. c0 \in Cells \ CellsUsed(mem, object) /\ b0 \in Blocks \ BlocksUsed(mem, object)
    BY <1>1, NewMemory
  <1>3. \A x \in Present(mem, object) : CellsAt(mem, x) \cap NC = {} /\ BlocksAt(mem, x) \cap NB = {}
    BY <1>1, <1>2, NobodysMemory
  <1>13. DefType(t) /\ t.cell = c0 /\ t.block = b0
    BY <1>2 DEF DefType
  <1>6. /\ MemType(mem') /\ mem'.heap = mem.heap
        /\ \A c \in Cells : c # c0 => mem'.cells[c] = mem.cells[c]
        /\ \A b \in Blocks : b # b0 => mem'.blocks[b] = mem.blocks[b]
        /\ DOMAIN mem'.defs = DOMAIN mem.defs \cup {p} /\ mem'.defs[p] = t
        /\ \A q \in DOMAIN mem.defs : q # p => mem'.defs[q] = mem.defs[q]
    BY <1>1, <1>2, <1>13, NewAttrMemory
  <1>5. /\ mem'.heap = mem.heap
        /\ \A c \in Cells : c # c0 => mem'.cells[c] = mem.cells[c]
        /\ \A b \in Blocks : b # b0 => mem'.blocks[b] = mem.blocks[b]
        /\ DOMAIN mem'.defs = DOMAIN mem.defs \cup {p}
        /\ mem'.defs[p].cell = c0 /\ mem'.defs[p].block = b0
        /\ \A q \in DOMAIN mem.defs : mem'.defs[q] = mem.defs[q]
    BY <1>6, <1>13
  <1>7. kin'[p] = fam /\ DOMAIN kin' = DOMAIN kin /\ \A x \in Objects \cup TensorAttrs : x # p => kin'[x] = kin[x]
    BY <1>1
  <1>8. Standing(mem', object', kin')
    <2> SUFFICES ASSUME NEW x \in Live(object), mem.heap[x].def \in TensorAttrs
                 PROVE  kin'[x] = kin'[mem.heap[x].def]
      BY <1>5 DEF Standing
    <2>1. mem.heap[x].def \in DOMAIN mem.defs /\ x \in Objects /\ x \notin TensorAttrs
      BY OwnMemory
    <2> QED
      BY <1>7, <2>1 DEF TensorInv, Standing
  <1>9. ASSUME NEW x \in Present(mem', object'), x # p
        PROVE  /\ x \in Present(mem, object) /\ kin'[x] = kin[x] /\ EntryAt(mem', x) = EntryAt(mem, x)
               /\ CellsAt(mem', x) = CellsAt(mem, x) /\ BlocksAt(mem', x) = BlocksAt(mem, x)
    <2>1. x \in Present(mem, object)
      BY <1>5, <1>9 DEF Present
    <2>2. x \in Objects \cup TensorAttrs /\ (x \in TensorAttrs => x \in DOMAIN mem.defs)
      BY <1>1, <2>1, PresentIsKnown
    <2>3. EntryAt(mem', x) = EntryAt(mem, x)
      BY <1>5, <2>2 DEF EntryAt
    <2> QED
      BY <1>7, <1>9, <2>1, <2>2, <2>3 DEF EntryAt, CellsAt, BlocksAt
  <1>10. ASSUME NEW x \in Present(mem', object'), kin'[x] = fam
         PROVE  /\ \A c \in CellsAt(mem', x) : c \in NC \/ HasCell(D, c)
                /\ \A b \in BlocksAt(mem', x) : b \in NB \/ HasBlock(D, b)
    <2>1. CASE x = p
      BY <1>5, <2>1 DEF CellsAt, BlocksAt
    <2>2. CASE x # p
      BY <1>9, <1>10, <2>2 DEF HasCell, HasBlock
    <2> QED
      BY <2>1, <2>2
  <1>11. StepIsLocal(D, NC, NB)
    <2>1. kin'[touched'] = fam
      BY <1>7
    <2>2. ASSUME NEW x \in Present(mem', object'), kin'[x] # fam
          PROVE  /\ x \in Present(mem, object) /\ kin'[x] = kin[x] /\ kin[x] \notin D
                 /\ EntryAt(mem', x) = EntryAt(mem, x)
                 /\ CellsAt(mem, x) \cap NC = {} /\ BlocksAt(mem, x) \cap NB = {}
      BY <1>3, <1>7, <1>9, <2>2
    <2>3. \A c \in Cells : mem'.cells[c] # mem.cells[c] => c \in NC \/ HasCell(D, c)
      BY <1>5
    <2>4. \A b \in Blocks : mem'.blocks[b] # mem.blocks[b] => b \in NB \/ HasBlock(D, b)
      BY <1>5
    <2> HIDE DEF D, NC, NB
    <2> QED
      BY <1>10, <2>1, <2>2, <2>3, <2>4 DEF StepIsLocal
  <1> HIDE DEF D, NC, NB
  <1> QED
    BY <1>1, <1>6, <1>7, <1>8, <1>11, LocalStep

LEMMA NewAttr ==
  ASSUME TensorInv, NEW h, NEW p, SetTensorAttr(p, h), p \notin DOMAIN mem.defs
  PROVE  \E d, bytes :
            mem' = AddDef(WithBlock(WithCell(mem, NewCell(mem, object), d), NewBlock(mem, object), bytes), p,
                          [cell |-> NewCell(mem, object), block |-> NewBlock(mem, object), len |-> Len(bytes)])
  <1> DEFINE r == mem.heap[object[h]]
             d == IF r.def # Nil THEN mem.cells[mem.defs[r.def].cell] ELSE mem.cells[r.td]
             bytes == IF r.def # Nil THEN SubSeq(mem.blocks[mem.defs[r.def].block], 1, mem.defs[r.def].len)
                      ELSE GetData(mem, object[h])
  <1>1. mem' = [mem EXCEPT !.cells[NewCell(mem, object)] = d, !.blocks[NewBlock(mem, object)] = bytes,
                           !.defs = [q \in DOMAIN mem.defs \cup {p} |->
                                       IF q = p THEN [cell |-> NewCell(mem, object),
                                                      block |-> NewBlock(mem, object), len |-> Len(bytes)]
                                       ELSE mem.defs[q]]]
    BY DEF SetTensorAttr
  <1> HIDE DEF r, d, bytes
  <1> DEFINE c0 == NewCell(mem, object)
             b0 == NewBlock(mem, object)
             t == [cell |-> c0, block |-> b0, len |-> Len(bytes)]
  <1>2. mem' = AddDef(WithBlock(WithCell(mem, c0, d), b0, bytes), p, t)
    <2>1. mem = [heap |-> mem.heap, cells |-> mem.cells, blocks |-> mem.blocks, defs |-> mem.defs]
      BY DEF TensorInv, MemType
    <2> HIDE DEF c0, b0, t
    <2>2. mem' = [mem EXCEPT !.cells[c0] = d, !.blocks[b0] = bytes,
                             !.defs = [q \in DOMAIN mem.defs \cup {p} |-> IF q = p THEN t ELSE mem.defs[q]]]
      BY <1>1 DEF c0, b0, t
    <2> QED
      BY <2>1, <2>2 DEF AddDef, WithBlock, WithCell
  <1> QED
    BY <1>2

LEMMA SetTensorAttrStep ==
  ASSUME TensorInv, NEW h \in Holders, NEW p \in TensorAttrs, SetTensorAttr(p, h)
  PROVE  TensorInv' /\ OthersUnseen
  <1>1. CASE p \notin DOMAIN mem.defs
    <2>1. object' = object /\ touched' = p /\ kin' = [kin EXCEPT ![p] = FreshFamily]
      BY <1>1 DEF SetTensorAttr
    <2>2. PICK d, bytes :
            mem' = AddDef(WithBlock(WithCell(mem, NewCell(mem, object), d), NewBlock(mem, object), bytes), p,
                          [cell |-> NewCell(mem, object), block |-> NewBlock(mem, object), len |-> Len(bytes)])
      BY <1>1, NewAttr
    <2> QED
      BY <1>1, <2>1, <2>2, SetNewAttrStep
  <1>2. CASE p \in DOMAIN mem.defs
    <2>1. PICK d, bytes : \E n \in SetString(mem, object, p, bytes) : mem' = [n EXCEPT !.cells[n.defs[p].cell] = d]
      BY <1>2 DEF SetTensorAttr
    <2>2. object' = object /\ kin' = kin /\ touched' = p
      BY <1>2 DEF SetTensorAttr
    <2> QED
      BY <1>2, <2>1, <2>2, SetOldAttrStep
  <1> QED
    BY <1>1, <1>2

LEMMA DelTensorAttrStep ==
  ASSUME TensorInv, NEW p \in TensorAttrs, DelTensorAttr(p)
  PROVE  TensorInv' /\ OthersUnseen
  <1>1. p \in DOMAIN mem.defs /\ object' = object /\ kin' = kin /\ touched' = p
    BY DEF DelTensorAttr
  <1>2. MemType(mem) /\ DefType(mem.defs[p]) /\ p \in Present(mem, object)
        /\ object \in [Holders -> Objects \cup {0}]
        /\ HasCell({kin[p]}, mem.defs[p].cell) /\ HasBlock({kin[p]}, mem.defs[p].block)
    BY <1>1, DefFacts DEF TensorInv
  <1> DEFINE c0 == mem.defs[p].cell
             b0 == mem.defs[p].block
  <1>3. mem' = [heap |-> [o \in Objects |-> IF mem.heap[o].def = p THEN [mem.heap[o] EXCEPT !.def = Gone] ELSE mem.heap[o]],
                cells |-> [mem.cells EXCEPT ![c0] = Gone], blocks |-> [mem.blocks EXCEPT ![b0] = Gone],
                defs |-> [q \in DOMAIN mem.defs \ {p} |-> mem.defs[q]]]
    BY <1>2 DEF DelTensorAttr, MemType
  <1> HIDE DEF c0, b0
  <1>4. /\ DOMAIN mem'.heap = Objects /\ DOMAIN mem'.cells = Cells /\ DOMAIN mem'.blocks = Blocks
        /\ \A c \in Cells : c # c0 => mem'.cells[c] = mem.cells[c]
        /\ \A b \in Blocks : b # b0 => mem'.blocks[b] = mem.blocks[b]
        /\ DOMAIN mem'.defs = DOMAIN mem.defs \ {p}
        /\ \A q \in DOMAIN mem'.defs : mem'.defs[q] = mem.defs[q]
        /\ \A o \in Objects : mem.heap[o].def # p => mem'.heap[o] = mem.heap[o]
        /\ \A o \in Objects : mem.heap[o].def = p => mem'.heap[o] = [mem.heap[o] EXCEPT !.def = Gone]
    BY <1>2, <1>3 DEF MemType
  <1>5. ASSUME NEW o \in Objects
        PROVE  /\ HeapType(mem'.heap[o], DOMAIN mem'.defs) /\ mem'.heap[o].def \in {mem.heap[o].def, Gone}
               /\ mem'.heap[o].own = mem.heap[o].own /\ mem'.heap[o].td = mem.heap[o].td
               /\ mem'.heap[o].block = mem.heap[o].block
    <2>1. HeapType(mem.heap[o], DOMAIN mem.defs)
      BY <1>2 DEF MemType
    <2>2. CASE mem.heap[o].def = p
      <3>1. mem'.heap[o] = [mem.heap[o] EXCEPT !.def = Gone]
        BY <1>4, <2>2
      <3> QED
        BY <2>1, <3>1 DEF HeapType
    <2>3. CASE mem.heap[o].def # p
      BY <1>4, <2>1, <2>3 DEF HeapType
    <2> QED
      BY <2>2, <2>3
  <1>6. MemType(mem')
    <2>1. \A q \in DOMAIN mem'.defs : DefType(mem'.defs[q])
      BY <1>2, <1>4 DEF MemType
    <2>2. mem' = [heap |-> mem'.heap, cells |-> mem'.cells, blocks |-> mem'.blocks, defs |-> mem'.defs]
      BY <1>3
    <2> QED
      BY <1>2, <1>4, <1>5, <2>1, <2>2 DEF MemType
  <1>7. ASSUME NEW x \in Present(mem, object), kin[x] # kin[p] PROVE EntryAt(mem', x) = EntryAt(mem, x)
    <2>1. CASE x \in TensorAttrs
      <3>1. x \in DOMAIN mem'.defs
        BY <1>2, <1>4, <1>7, <2>1, PresentIsKnown
      <3> QED
        BY <1>4, <2>1, <3>1 DEF EntryAt
    <2>2. CASE x \notin TensorAttrs
      <3>1. x \in Live(object) /\ x \in Objects
        BY <1>2, <2>2, PresentIsKnown
      <3>2. mem.heap[x].def # p
        BY <1>7, <3>1, OwnMemory
      <3> QED
        BY <1>4, <2>2, <3>1, <3>2 DEF EntryAt
    <2> QED
      BY <2>1, <2>2
  <1>8. ASSUME NEW x \in Present(mem', object), kin[x] = kin[p]
        PROVE  /\ \A c \in CellsAt(mem', x) : HasCell({kin[p]}, c)
               /\ \A b \in BlocksAt(mem', x) : b = NewBlock(mem, object) \/ HasBlock({kin[p]}, b)
    <2>1. x \in Present(mem, object)
      BY <1>4, <1>8 DEF Present
    <2>2. x \in TensorAttrs => x \in DOMAIN mem'.defs
      BY <1>2, <1>6, <1>8, PresentIsKnown
    <2>3. x \notin TensorAttrs => x \in Objects
      BY <1>2, <2>1, PresentIsKnown
    <2>4. CellsAt(mem', x) = CellsAt(mem, x) /\ BlocksAt(mem', x) = BlocksAt(mem, x)
      BY <1>4, <1>5, <2>2, <2>3 DEF CellsAt, BlocksAt
    <2> QED
      BY <1>8, <2>1, <2>4 DEF HasCell, HasBlock
  <1>9. \A b \in Blocks : mem'.blocks[b] # mem.blocks[b] => b = NewBlock(mem, object) \/ HasBlock({kin[p]}, b)
    BY <1>2, <1>4 DEF b0
  <1>10. \A c \in Cells : mem'.cells[c] # mem.cells[c] => HasCell({kin[p]}, c)
    BY <1>2, <1>4 DEF c0
  <1>11. DOMAIN mem'.defs \subseteq DOMAIN mem.defs /\ \A o \in Live(object) : mem'.heap[o].def \in {mem.heap[o].def, Gone}
    BY <1>2, <1>4, <1>5, PresentIsKnown
  <1>12. \A x \in Present(mem, object) : kin[x] # kin[p] => EntryAt(mem', x) = EntryAt(mem, x)
    BY <1>7
  <1> QED
    BY <1>1, <1>2, <1>6, <1>8, <1>9, <1>10, <1>11, <1>12, InPlace
-----------------------------------------------------------------------------
(* New tensors, copies, clones and assignments.                               *)
LEMMA ConstructedIs ==
  ASSUME NEW m, MemType(m), NEW at, NEW o \in Objects, NEW c0 \in Cells, c0 = NewCell(m, at), NEW d,
         NEW n, n = Constructed(m, at, o, d)
  PROVE  /\ MemType(n) /\ n.blocks = m.blocks /\ n.defs = m.defs
         /\ \A x \in Objects : x # o => n.heap[x] = m.heap[x]
         /\ n.heap[o] = [def |-> Nil, own |-> c0, td |-> c0, block |-> Nil, len |-> 0]
         /\ \A c \in Cells : c # c0 => n.cells[c] = m.cells[c]
  <1> DEFINE t == [def |-> Nil, own |-> c0, td |-> c0, block |-> Nil, len |-> 0]
             k == WithCell(m, c0, d)
  <1>1. /\ MemType(k) /\ k.heap = m.heap /\ k.blocks = m.blocks /\ k.defs = m.defs
        /\ \A x \in Cells : x # c0 => k.cells[x] = m.cells[x]
    BY PutCell
  <1>2. HeapType(t, DOMAIN m.defs)
    BY DEF HeapType
  <1>3. n = WithHeap(k, o, t)
    BY DEF Constructed, MemType, WithCell, WithHeap
  <1> HIDE DEF k, t
  <1>4. /\ MemType(n) /\ n.cells = k.cells /\ n.blocks = k.blocks /\ n.defs = k.defs
        /\ n.heap[o] = t /\ \A x \in Objects : x # o => n.heap[x] = k.heap[x]
    BY <1>1, <1>2, <1>3, PutHeap
  <1> QED
    BY <1>1, <1>4 DEF t

LEMMA AssignToIs ==
  ASSUME NEW m, MemType(m), NEW o \in Objects, NEW from \in Objects, o # from,
         NEW n, n = AssignTo(m, o, from)
  PROVE  /\ MemType(n) /\ n.blocks = m.blocks /\ n.defs = m.defs
         /\ \A x \in Objects : x # o => n.heap[x] = m.heap[x]
         /\ n.heap[o].own = m.heap[o].own /\ n.heap[o].td = m.heap[from].td
         /\ n.heap[o].block = m.heap[from].block
         /\ n.heap[o].def \in {m.heap[from].def, m.heap[o].def}
         /\ \A c \in Cells : c # m.heap[o].own => n.cells[c] = m.cells[c]
  <1> DEFINE c0 == m.heap[o].own
             d == m.cells[m.heap[from].own]
             k == WithCell(m, c0, d)
             q == IF m.heap[from].def # Nil THEN m.heap[from].def ELSE m.heap[o].def
             t == [m.heap[from] EXCEPT !.own = c0, !.def = q]
  <1>1. HeapType(m.heap[o], DOMAIN m.defs) /\ HeapType(m.heap[from], DOMAIN m.defs)
    BY DEF MemType
  <1>2. c0 \in Cells /\ q \in DOMAIN m.defs \cup {Nil, Gone} /\ q \in {m.heap[from].def, m.heap[o].def}
    BY <1>1 DEF HeapType
  <1>3. n = WithHeap(k, o, t)
    BY DEF AssignTo, MemType, WithCell, WithHeap
  <1> HIDE DEF c0, d, q
  <1> DEFINE r == m.heap[from]
  <1>4. /\ HeapType(t, DOMAIN m.defs) /\ t.own = c0 /\ t.td = r.td /\ t.block = r.block /\ t.def = q
    <2>1. t = [r EXCEPT !.own = c0, !.def = q] /\ HeapType(r, DOMAIN m.defs)
      BY <1>1
    <2> HIDE DEF r, t
    <2> QED
      BY <1>2, <2>1 DEF HeapType
  <1>5. /\ MemType(k) /\ k.heap = m.heap /\ k.blocks = m.blocks /\ k.defs = m.defs
        /\ \A x \in Cells : x # c0 => k.cells[x] = m.cells[x]
    BY <1>2, PutCell
  <1> HIDE DEF k, t
  <1>6. /\ MemType(n) /\ n.cells = k.cells /\ n.blocks = k.blocks /\ n.defs = k.defs
        /\ n.heap[o] = t /\ \A x \in Objects : x # o => n.heap[x] = k.heap[x]
    BY <1>3, <1>4, <1>5, PutHeap
  <1> QED
    BY <1>2, <1>4, <1>5, <1>6 DEF c0

LEMMA Beginning ==
  ASSUME TensorInv, NEW h \in Holders, NEW o, o = Fresh(h)
  PROVE  /\ MemType(mem) /\ o \in Objects /\ o \notin Live(Rehold(h))
         /\ NewCell(mem, Rehold(h)) \in Cells /\ NewBlock(mem, Rehold(h)) \in Blocks
         /\ \A g \in Holders : g # h /\ object[g] # 0 => object[g] # o
         /\ Live(Rehold(h)) \subseteq Objects
  <1>1. MemType(mem) /\ object \in [Holders -> Objects \cup {0}]
    BY DEF TensorInv
  <1>2. Rehold(h) \in [Holders -> Objects \cup {0}] /\ Rehold(h) = [g \in Holders |-> Rehold(h)[g]]
        /\ DOMAIN Rehold(h) = Holders /\ \A g \in Holders : g # h => Rehold(h)[g] = object[g]
    BY <1>1 DEF Rehold
  <1>3. o \in Objects /\ o \notin Live(Rehold(h))
    BY <1>1, NewObject
  <1>4. \A g \in Holders : g # h /\ object[g] # 0 => object[g] \in Live(Rehold(h))
    BY <1>2 DEF Live
  <1>5. NewCell(mem, Rehold(h)) \in Cells /\ NewBlock(mem, Rehold(h)) \in Blocks
    BY <1>1, <1>2, NewMemory
  <1> QED
    BY <1>1, <1>2, <1>3, <1>4, <1>5, PresentIsKnown

LEMMA SameBlock ==
  ASSUME NEW m, NEW n, NEW at, Live(at) \subseteq Objects, NEW o, o \notin Live(at), n.defs = m.defs,
         \A x \in Objects : x # o => n.heap[x] = m.heap[x]
  PROVE  NewBlock(n, at) = NewBlock(m, at)
  <1>1. \A x \in Live(at) : n.heap[x].block = m.heap[x].block
    OBVIOUS
  <1>2. BlocksUsed(n, at) = BlocksUsed(m, at)
    BY <1>1 DEF BlocksUsed
  <1> QED
    BY <1>2 DEF NewBlock

(* GeTensor() with data, and Clone(): nothing of it is shared.                *)
LEMMA WithDataStep ==
  ASSUME TensorInv, NEW h \in Holders, NEW o, NEW d, NEW bytes, NEW fam, Begins(h, o, fam),
         mem' = SetTensorData(Constructed(mem, Rehold(h), o, d), Rehold(h), o, bytes)
  PROVE  TensorInv' /\ OthersUnseen
  <1> DEFINE at == Rehold(h)
             n == Constructed(mem, at, o, d)
             c0 == NewCell(mem, at)
             b0 == NewBlock(mem, at)
  <1>1. /\ MemType(mem) /\ o \in Objects /\ o \notin Live(at) /\ Live(at) \subseteq Objects
        /\ c0 \in Cells /\ b0 \in Blocks
    BY Beginning DEF Begins
  <1>2. mem' = SetTensorData(n, at, o, bytes)
    OBVIOUS
  <1>3. /\ MemType(n) /\ n.blocks = mem.blocks /\ n.defs = mem.defs
        /\ \A x \in Objects : x # o => n.heap[x] = mem.heap[x]
        /\ n.heap[o] = [def |-> Nil, own |-> c0, td |-> c0, block |-> Nil, len |-> 0]
        /\ \A c \in Cells : c # c0 => n.cells[c] = mem.cells[c]
    BY <1>1, ConstructedIs
  <1> HIDE DEF n
  <1>4. NewBlock(n, at) = b0
    <2> HIDE DEF at
    <2> QED
      BY <1>1, <1>3, SameBlock
  <1>5. /\ MemType(mem') /\ mem'.cells = n.cells /\ mem'.defs = n.defs
        /\ \A x \in Objects : x # o => mem'.heap[x] = n.heap[x]
        /\ mem'.heap[o].own = n.heap[o].own /\ mem'.heap[o].td = n.heap[o].td /\ mem'.heap[o].def = n.heap[o].def
        /\ mem'.heap[o].block \in {Nil, n.heap[o].block, NewBlock(n, at)}
        /\ \A b \in Blocks : mem'.blocks[b] # n.blocks[b] => b = mem'.heap[o].block
    <2> HIDE DEF at
    <2>1. NewBlock(n, at) \in Blocks
      BY <1>1, <1>4
    <2> QED
      BY <1>1, <1>2, <1>3, <2>1, SetTensorDataIs
  <1>6. mem'.heap[o].own = c0 /\ mem'.heap[o].td = c0 /\ mem'.heap[o].def = Nil /\ mem'.heap[o].block \in {Nil, b0}
    BY <1>3, <1>4, <1>5
  <1>7. Nil \notin TensorAttrs /\ Nil \notin Blocks
    BY TensorsAssumption DEF Blocks
  <1>8. \A c \in Cells : mem'.cells[c] # mem.cells[c] => c = c0
    BY <1>3, <1>5
  <1>9. \A b \in Blocks : mem'.blocks[b] # mem.blocks[b] => b = b0
    BY <1>3, <1>5, <1>6, <1>7
  <1>10. mem'.defs = mem.defs /\ \A x \in Objects : x # o => mem'.heap[x] = mem.heap[x]
    BY <1>3, <1>5
  <1>11. /\ \A c \in {mem'.heap[o].own, mem'.heap[o].td} : c = NewCell(mem, Rehold(h)) \/ HasCell({fam}, c)
         /\ mem'.heap[o].block \notin {Nil, NewBlock(mem, Rehold(h))} => HasBlock({fam}, mem'.heap[o].block)
         /\ mem'.heap[o].def \in TensorAttrs => kin[mem'.heap[o].def] = fam
    BY <1>6, <1>7
  <1>12. MemType(mem')
    BY <1>5
  <1> HIDE DEF c0, b0, at
  <1> QED
    BY <1>8, <1>9, <1>10, <1>11, <1>12, NewOne DEF c0, b0, at

LEMMA NewTensorStep ==
  ASSUME TensorInv, NEW h \in Holders, NEW d, NEW bytes, NewTensor(h, d, bytes)
  PROVE  TensorInv' /\ OthersUnseen
  <1>1. /\ mem' = SetTensorData(Constructed(mem, Rehold(h), Fresh(h), d), Rehold(h), Fresh(h), bytes)
        /\ Begins(h, Fresh(h), FreshFamily)
    BY DEF NewTensor, Placed, Begins
  <1> QED
    BY <1>1, WithDataStep

LEMMA CloneTensorStep ==
  ASSUME TensorInv, NEW h \in Holders, NEW g \in Holders, CloneTensor(h, g)
  PROVE  TensorInv' /\ OthersUnseen
  <1> DEFINE d == mem.cells[mem.heap[object[g]].own]
             bytes == GetData(mem, object[g])
             o == Fresh(h)
  <1>1. /\ mem' = SetTensorData(Constructed(mem, Rehold(h), o, d), Rehold(h), o, bytes)
        /\ Begins(h, o, FreshFamily)
    BY DEF CloneTensor, Clone, Placed, Begins
  <1> HIDE DEF d, bytes, o
  <1> QED
    BY <1>1, WithDataStep

(* The copy of g's object: its own description, and the rest shared.          *)
LEMMA SharingStep ==
  ASSUME TensorInv, NEW h \in Holders, NEW g \in Holders, Usable(g), NEW o,
         NEW from, from = object[g], NEW fam, fam = kin[from], Begins(h, o, fam),
         MemType(mem'), mem'.defs = mem.defs, mem'.blocks = mem.blocks,
         \A x \in Objects : x # o => mem'.heap[x] = mem.heap[x],
         mem'.heap[o].own = NewCell(mem, Rehold(h)), mem'.heap[o].td = mem.heap[from].td,
         mem'.heap[o].block = mem.heap[from].block, mem'.heap[o].def \in {mem.heap[from].def, Nil},
         \A c \in Cells : mem'.cells[c] # mem.cells[c] => c = NewCell(mem, Rehold(h))
  PROVE  TensorInv' /\ OthersUnseen
  <1>1. from \in Live(object)
    BY UsableFacts
  <1>2. /\ HasCell({kin[from]}, mem.heap[from].td)
        /\ mem.heap[from].block # Nil => HasBlock({kin[from]}, mem.heap[from].block)
        /\ mem.heap[from].def \in TensorAttrs => kin[mem.heap[from].def] = kin[from]
    BY <1>1, OwnMemory
  <1>3. mem'.heap[o].def \in TensorAttrs => kin[mem'.heap[o].def] = kin[from]
    BY <1>2, TensorsAssumption
  <1>4. /\ HasCell({fam}, mem.heap[from].td)
        /\ mem.heap[from].block # Nil => HasBlock({fam}, mem.heap[from].block)
        /\ mem'.heap[o].def \in TensorAttrs => kin[mem'.heap[o].def] = fam
    BY <1>2, <1>3
  <1> QED
    BY <1>4, NewOne

LEMMA CopyTensorStep ==
  ASSUME TensorInv, NEW h \in Holders, NEW g \in Holders, CopyTensor(h, g)
  PROVE  TensorInv' /\ OthersUnseen
  <1> DEFINE at == Rehold(h)
             o == Fresh(h)
             from == object[g]
             c0 == NewCell(mem, at)
             d == mem.cells[mem.heap[from].own]
             n == Constructed(mem, at, o, d)
             t == [mem.heap[from] EXCEPT !.own = c0]
  <1>1. g # h /\ Usable(g) /\ Begins(h, o, kin[from]) /\ mem' = CopyConstruct(mem, at, o, from)
    BY DEF CopyTensor, Placed, Begins
  <1>2. /\ MemType(mem) /\ o \in Objects /\ c0 \in Cells
    BY Beginning
  <1>3. HeapType(mem.heap[from], DOMAIN mem.defs)
    BY <1>1, UsableFacts DEF TensorInv, MemType
  <1>4. mem' = [n EXCEPT !.heap[o] = [mem.heap[from] EXCEPT !.own = n.heap[o].own]]
    BY <1>1 DEF CopyConstruct
  <1>5. from = object[g]
    OBVIOUS
  <1> HIDE DEF o, d, from
  <1>6. /\ MemType(n) /\ n.blocks = mem.blocks /\ n.defs = mem.defs
        /\ \A x \in Objects : x # o => n.heap[x] = mem.heap[x]
        /\ n.heap[o] = [def |-> Nil, own |-> c0, td |-> c0, block |-> Nil, len |-> 0]
        /\ \A c \in Cells : c # c0 => n.cells[c] = mem.cells[c]
    BY <1>2, ConstructedIs
  <1> HIDE DEF n
  <1>7. mem' = WithHeap(n, o, t)
    BY <1>4, <1>6 DEF WithHeap
  <1>8. HeapType(t, DOMAIN n.defs) /\ t.own = c0 /\ t.td = mem.heap[from].td
        /\ t.block = mem.heap[from].block /\ t.def = mem.heap[from].def
    BY <1>2, <1>3, <1>6, SetOwn
  <1> HIDE DEF t
  <1>9. /\ MemType(mem') /\ mem'.cells = n.cells /\ mem'.blocks = n.blocks /\ mem'.defs = n.defs
        /\ mem'.heap[o] = t /\ \A x \in Objects : x # o => mem'.heap[x] = n.heap[x]
    BY <1>2, <1>6, <1>7, <1>8, PutHeap
  <1>10. \A x \in Objects : x # o => mem'.heap[x] = mem.heap[x]
    BY <1>6, <1>9
  <1>11. \A c \in Cells : mem'.cells[c] # mem.cells[c] => c = NewCell(mem, Rehold(h))
    BY <1>6, <1>9
  <1>12. mem'.defs = mem.defs /\ mem'.blocks = mem.blocks
    BY <1>6, <1>9
  <1>13. /\ mem'.heap[o].own = NewCell(mem, Rehold(h)) /\ mem'.heap[o].td = mem.heap[from].td
         /\ mem'.heap[o].block = mem.heap[from].block /\ mem'.heap[o].def \in {mem.heap[from].def, Nil}
    BY <1>8, <1>9
  <1> QED
    BY <1>1, <1>5, <1>9, <1>10, <1>11, <1>12, <1>13, SharingStep

LEMMA AsTensorStep ==
  ASSUME TensorInv, NEW h \in Holders, NEW g \in Holders, AsTensor(h, g)
  PROVE  TensorInv' /\ OthersUnseen
  <1> DEFINE at == Rehold(h)
             o == Fresh(h)
             from == object[g]
             c0 == NewCell(mem, at)
             n == Constructed(mem, at, o, NewDesc)
  <1>1. g # h /\ Usable(g) /\ Begins(h, o, kin[from]) /\ mem' = AssignTo(n, o, from)
    BY DEF AsTensor, Placed, Begins
  <1>2. /\ MemType(mem) /\ o \in Objects /\ c0 \in Cells
        /\ \A k \in Holders : k # h /\ object[k] # 0 => object[k] # o
    BY Beginning
  <1>3. from \in Objects /\ from # o
    BY <1>1, <1>2, UsableFacts DEF Usable
  <1>4. from = object[g]
    OBVIOUS
  <1> HIDE DEF o, from
  <1>6. /\ MemType(n) /\ n.blocks = mem.blocks /\ n.defs = mem.defs
        /\ \A x \in Objects : x # o => n.heap[x] = mem.heap[x]
        /\ n.heap[o] = [def |-> Nil, own |-> c0, td |-> c0, block |-> Nil, len |-> 0]
        /\ \A c \in Cells : c # c0 => n.cells[c] = mem.cells[c]
    BY <1>2, ConstructedIs
  <1> HIDE DEF n
  <1>7. /\ MemType(mem') /\ mem'.blocks = n.blocks /\ mem'.defs = n.defs
        /\ \A x \in Objects : x # o => mem'.heap[x] = n.heap[x]
        /\ mem'.heap[o].own = n.heap[o].own /\ mem'.heap[o].td = n.heap[from].td
        /\ mem'.heap[o].block = n.heap[from].block
        /\ mem'.heap[o].def \in {n.heap[from].def, n.heap[o].def}
        /\ \A c \in Cells : c # n.heap[o].own => mem'.cells[c] = n.cells[c]
    <2>1. MemType(n) /\ mem' = AssignTo(n, o, from) /\ o # from /\ o \in Objects /\ from \in Objects
      BY <1>1, <1>2, <1>3, <1>6
    <2> QED
      BY <2>1, AssignToIs
  <1>8. n.heap[o].own = c0 /\ n.heap[o].def = Nil /\ n.heap[from] = mem.heap[from]
    BY <1>3, <1>6
  <1>10. \A x \in Objects : x # o => mem'.heap[x] = mem.heap[x]
    BY <1>6, <1>7
  <1>11. \A c \in Cells : mem'.cells[c] # mem.cells[c] => c = NewCell(mem, Rehold(h))
    BY <1>6, <1>7, <1>8
  <1>12. mem'.defs = mem.defs /\ mem'.blocks = mem.blocks
    BY <1>6, <1>7
  <1>13. /\ mem'.heap[o].own = NewCell(mem, Rehold(h)) /\ mem'.heap[o].td = mem.heap[from].td
         /\ mem'.heap[o].block = mem.heap[from].block /\ mem'.heap[o].def \in {mem.heap[from].def, Nil}
    BY <1>7, <1>8
  <1> QED
    BY <1>1, <1>4, <1>7, <1>10, <1>11, <1>12, <1>13, SharingStep

LEMMA GetTensorAttrStep ==
  ASSUME TensorInv, NEW h \in Holders, NEW p \in TensorAttrs, GetTensorAttr(h, p)
  PROVE  TensorInv' /\ OthersUnseen
  <1> DEFINE o == Fresh(h)
             d == mem.defs[p]
             t == [def |-> p, own |-> d.cell, td |-> d.cell, block |-> d.block, len |-> d.len]
             fam == kin[p]
  <1>1. p \in DOMAIN mem.defs /\ Begins(h, o, fam) /\ mem' = WithHeap(mem, o, t)
    BY DEF GetTensorAttr, Placed, WithHeap, Begins
  <1>2. o \in Objects /\ MemType(mem)
    BY Beginning
  <1>3. DefType(d) /\ HasCell({fam}, d.cell) /\ HasBlock({fam}, d.block)
    BY <1>1, DefFacts
  <1>4. HeapType(t, DOMAIN mem.defs) /\ t.own = d.cell /\ t.td = d.cell /\ t.block = d.block /\ t.def = p
    BY <1>1, <1>3 DEF DefType, HeapType
  <1>5. kin[p] = fam
    OBVIOUS
  <1> HIDE DEF o, d, t, fam
  <1>6. /\ MemType(mem') /\ mem'.cells = mem.cells /\ mem'.blocks = mem.blocks /\ mem'.defs = mem.defs
        /\ mem'.heap[o] = t /\ \A x \in Objects : x # o => mem'.heap[x] = mem.heap[x]
    BY <1>1, <1>2, <1>4, PutHeap
  <1>7. /\ \A c \in {mem'.heap[o].own, mem'.heap[o].td} : c = NewCell(mem, Rehold(h)) \/ HasCell({fam}, c)
        /\ mem'.heap[o].block \notin {Nil, NewBlock(mem, Rehold(h))} => HasBlock({fam}, mem'.heap[o].block)
        /\ mem'.heap[o].def \in TensorAttrs => kin[mem'.heap[o].def] = fam
    BY <1>3, <1>4, <1>5, <1>6
  <1>8. /\ \A c \in Cells : mem'.cells[c] # mem.cells[c] => c = NewCell(mem, Rehold(h))
        /\ \A b \in Blocks : mem'.blocks[b] # mem.blocks[b] => b = NewBlock(mem, Rehold(h))
    BY <1>6
  <1> QED
    BY <1>1, <1>6, <1>7, <1>8, NewOne

(* Both are one object; what h held before may be gone.                       *)
LEMMA ShareTensorStep ==
  ASSUME TensorInv, NEW h \in Holders, NEW g \in Holders, ShareTensor(h, g)
  PROVE  TensorInv' /\ OthersUnseen
  <1> DEFINE o == object[g]
             D == {kin[o]}
  <1>1. Usable(g) /\ object' = [object EXCEPT ![h] = o] /\ touched' = o /\ mem' = mem /\ kin' = kin
    BY DEF ShareTensor, Placed
  <1>2. /\ object \in [Holders -> Objects \cup {0}] /\ MemType(mem) /\ DOMAIN kin = Objects \cup TensorAttrs
        /\ o \in Live(object) /\ o \in Objects
    BY <1>1, UsableFacts DEF TensorInv
  <1>3. object' \in [Holders -> Objects \cup {0}] /\ Live(object') \subseteq Live(object)
    BY <1>1, <1>2 DEF Live
  <1> HIDE DEF o
  <1>4. Present(mem', object') \subseteq Present(mem, object)
    BY <1>1, <1>3 DEF Present
  <1>5. Standing(mem', object', kin')
    BY <1>1, <1>3 DEF Standing, TensorInv
  <1>6. StepIsLocal(D, {}, {})
    <2>1. kin'[touched'] = kin[o]
      BY <1>1
    <2>2. ASSUME NEW x \in Present(mem', object'), kin[x] = kin[o]
          PROVE  (\A c \in CellsAt(mem, x) : HasCell(D, c)) /\ (\A b \in BlocksAt(mem, x) : HasBlock(D, b))
      BY <1>4, <2>2 DEF HasCell, HasBlock
    <2> QED
      BY <1>1, <1>4, <2>1, <2>2 DEF StepIsLocal
  <1> HIDE DEF D
  <1>7. MemType(mem') /\ DOMAIN kin' = Objects \cup TensorAttrs
    BY <1>1, <1>2
  <1> QED
    BY <1>3, <1>5, <1>6, <1>7, LocalStep

(* The families of the two objects become one.                                *)
LEMMA AssignTensorStep ==
  ASSUME TensorInv, NEW h \in Holders, NEW g \in Holders, AssignTensor(h, g)
  PROVE  TensorInv' /\ OthersUnseen
  <1> DEFINE o == object[h]
             from == object[g]
             D == {kin[o], kin[from]}
  <1>1. /\ Usable(h) /\ Usable(g) /\ o # from /\ mem' = AssignTo(mem, o, from)
        /\ kin' = Joined(o, from) /\ touched' = o /\ object' = object
    BY DEF AssignTensor
  <1>2. /\ object \in [Holders -> Objects \cup {0}] /\ MemType(mem) /\ DOMAIN kin = Objects \cup TensorAttrs
        /\ o \in Live(object) /\ o \in Objects /\ from \in Live(object) /\ from \in Objects
    BY <1>1, UsableFacts DEF TensorInv
  <1> HIDE DEF o, from
  <1>3. /\ MemType(mem') /\ mem'.blocks = mem.blocks /\ mem'.defs = mem.defs
        /\ \A x \in Objects : x # o => mem'.heap[x] = mem.heap[x]
        /\ mem'.heap[o].own = mem.heap[o].own /\ mem'.heap[o].td = mem.heap[from].td
        /\ mem'.heap[o].block = mem.heap[from].block
        /\ mem'.heap[o].def \in {mem.heap[from].def, mem.heap[o].def}
        /\ \A c \in Cells : c # mem.heap[o].own => mem'.cells[c] = mem.cells[c]
    BY <1>1, <1>2, AssignToIs, SMTT(30)
  <1>4. /\ HasCell({kin[o]}, mem.heap[o].own) /\ HasCell({kin[from]}, mem.heap[from].td)
        /\ mem.heap[from].block # Nil => HasBlock({kin[from]}, mem.heap[from].block)
        /\ mem.heap[o].def \in TensorAttrs => kin[mem.heap[o].def] = kin[o]
        /\ mem.heap[from].def \in TensorAttrs => kin[mem.heap[from].def] = kin[from]
    BY <1>2, OwnMemory
  <1>5. /\ HasCell(D, mem'.heap[o].own) /\ HasCell(D, mem'.heap[o].td)
        /\ mem'.heap[o].block # Nil => HasBlock(D, mem'.heap[o].block)
        /\ mem'.heap[o].def \in TensorAttrs => kin[mem'.heap[o].def] \in D
    BY <1>3, <1>4 DEF HasCell, HasBlock
  <1>6. /\ DOMAIN kin' = Objects \cup TensorAttrs
        /\ \A z \in Objects \cup TensorAttrs : kin'[z] = IF kin[z] = kin[o] THEN kin[from] ELSE kin[z]
    BY <1>1, <1>2 DEF Joined
  <1>7. kin'[o] = kin[from] /\ \A z \in Objects \cup TensorAttrs : kin'[z] = kin[from] <=> kin[z] \in D
    BY <1>2, <1>6
  <1>8. Present(mem', object') = Present(mem, object) /\ Live(object') = Live(object)
    BY <1>1, <1>3 DEF Present
  <1>9. Standing(mem', object', kin')
    <2> SUFFICES ASSUME NEW x \in Live(object), mem'.heap[x].def \in TensorAttrs
                 PROVE  kin'[x] = kin'[mem'.heap[x].def]
      BY <1>8 DEF Standing
    <2>1. CASE x = o
      BY <1>5, <1>7, <2>1
    <2>2. CASE x # o
      <3>1. x \in Objects /\ mem'.heap[x] = mem.heap[x]
        BY <1>2, <1>3, <2>2, PresentIsKnown
      <3>2. kin[x] = kin[mem'.heap[x].def]
        BY <3>1 DEF TensorInv, Standing
      <3> QED
        BY <1>6, <3>1, <3>2
    <2> QED
      BY <2>1, <2>2
  <1>10. ASSUME NEW x \in Present(mem, object)
         PROVE  /\ x \in Objects \cup TensorAttrs
                /\ x # o => EntryAt(mem', x) = EntryAt(mem, x) /\ CellsAt(mem', x) = CellsAt(mem, x)
                            /\ BlocksAt(mem', x) = BlocksAt(mem, x)
    <2>1. x \in Objects \cup TensorAttrs
      BY <1>2, PresentIsKnown
    <2>2. x # o => EntryAt(mem', x) = EntryAt(mem, x)
      BY <1>3, <2>1 DEF EntryAt
    <2> QED
      BY <2>1, <2>2 DEF EntryAt, CellsAt, BlocksAt
  <1>11. ASSUME NEW x \in Present(mem, object), kin[x] \in D
         PROVE  (\A c \in CellsAt(mem', x) : HasCell(D, c)) /\ (\A b \in BlocksAt(mem', x) : HasBlock(D, b))
    <2>1. CASE x = o
      <3>1. o \notin TensorAttrs
        BY <1>2, OwnMemory
      <3> QED
        BY <1>5, <2>1, <3>1 DEF CellsAt, BlocksAt
    <2>2. CASE x # o
      BY <1>10, <1>11, <2>2 DEF HasCell, HasBlock
    <2> QED
      BY <2>1, <2>2
  <1>12. \A c \in Cells : mem'.cells[c] # mem.cells[c] => HasCell(D, c)
    BY <1>3, <1>5
  <1>13. kin[o] \in D
    OBVIOUS
  <1> HIDE DEF D
  <1>14. StepIsLocal(D, {}, {})
    <2>1. kin'[touched'] = kin[from]
      BY <1>1, <1>7
    <2>2. ASSUME NEW x \in Present(mem', object'), kin'[x] # kin[from]
          PROVE  /\ x \in Present(mem, object) /\ kin'[x] = kin[x] /\ kin[x] \notin D
                 /\ EntryAt(mem', x) = EntryAt(mem, x)
      BY <1>6, <1>7, <1>8, <1>10, <1>13, <2>2
    <2>3. ASSUME NEW x \in Present(mem', object'), kin'[x] = kin[from]
          PROVE  (\A c \in CellsAt(mem', x) : HasCell(D, c)) /\ (\A b \in BlocksAt(mem', x) : HasBlock(D, b))
      BY <1>7, <1>8, <1>10, <1>11, <2>3
    <2> QED
      BY <1>3, <1>12, <2>1, <2>2, <2>3 DEF StepIsLocal
  <1> QED
    BY <1>1, <1>2, <1>3, <1>6, <1>9, <1>14, LocalStep

LEMMA TensorInvHolds == TensorsInit => TensorInv
  <1> SUFFICES ASSUME TensorsInit PROVE TensorInv
    OBVIOUS
  <1>1. 1 \in Cells
    <2>1. Cardinality(Holders) \in Nat /\ Cardinality(TensorAttrs) \in Nat
      BY Counted
    <2> QED
      BY <2>1 DEF Cells
  <1>2. mem.defs = << >> /\ object = [h \in Holders |-> 0] /\ kin = [x \in Objects \cup TensorAttrs |-> 1]
        /\ mem = [heap |-> [o \in Objects |-> [def |-> Nil, own |-> 1, td |-> 1, block |-> Nil, len |-> 0]],
                  cells |-> [c \in Cells |-> NewDesc], blocks |-> [b \in Blocks |-> << >>], defs |-> << >>]
    BY DEF TensorsInit
  <1>3. DOMAIN mem.defs = {} /\ Live(object) = {}
    BY <1>2 DEF Live
  <1>4. MemType(mem)
    BY <1>1, <1>2, <1>3 DEF MemType, HeapType
  <1> QED
    BY <1>2, <1>3, <1>4 DEF TensorInv, Parted, Standing, Present

LEMMA TensorStep ==
  ASSUME TensorInv, TensorsNext
  PROVE  TensorInv' /\ OthersUnseen
  <1>1. CASE \E h \in Holders, bytes \in ByteStrings : NewTensor(h, NewDesc, bytes)
    BY <1>1, NewTensorStep
  <1>2. CASE \E h, g \in Holders : ShareTensor(h, g) \/ CopyTensor(h, g) \/ AsTensor(h, g)
                                     \/ AssignTensor(h, g) \/ CloneTensor(h, g)
    BY <1>2, ShareTensorStep, CopyTensorStep, AsTensorStep, AssignTensorStep, CloneTensorStep
  <1>3. CASE \E h \in Holders : ReadDesc(h) \/ Empty(h)
    BY <1>3, ReadDescStep, EmptyStep
  <1>4. CASE \E h \in Holders, d \in TensorDescs : Describe(h, d)
    BY <1>4, DescribeStep
  <1>5. CASE \E h \in Holders, bytes \in ByteStrings : Fill(h, bytes)
    BY <1>5, FillStep
  <1>6. CASE \E h \in Holders, p \in TensorAttrs : SetTensorAttr(p, h) \/ GetTensorAttr(h, p)
    BY <1>6, SetTensorAttrStep, GetTensorAttrStep
  <1>7. CASE \E p \in TensorAttrs : DelTensorAttr(p)
    BY <1>7, DelTensorAttrStep
  <1> QED
    BY <1>1, <1>2, <1>3, <1>4, <1>5, <1>6, <1>7, Zenon DEF TensorsNext

LEMMA TensorStutter ==
  ASSUME TensorInv, UNCHANGED tensorVars
  PROVE  TensorInv'
  BY DEF tensorVars, TensorInv

(* Tensors share their description and their bytes through copies, assignments *)
(* and attributes (GeTensor, Tensor, AttrUtils::SetTensor and GetTensor), and   *)
(* only through them: nothing that is done to a tensor or an attribute shows    *)
(* in a tensor of another family.                                               *)
THEOREM TensorsApartAlways == TensorsSpec => TensorsApart
  <1>1. TensorsInit => TensorInv
    BY TensorInvHolds
  <1>2. TensorInv /\ [TensorsNext]_tensorVars => TensorInv'
    BY TensorStep, TensorStutter
  <1>3. TensorInv /\ [TensorsNext]_tensorVars => [OthersUnseen]_tensorVars
    BY TensorStep
  <1>4. TensorsSpec => [][OthersUnseen]_tensorVars
    BY <1>1, <1>2, <1>3, PTL DEF TensorsSpec
  <1> QED
    BY <1>4 DEF TensorsApart, OthersUnseen

-----------------------------------------------------------------------------
(* FormatRefiner.  Formats spread over the edges from a worklist of nodes.     *)

(* Counting: what holds of 0, and of a number when of the one before.         *)
LEMMA CountUp ==
  ASSUME NEW n \in Nat, NEW A, 0 \in A, \A k \in 1..n : k - 1 \in A => k \in A
  PROVE  \A k \in 0..n : k \in A
  <1> DEFINE Rest == {k \in 0..n : k \notin A}
  <1> SUFFICES ASSUME Rest # {} PROVE FALSE
    OBVIOUS
  <1>1. Rest \subseteq Nat
    OBVIOUS
  <1>2. PICK k \in Rest : \A l \in Rest : k <= l
    <2> HIDE DEF Rest
    <2> QED
      BY <1>1, LeastNumber
  <1>3. k \in 1..n /\ k - 1 \in 0..n /\ k - 1 \notin Rest
    BY <1>2
  <1> QED
    BY <1>3

(* A recursion over 0..n whose values stay in D has a solution.               *)
Solves(f, D, n, first, F) == /\ f \in [0..n -> D] /\ f[0] = first
                             /\ \A k \in 1..n : f[k] = F[<<f[k-1], k>>]

LEMMA RunExists ==
  ASSUME NEW D, NEW n \in Nat, NEW first \in D, NEW F, \A x \in D, k \in 1..n : F[<<x, k>>] \in D
  PROVE  \E f : Solves(f, D, n, first, F)
  <1> DEFINE A == {m \in 0..n : \E f : Solves(f, D, m, first, F)}
  <1>1. 0 \in A
    <2> DEFINE a == [k \in 0..0 |-> first]
    <2>1. a \in [0..0 -> D] /\ a[0] = first /\ 1..0 = {}
      OBVIOUS
    <2> HIDE DEF a
    <2>2. Solves(a, D, 0, first, F)
      BY <2>1 DEF Solves
    <2> QED
      BY <2>2
  <1>2. ASSUME NEW m \in 1..n, m - 1 \in A PROVE m \in A
    <2>1. PICK g : Solves(g, D, m - 1, first, F)
      BY <1>2
    <2> DEFINE v == F[<<g[m-1], m>>]
               a == [k \in 0..m |-> IF k = m THEN v ELSE g[k]]
    <2>2. v \in D /\ g \in [0..m-1 -> D] /\ g[0] = first
      <3>1. m - 1 \in 0..m-1 /\ g \in [0..m-1 -> D] /\ g[0] = first
        BY <2>1 DEF Solves
      <3>2. g[m-1] \in D
        BY <3>1
      <3> QED
        BY <3>1, <3>2
    <2> HIDE DEF v
    <2>3. a \in [0..m -> D] /\ a[m] = v /\ \A k \in 0..m-1 : a[k] = g[k]
      BY <2>2
    <2> HIDE DEF a
    <2>4. a[0] = first
      <3>1. 0 \in 0..m-1
        OBVIOUS
      <3> QED
        BY <2>2, <2>3, <3>1
    <2>5. ASSUME NEW k \in 1..m PROVE a[k] = F[<<a[k-1], k>>]
      <3>0. k - 1 \in 0..m-1
        OBVIOUS
      <3>1. CASE k = m
        BY <2>3, <3>0, <3>1 DEF v
      <3>2. CASE k # m
        <4>1. k \in 1..m-1 /\ k \in 0..m-1
          BY <3>2
        <4>2. g[k] = F[<<g[k-1], k>>]
          BY <2>1, <4>1 DEF Solves
        <4>3. a[k] = g[k] /\ a[k-1] = g[k-1]
          BY <2>3, <3>0, <4>1
        <4> QED
          BY <4>2, <4>3
      <3> QED
        BY <3>1, <3>2
    <2>6. Solves(a, D, m, first, F)
      BY <2>3, <2>4, <2>5 DEF Solves
    <2> QED
      BY <2>6
  <1>3. \A m \in 0..n : m \in A
    <2> HIDE DEF A
    <2> QED
      BY <1>1, <1>2, CountUp
  <1> QED
    BY <1>3

(* What a recursion chooses is a solution: its values are in D.               *)
LEMMA RunStays ==
  ASSUME NEW D, NEW n \in Nat, NEW f, NEW F, DOMAIN f = 0..n, f = [k \in 0..n |-> f[k]], f[0] \in D,
         \A k \in 1..n : f[k-1] \in D => f[k] \in D
  PROVE  f \in [0..n -> D]
  <1> DEFINE A == {k \in 0..n : f[k] \in D}
  <1>1. 0 \in A
    OBVIOUS
  <1>2. ASSUME NEW k \in 1..n, k - 1 \in A PROVE k \in A
    BY <1>2
  <1>3. \A k \in 0..n : k \in A
    <2> HIDE DEF A
    <2> QED
      BY <1>1, <1>2, CountUp
  <1> QED
    BY <1>3

(* The cells of a node carry its name, and every cell is one of its node.     *)
LEMMA CellsAreOfNodes ==
  /\ \A n, c : c \in InsOf(n) => c[1] = n /\ c[2] = "in"
  /\ \A n, c : c \in OutsOf(n) => c[1] = n /\ c[2] = "out"
  /\ \A n, c : c \in CellsOf(n) => c[1] = n
  /\ \A c \in AllCells : c[1] \in ShapeNodes /\ c \in CellsOf(c[1])
  /\ \A n \in ShapeNodes : CellsOf(n) \subseteq AllCells
  <1>1. \A n, c : c \in InsOf(n) => c[1] = n /\ c[2] = "in"
    BY DEF InsOf, In
  <1>2. \A n, c : c \in OutsOf(n) => c[1] = n /\ c[2] = "out"
    BY DEF OutsOf, Out
  <1>3. \A n, c : c \in CellsOf(n) => c[1] = n
    BY <1>1, <1>2 DEF CellsOf
  <1>4. \A c \in AllCells : c[1] \in ShapeNodes /\ c \in CellsOf(c[1])
    BY <1>3 DEF AllCells
  <1> QED
    BY <1>1, <1>2, <1>3, <1>4 DEF AllCells

(* Descriptions whose formats are among some, none of them reserved.          *)
FmPairs(fms) == {p \in [format : fms, origin : fms] : p.origin # "ND" => p.format # "ND"}
FmTensors(fms) == [AllCells -> FmPairs(fms)]

LEMMA PairIsRight ==
  ASSUME NEW fms, "RESERVED" \notin fms
  PROVE  /\ \A p \in FmPairs(fms) : RightFormat(p)
         /\ \A fm \in fms : [format |-> fm, origin |-> fm] \in FmPairs(fms)
  BY DEF FmPairs, RightFormat

LEMMA PutFormatIs ==
  ASSUME NEW fms, NEW ten \in FmTensors(fms), NEW cells, NEW fm \in fms
  PROVE  /\ PutFormat(ten, cells, fm) \in FmTensors(fms)
         /\ \A c \in AllCells : PutFormat(ten, cells, fm)[c] =
               IF c \in cells THEN [format |-> fm, origin |-> fm] ELSE ten[c]
  <1>1. [format |-> fm, origin |-> fm] \in FmPairs(fms)
    BY DEF FmPairs
  <1>2. DOMAIN ten = AllCells /\ \A c \in AllCells : ten[c] \in FmPairs(fms)
    BY DEF FmTensors
  <1> QED
    BY <1>1, <1>2 DEF PutFormat, FmTensors

(* The operator's rule only gives formats to its own tensors.                 *)
LEMMA CellsInOrder ==
  ASSUME WellLinked, NEW n \in ShapeNodes
  PROVE  /\ Ins(n) \in Seq(InsOf(n)) /\ Outs(n) \in Seq(OutsOf(n))
         /\ \A c \in InsOf(n) : \E i \in 1..Len(Ins(n)) : Ins(n)[i] = c
         /\ \A c \in OutsOf(n) : \E i \in 1..Len(Outs(n)) : Outs(n)[i] = c
  <1> DEFINE p == shape.ins[n]
             q == shape.outs[n]
  <1>1. p \in Nat /\ q \in Nat
    BY DEF WellLinked
  <1>2. /\ Ins(n) = [i \in 1..p |-> In(n, i-1)] /\ Outs(n) = [i \in 1..q |-> Out(n, i-1)]
        /\ InsOf(n) = {In(n, i) : i \in 0..p-1} /\ OutsOf(n) = {Out(n, i) : i \in 0..q-1}
    BY DEF Ins, Outs, InsOf, OutsOf
  <1> HIDE DEF p, q
  <1>3. \A i \in 1..p : i - 1 \in 0..p-1
    BY <1>1
  <1>4. \A i \in 1..q : i - 1 \in 0..q-1
    BY <1>1
  <1>5. \A i \in 0..p-1 : i + 1 \in 1..p /\ (i + 1) - 1 = i
    BY <1>1
  <1>6. \A i \in 0..q-1 : i + 1 \in 1..q /\ (i + 1) - 1 = i
    BY <1>1
  <1>7. Ins(n) \in Seq(InsOf(n)) /\ Len(Ins(n)) = p
    BY <1>1, <1>2, <1>3
  <1>8. Outs(n) \in Seq(OutsOf(n)) /\ Len(Outs(n)) = q
    BY <1>1, <1>2, <1>4
  <1>9. ASSUME NEW c \in InsOf(n) PROVE \E i \in 1..Len(Ins(n)) : Ins(n)[i] = c
    <2>1. PICK i \in 0..p-1 : c = In(n, i)
      BY <1>2
    <2>2. Ins(n)[i + 1] = In(n, i) /\ i + 1 \in 1..p
      BY <1>2, <1>5
    <2> QED
      BY <1>7, <2>1, <2>2
  <1>10. ASSUME NEW c \in OutsOf(n) PROVE \E i \in 1..Len(Outs(n)) : Outs(n)[i] = c
    <2>1. PICK i \in 0..q-1 : c = Out(n, i)
      BY <1>2
    <2>2. Outs(n)[i + 1] = Out(n, i) /\ i + 1 \in 1..q
      BY <1>2, <1>6
    <2> QED
      BY <1>8, <2>1, <2>2
  <1> QED
    BY <1>7, <1>8, <1>9, <1>10

LEMMA MinIsIn ==
  ASSUME NEW S, S \subseteq Nat, S # {}
  PROVE  Min(S) \in S
  BY LeastNumber DEF Min

LEMMA InferIs ==
  ASSUME WellLinked, NEW fms, NEW ten \in FmTensors(fms), NEW n \in ShapeNodes
  PROVE  /\ InferOriginFormat(ten, n) \in FmTensors(fms)
         /\ \A c \in AllCells : c[1] # n \/ ten[c].origin # "ND" => InferOriginFormat(ten, n)[c] = ten[c]
  <1> DEFINE cells == Outs(n) \o Ins(n)
             known == {i \in 1..Len(cells) : ten[cells[i]].origin # "ND"}
             bare  == {c \in CellsOf(n) : ten[c].origin = "ND"}
             fm    == ten[cells[Min(known)]].origin
  <1>1. CASE shape.func[n] = "default" /\ known # {}
    <2>1. InferOriginFormat(ten, n) = PutFormat(ten, bare, fm)
      BY <1>1 DEF InferOriginFormat, DefaultInferFormat
    <2>2. cells \in Seq(AllCells)
      <3>1. Ins(n) \in Seq(AllCells) /\ Outs(n) \in Seq(AllCells)
        <4>1. InsOf(n) \subseteq AllCells /\ OutsOf(n) \subseteq AllCells
          BY DEF AllCells, CellsOf
        <4> QED
          BY <4>1, CellsInOrder
      <3> QED
        BY <3>1
    <2>3. Min(known) \in known
      <3>1. known \subseteq Nat
        BY <2>2
      <3> HIDE DEF known
      <3> QED
        BY <1>1, <3>1, MinIsIn
    <2>4. fm \in fms
      <3>1. cells[Min(known)] \in AllCells
        <4> HIDE DEF cells
        <4>1. Min(known) \in 1..Len(cells)
          BY <2>3
        <4> QED
          BY <2>2, <4>1
      <3> HIDE DEF cells, known
      <3> QED
        BY <3>1 DEF FmTensors, FmPairs
    <2>5. \A c \in AllCells : c[1] # n \/ ten[c].origin # "ND" => c \notin bare
      BY CellsAreOfNodes
    <2> HIDE DEF fm, bare
    <2>6. /\ PutFormat(ten, bare, fm) \in FmTensors(fms)
          /\ \A c \in AllCells : PutFormat(ten, bare, fm)[c] =
                IF c \in bare THEN [format |-> fm, origin |-> fm] ELSE ten[c]
      BY <2>4, PutFormatIs
    <2> QED
      BY <2>1, <2>5, <2>6
  <1>2. CASE ~(shape.func[n] = "default" /\ known # {})
    <2>1. InferOriginFormat(ten, n) = ten
      BY <1>2 DEF InferOriginFormat, DefaultInferFormat
    <2> QED
      BY <2>1
  <1> QED
    BY <1>1, <1>2

(* A set listed is a sequence of its elements, each of them in it.            *)
LEMMA EnumeratedIs ==
  ASSUME NEW S, IsFiniteSet(S)
  PROVE  Enumerated(S) \in Seq(S) /\ ToSet(Enumerated(S)) = S
  <1> DEFINE n == Cardinality(S)
             step(g) == [i \in 0..n |-> IF i = 0 THEN << >>
                            ELSE Append(g[i-1], CHOOSE c \in S : c \notin ToSet(g[i-1]))]
             some == CHOOSE g : g = step(g)
             D == {s \in Seq(S) : IsFiniteSet(ToSet(s)) /\ Len(s) = Cardinality(ToSet(s))}
             pick(s) == Append(s, CHOOSE c \in S : c \notin ToSet(s))
             F == [p \in D \X (1..n) |-> IF p[1] \in D /\ ToSet(p[1]) # S THEN pick(p[1]) ELSE p[1]]
  <1>1. n \in Nat
    BY FS_CardinalityType
  <1>2. Enumerated(S) = some[n]
    BY DEF Enumerated
  <1>3. ASSUME NEW s \in D, ToSet(s) # S
        PROVE  pick(s) \in D /\ Len(pick(s)) = Len(s) + 1
    <2> DEFINE c == CHOOSE x \in S : x \notin ToSet(s)
    <2>1. c \in S /\ c \notin ToSet(s)
      <3>1. \E x \in S : x \notin ToSet(s)
        BY <1>3 DEF ToSet
      <3> QED
        BY <3>1
    <2> HIDE DEF c
    <2>2. /\ s \in Seq(S) /\ pick(s) = Append(s, c) /\ IsFiniteSet(ToSet(s)) /\ Len(s) = Cardinality(ToSet(s))
      BY DEF c
    <2>3. Append(s, c) \in Seq(S) /\ Len(Append(s, c)) = Len(s) + 1 /\ ToSet(Append(s, c)) = ToSet(s) \cup {c}
      BY <2>1, <2>2 DEF ToSet
    <2>4. IsFiniteSet(ToSet(s) \cup {c}) /\ Cardinality(ToSet(s) \cup {c}) = Cardinality(ToSet(s)) + 1
      BY <2>1, <2>2, FS_AddElement
    <2> QED
      BY <2>2, <2>3, <2>4
  <1> HIDE DEF n
  <1>4. << >> \in D
    <2>1. ToSet(<< >>) = {} /\ Len(<< >>) = 0 /\ << >> \in Seq(S)
      BY DEF ToSet
    <2> QED
      BY <2>1, FS_EmptySet
  <1>5. \A s \in D : Len(s) < n => ToSet(s) # S
    <2> SUFFICES ASSUME NEW s \in D, ToSet(s) = S PROVE ~(Len(s) < n)
      OBVIOUS
    <2>1. Len(s) = n
      BY DEF n
    <2> QED
      BY <1>1, <2>1
  <1> HIDE DEF pick
  <1>6. \A x \in D, k \in 1..n : F[<<x, k>>] \in D
    BY <1>3
  <1>16. \A x \in D, k \in 1..n : ToSet(x) # S => F[<<x, k>>] = pick(x)
    OBVIOUS
  <1>17. Len(<< >>) = 0 /\ \A x \in D : Len(x) \in Nat
    OBVIOUS
  <1> HIDE DEF D, F
  <1>7. PICK f : Solves(f, D, n, << >>, F)
    BY <1>1, <1>4, <1>6, RunExists
  <1>8. f \in [0..n -> D] /\ f[0] = << >> /\ \A k \in 1..n : f[k] = F[<<f[k-1], k>>]
    BY <1>7 DEF Solves
  <1>9. \A k \in 0..n : Len(f[k]) = k
    <2> DEFINE A == {k \in 0..n : Len(f[k]) = k}
    <2>1. 0 \in A
      BY <1>1, <1>8, <1>17
    <2>2. ASSUME NEW k \in 1..n, k - 1 \in A PROVE k \in A
      <3>0. k - 1 \in 0..n /\ k \in 0..n /\ Len(f[k-1]) = k - 1 /\ k - 1 < n
        BY <1>1, <2>2
      <3>1. f[k-1] \in D /\ Len(f[k-1]) = k - 1 /\ Len(f[k-1]) < n
        BY <1>8, <3>0
      <3>2. f[k] = pick(f[k-1])
        BY <1>5, <1>8, <1>16, <3>1
      <3>3. Len(f[k]) = (k - 1) + 1
        BY <1>3, <1>5, <3>1, <3>2
      <3> QED
        BY <3>0, <3>3
    <2>3. \A k \in 0..n : k \in A
      <3> HIDE DEF A
      <3> QED
        BY <1>1, <2>1, <2>2, CountUp
    <2> QED
      BY <2>3
  <1>10. f = step(f)
    <2>1. \A k \in 1..n : f[k] = pick(f[k-1])
      <3> TAKE k \in 1..n
      <3>0. k - 1 \in 0..n /\ k - 1 < n
        BY <1>1
      <3>1. f[k-1] \in D /\ Len(f[k-1]) < n
        BY <1>8, <1>9, <3>0
      <3> QED
        BY <1>5, <1>8, <1>16, <3>1
    <2>2. DOMAIN f = 0..n /\ f[0] = << >> /\ f = [k \in 0..n |-> f[k]]
      BY <1>8
    <2>3. \A k \in 0..n : f[k] = IF k = 0 THEN << >> ELSE pick(f[k-1])
      <3> TAKE k \in 0..n
      <3>1. k = 0 \/ k \in 1..n
        BY <1>1
      <3> QED
        BY <2>1, <2>2, <3>1
    <2> QED
      BY <2>2, <2>3 DEF pick
  <1>11. some = step(some)
    <2> HIDE DEF step
    <2> QED
      BY <1>10
  <1> HIDE DEF some
  <1>12. DOMAIN some = 0..n /\ some = [k \in 0..n |-> some[k]] /\ some[0] = << >>
         /\ \A k \in 1..n : some[k] = pick(some[k-1])
    <2>1. DOMAIN some = 0..n /\ some = [k \in 0..n |-> some[k]]
      BY <1>11
    <2>2. \A k \in 0..n : some[k] = IF k = 0 THEN << >> ELSE pick(some[k-1])
      BY <1>11 DEF pick
    <2>3. 0 \in 0..n /\ \A k \in 1..n : k \in 0..n /\ k # 0
      BY <1>1
    <2> QED
      BY <2>1, <2>2, <2>3
  <1>13. \A k \in 0..n : some[k] \in D /\ Len(some[k]) = k
    <2> DEFINE A == {k \in 0..n : some[k] \in D /\ Len(some[k]) = k}
    <2>1. 0 \in A
      BY <1>1, <1>4, <1>12, <1>17
    <2>2. ASSUME NEW k \in 1..n, k - 1 \in A PROVE k \in A
      <3>1. k \in 0..n /\ some[k-1] \in D /\ Len(some[k-1]) = k - 1 /\ Len(some[k-1]) < n
        BY <1>1, <2>2
      <3>2. some[k] \in D /\ Len(some[k]) = (k - 1) + 1
        BY <1>3, <1>5, <1>12, <3>1
      <3> QED
        BY <3>1, <3>2
    <2>3. \A k \in 0..n : k \in A
      <3> HIDE DEF A
      <3> QED
        BY <1>1, <2>1, <2>2, CountUp
    <2> QED
      BY <2>3
  <1>14. some[n] \in D /\ Len(some[n]) = n
    BY <1>1, <1>13
  <1>15. ToSet(some[n]) = S
    <2> DEFINE v == some[n]
    <2>0. v \in Seq(S) /\ Len(v) = Cardinality(ToSet(v)) /\ Len(v) = n
      BY <1>14 DEF D
    <2> HIDE DEF v
    <2>2. ToSet(v) \subseteq S
      BY <2>0 DEF ToSet
    <2>1. ToSet(some[n]) \subseteq S /\ Cardinality(ToSet(some[n])) = n
      BY <2>0, <2>2 DEF v
    <2> QED
      BY <2>1, FS_Subset DEF n
  <1> QED
    BY <1>2, <1>14, <1>15 DEF D

LEMMA ReversedIs ==
  ASSUME NEW S, NEW s \in Seq(S)
  PROVE  Reverse(s) \in Seq(S) /\ ToSet(Reverse(s)) = ToSet(s)
  <1> DEFINE n == Len(s)
             r == [i \in 1..n |-> s[(n - i) + 1]]
  <1>1. n \in Nat /\ Reverse(s) = r /\ DOMAIN s = 1..n
    BY DEF Reverse
  <1>2. \A i \in 1..n : s[i] \in S
    OBVIOUS
  <1> HIDE DEF n
  <1>3. \A i \in 1..n : (n - i) + 1 \in 1..n /\ (n - ((n - i) + 1)) + 1 = i
    BY <1>1
  <1>4. r \in Seq(S) /\ DOMAIN r = 1..n /\ \A i \in 1..n : r[i] = s[(n - i) + 1]
    BY <1>1, <1>2, <1>3
  <1> HIDE DEF r
  <1>5. \A i \in 1..n : r[(n - i) + 1] = s[i]
    BY <1>3, <1>4
  <1>6. {r[i] : i \in 1..n} = {s[i] : i \in 1..n}
    <2>1. ASSUME NEW i \in 1..n PROVE r[i] \in {s[j] : j \in 1..n}
      <3> DEFINE j == (n - i) + 1
      <3>1. j \in 1..n /\ r[i] = s[j]
        BY <1>3, <1>4
      <3> HIDE DEF j
      <3> QED
        BY <3>1
    <2>2. ASSUME NEW i \in 1..n PROVE s[i] \in {r[j] : j \in 1..n}
      <3> DEFINE j == (n - i) + 1
      <3>1. j \in 1..n /\ r[j] = s[i]
        BY <1>3, <1>5
      <3> HIDE DEF j
      <3> QED
        BY <3>1
    <2> QED
      BY <2>1, <2>2
  <1>7. ToSet(r) = ToSet(s)
    BY <1>1, <1>4, <1>6 DEF ToSet
  <1> QED
    BY <1>1, <1>4, <1>7

(* Spreading.  A half of an edge is the edge seen from one of its ends; it is  *)
(* unmet when the near end has a format that the far end should have.         *)
Spreadings(fms) == [ten : FmTensors(fms), queue : Seq(ShapeNodes), ok : BOOLEAN]
Half(k, b) == Ends(shape.links[k], b)
Unmet(ten, h) == ten[h[1]].origin # "ND" /\ ten[h[2]].origin = "ND" /\ ~Exempt(h[2])
Met(ten, c) == \A k \in 1..Len(shape.links), b \in BOOLEAN : Half(k, b)[1] = c => ~Unmet(ten, Half(k, b))
TableRight(t) == \A c \in DOMAIN t : c \in t[c] /\ IsFiniteSet(t[c]) /\ \A d \in t[c] : d[1] \in ShapeNodes

(* What spreading never undoes: a format that is there stays, a node in the    *)
(* queue too, and the node of a tensor that pts its format is in the queue or *)
(* has nothing left to spread from that tensor.                               *)
Grows(s, t) ==
  /\ t.ok => s.ok
  /\ \A c \in AllCells : s.ten[c].origin # "ND" => t.ten[c].origin # "ND"
  /\ ToSet(s.queue) \subseteq ToSet(t.queue)
  /\ t.ok => \A c \in AllCells : s.ten[c].origin = "ND" /\ t.ten[c].origin # "ND" =>
                c[1] \in ToSet(t.queue) \/ Met(t.ten, c)

LEMMA HalvesAre ==
  ASSUME WellLinked, NEW k \in 1..Len(shape.links)
  PROVE  /\ shape.links[k][1] \in AllCells /\ shape.links[k][2] \in AllCells
         /\ shape.links[k][1] \in OutsOf(shape.links[k][1][1]) /\ shape.links[k][2] \in InsOf(shape.links[k][2][1])
         /\ Half(k, TRUE)[1] = shape.links[k][1] /\ Half(k, TRUE)[2] = shape.links[k][2]
         /\ Half(k, FALSE)[1] = shape.links[k][2] /\ Half(k, FALSE)[2] = shape.links[k][1]
         /\ \A b \in BOOLEAN : Half(k, b)[1] \in AllCells /\ Half(k, b)[2] \in AllCells
  <1>1. shape.links[k] \in (UNION {OutsOf(n) : n \in ShapeNodes}) \X (UNION {InsOf(n) : n \in ShapeNodes})
    <2> DEFINE E == (UNION {OutsOf(n) : n \in ShapeNodes}) \X (UNION {InsOf(n) : n \in ShapeNodes})
    <2>1. shape.links \in Seq(E)
      BY DEF WellLinked
    <2> HIDE DEF E
    <2>2. shape.links[k] \in E
      BY <2>1
    <2> QED
      BY <2>2 DEF E
  <1>2. PICK n \in ShapeNodes : shape.links[k][1] \in OutsOf(n)
    BY <1>1
  <1>3. PICK m \in ShapeNodes : shape.links[k][2] \in InsOf(m)
    BY <1>1
  <1>4. shape.links[k][1][1] = n /\ shape.links[k][2][1] = m
    BY <1>2, <1>3, CellsAreOfNodes
  <1>5. shape.links[k][1] \in AllCells /\ shape.links[k][2] \in AllCells
    BY <1>2, <1>3 DEF AllCells, CellsOf
  <1>6. /\ Half(k, TRUE)[1] = shape.links[k][1] /\ Half(k, TRUE)[2] = shape.links[k][2]
        /\ Half(k, FALSE)[1] = shape.links[k][2] /\ Half(k, FALSE)[2] = shape.links[k][1]
    BY DEF Half, Ends
  <1> QED
    BY <1>2, <1>3, <1>4, <1>5, <1>6

LEMMA MetStays ==
  ASSUME WellLinked, NEW t, NEW u, NEW c \in AllCells, Met(t, c), t[c].origin # "ND",
         \A d \in AllCells : t[d].origin # "ND" => u[d].origin # "ND"
  PROVE  Met(u, c)
  <1> SUFFICES ASSUME NEW k \in 1..Len(shape.links), NEW b \in BOOLEAN, Half(k, b)[1] = c, Unmet(u, Half(k, b))
               PROVE  FALSE
    BY DEF Met
  <1>1. Half(k, b)[2] \in AllCells /\ ~Unmet(t, Half(k, b))
    BY HalvesAre DEF Met
  <1> QED
    BY <1>1 DEF Unmet

LEMMA GrowsOn ==
  ASSUME WellLinked, NEW s, NEW t, NEW u, Grows(s, t), Grows(t, u)
  PROVE  Grows(s, u)
  <1>1. /\ u.ok => s.ok
        /\ \A c \in AllCells : s.ten[c].origin # "ND" => u.ten[c].origin # "ND"
        /\ ToSet(s.queue) \subseteq ToSet(u.queue)
    BY DEF Grows
  <1>2. ASSUME u.ok, NEW c \in AllCells, s.ten[c].origin = "ND", u.ten[c].origin # "ND"
        PROVE  c[1] \in ToSet(u.queue) \/ Met(u.ten, c)
    <2>1. CASE t.ten[c].origin = "ND"
      BY <1>2, <2>1 DEF Grows
    <2>2. CASE t.ten[c].origin # "ND"
      <3>1. c[1] \in ToSet(t.queue) \/ Met(t.ten, c)
        BY <1>2, <2>2 DEF Grows
      <3>2. CASE c[1] \in ToSet(t.queue)
        BY <3>2 DEF Grows
      <3>3. CASE Met(t.ten, c)
        <4>1. \A d \in AllCells : t.ten[d].origin # "ND" => u.ten[d].origin # "ND"
          BY DEF Grows
        <4> QED
          BY <2>2, <3>3, <4>1, MetStays
      <3> QED
        BY <3>1, <3>2, <3>3
    <2> QED
      BY <2>1, <2>2
  <1> QED
    BY <1>1, <1>2 DEF Grows

LEMMA GrowsNot ==
  ASSUME NEW s
  PROVE  Grows(s, s)
  BY DEF Grows

(* A tensor that is in no relation gets its format alone.                     *)
LEMMA SettleStep ==
  ASSUME WellLinked, NEW fms, NEW s \in Spreadings(fms), s.ok,
         NEW k \in 1..Len(shape.links), NEW b \in BOOLEAN, NEW fm \in fms, fm # "ND",
         s.ten[Half(k, b)[1]].origin # "ND"
  PROVE  LET t == Settle(s, Half(k, b)[2], fm) IN
         /\ t \in Spreadings(fms) /\ Grows(s, t)
         /\ t.ten[Half(k, b)[2]].origin # "ND"
  <1> DEFINE c == Half(k, b)[1]
             d == Half(k, b)[2]
             n == d[1]
             ten == PutFormat(s.ten, {d}, fm)
             t == Settle(s, d, fm)
  <1>1. c \in AllCells /\ d \in AllCells /\ n \in ShapeNodes
    BY HalvesAre, CellsAreOfNodes
  <1>2. s.ten \in FmTensors(fms) /\ s.queue \in Seq(ShapeNodes) /\ s.ok \in BOOLEAN
    BY DEF Spreadings
  <1>3. ten \in FmTensors(fms) /\ ten[d].origin = fm /\ \A e \in AllCells : e # d => ten[e] = s.ten[e]
    <2> HIDE DEF c, d
    <2>1. /\ ten \in FmTensors(fms)
          /\ \A e \in AllCells : ten[e] = IF e \in {d} THEN [format |-> fm, origin |-> fm] ELSE s.ten[e]
      BY <1>2, PutFormatIs
    <2> HIDE DEF ten
    <2>2. ten[d] = [format |-> fm, origin |-> fm]
      BY <1>1, <2>1
    <2> QED
      BY <2>1, <2>2
  <1>4. s.ten[c].origin # "ND"
    OBVIOUS
  <1> HIDE DEF c, d
  <1> SUFFICES t \in Spreadings(fms) /\ Grows(s, t) /\ t.ten[d].origin # "ND"
    BY DEF d
  <1>5. CASE shape.type[n] = "NetOutput"
    <2> HIDE DEF ten
    <2>1. t = [ten |-> ten, queue |-> s.queue, ok |-> s.ok]
      BY <1>5 DEF Settle, Spreading, ten
    <2>2. t \in Spreadings(fms)
      BY <1>2, <1>3, <2>1 DEF Spreadings
    <2>3. t.ten = ten /\ t.queue = s.queue /\ t.ok = s.ok
      BY <2>1
    <2>4. Met(ten, d)
      <3> SUFFICES ASSUME NEW j \in 1..Len(shape.links), NEW e \in BOOLEAN, Half(j, e)[1] = d
                   PROVE  ten[Half(j, e)[2]].origin # "ND"
        BY DEF Met, Unmet
      <3>1. e = FALSE
        <4>1. shape.type[shape.links[j][1][1]] # "NetOutput"
          BY DEF WellLinked
        <4> QED
          BY <1>5, <4>1, HalvesAre
      <3>2. b = TRUE
        <4>1. shape.type[shape.links[k][1][1]] # "NetOutput"
          BY DEF WellLinked
        <4> QED
          BY <1>5, <4>1, HalvesAre DEF d
      <3>3. shape.links[j][2] = d /\ shape.links[k][2] = d
        BY <3>1, <3>2, HalvesAre DEF d
      <3>4. shape.links[j][1] = shape.links[k][1]
        BY <3>3 DEF WellLinked
      <3>5. Half(j, e)[2] = c
        BY <3>1, <3>2, <3>4, HalvesAre DEF c
      <3> QED
        BY <1>1, <1>3, <1>4, <3>5
    <2>5. Grows(s, t)
      BY <1>1, <1>3, <2>3, <2>4 DEF Grows
    <2> QED
      BY <1>3, <2>2, <2>3, <2>5
  <1>6. CASE shape.type[n] # "NetOutput" /\ shape.func[n] = "fail"
    <2> HIDE DEF ten
    <2>1. t = [ten |-> ten, queue |-> s.queue, ok |-> FALSE]
      BY <1>6 DEF Settle, Spreading, ten
    <2>2. t \in Spreadings(fms)
      BY <1>2, <1>3, <2>1 DEF Spreadings
    <2>3. t.ten = ten /\ t.queue = s.queue /\ ~t.ok
      BY <2>1
    <2>4. Grows(s, t)
      BY <1>1, <1>3, <2>3 DEF Grows
    <2> QED
      BY <1>3, <2>2, <2>3, <2>4
  <1>7. CASE shape.type[n] # "NetOutput" /\ shape.func[n] # "fail"
    <2> DEFINE last == InferOriginFormat(ten, n)
    <2>0. /\ last \in FmTensors(fms)
          /\ \A e \in AllCells : e[1] # n \/ ten[e].origin # "ND" => last[e] = ten[e]
      BY <1>1, <1>3, InferIs
    <2>1. t = [ten |-> last, queue |-> Append(s.queue, n), ok |-> s.ok]
      BY <1>7 DEF Settle, Spreading
    <2> HIDE DEF last, ten
    <2>2. Append(s.queue, n) \in Seq(ShapeNodes) /\ ToSet(Append(s.queue, n)) = ToSet(s.queue) \cup {n}
      <3> DEFINE q == s.queue
      <3>1. q \in Seq(ShapeNodes)
        BY <1>2
      <3> HIDE DEF q, n
      <3>2. Append(q, n) \in Seq(ShapeNodes) /\ ToSet(Append(q, n)) = ToSet(q) \cup {n}
        BY <1>1, <3>1 DEF ToSet
      <3> QED
        BY <3>2 DEF q
    <2>3. t \in Spreadings(fms)
      BY <1>2, <2>0, <2>1, <2>2 DEF Spreadings
    <2>4. t.ten = last /\ t.queue = Append(s.queue, n) /\ t.ok = s.ok
      BY <2>1
    <2>5. \A e \in AllCells : s.ten[e].origin # "ND" => last[e].origin # "ND"
      BY <1>3, <2>0
    <2>6. \A e \in AllCells : s.ten[e].origin = "ND" /\ last[e].origin # "ND" => e[1] = n
      BY <1>3, <2>0
    <2>7. Grows(s, t)
      BY <2>2, <2>4, <2>5, <2>6 DEF Grows
    <2> QED
      BY <1>1, <1>3, <2>0, <2>3, <2>4, <2>7
  <1> QED
    BY <1>5, <1>6, <1>7

(* The related tensors get their format together, and all their nodes go into *)
(* the queue.                                                                  *)
LEMMA ReflectionStep ==
  ASSUME WellLinked, NEW fms, NEW s \in Spreadings(fms), s.ok, NEW fm \in fms, fm # "ND",
         NEW S, NEW cells \in Seq(S), ToSet(cells) = S, \A c \in S : c[1] \in ShapeNodes
  PROVE  LET t == ReflectionProcess(s, cells, fm) IN
         /\ t \in Spreadings(fms) /\ Grows(s, t)
         /\ \A d \in S \cap AllCells : t.ten[d].origin # "ND"
  <1> DEFINE ten == PutFormat(s.ten, ToSet(cells), fm)
             more == [k \in 1..Len(cells) |-> cells[k][1]]
             t == ReflectionProcess(s, cells, fm)
  <1>1. s.ten \in FmTensors(fms) /\ s.queue \in Seq(ShapeNodes) /\ s.ok \in BOOLEAN
    BY DEF Spreadings
  <1>2. /\ ten \in FmTensors(fms)
        /\ \A e \in AllCells : ten[e] = IF e \in S THEN [format |-> fm, origin |-> fm] ELSE s.ten[e]
    <2>1. /\ PutFormat(s.ten, S, fm) \in FmTensors(fms)
          /\ \A e \in AllCells : PutFormat(s.ten, S, fm)[e] = IF e \in S THEN [format |-> fm, origin |-> fm] ELSE s.ten[e]
      BY <1>1, PutFormatIs
    <2> QED
      BY <2>1
  <1>3. t.ten = ten /\ t.queue = s.queue \o more /\ t.ok = s.ok /\ t = Spreading(ten, s.queue \o more, s.ok)
    BY DEF ReflectionProcess, Spreading
  <1> HIDE DEF ten, t
  <1>4. more \in Seq(ShapeNodes) /\ \A c \in S : c[1] \in ToSet(more)
    <2>1. \A k \in 1..Len(cells) : cells[k] \in S
      OBVIOUS
    <2>2. Len(cells) \in Nat /\ \A c \in S : \E k \in 1..Len(cells) : c = cells[k]
      BY DEF ToSet
    <2>3. more \in Seq(ShapeNodes) /\ DOMAIN more = 1..Len(cells)
      BY <2>1, <2>2
    <2> QED
      BY <2>2, <2>3 DEF ToSet
  <1> HIDE DEF more
  <1>5. /\ s.queue \o more \in Seq(ShapeNodes)
        /\ ToSet(s.queue) \subseteq ToSet(s.queue \o more) /\ ToSet(more) \subseteq ToSet(s.queue \o more)
    <2> DEFINE q == s.queue
    <2>1. q \in Seq(ShapeNodes)
      BY <1>1
    <2> HIDE DEF q
    <2>2. q \o more \in Seq(ShapeNodes)
      BY <1>4, <2>1
    <2>3. \A i \in DOMAIN q : i \in DOMAIN (q \o more) /\ (q \o more)[i] = q[i]
      BY <1>4, <2>1
    <2>4. \A i \in DOMAIN more : Len(q) + i \in DOMAIN (q \o more) /\ (q \o more)[Len(q) + i] = more[i]
      BY <1>4, <2>1
    <2> QED
      BY <2>2, <2>3, <2>4 DEF ToSet, q
  <1>6. t \in Spreadings(fms)
    BY <1>1, <1>2, <1>3, <1>5 DEF Spreadings, Spreading
  <1>7. /\ \A e \in AllCells : s.ten[e].origin # "ND" => ten[e].origin # "ND"
        /\ \A e \in AllCells : s.ten[e].origin = "ND" /\ ten[e].origin # "ND" => e \in S
        /\ \A e \in S \cap AllCells : ten[e].origin # "ND"
    BY <1>2
  <1>8. Grows(s, t)
    BY <1>3, <1>4, <1>5, <1>7 DEF Grows
  <1> QED
    BY <1>3, <1>6, <1>7, <1>8 DEF t

(* One half of an edge, with the format its near end has.                     *)
LEMMA SpreadStep ==
  ASSUME WellLinked, TableRight(job.table), NEW fms, NEW s \in Spreadings(fms),
         NEW k \in 1..Len(shape.links), NEW b \in BOOLEAN, NEW fm \in fms, NEW back \in BOOLEAN,
         fm # "ND" => s.ten[Half(k, b)[1]].origin # "ND"
  PROVE  LET t == Spread(s, Half(k, b)[2], fm, back) IN
         /\ t \in Spreadings(fms) /\ Grows(s, t)
         /\ fm # "ND" /\ t.ok => t.ten[Half(k, b)[2]].origin # "ND" \/ Exempt(Half(k, b)[2])
  <1> DEFINE d == Half(k, b)[2]
             S == LookUpRefRelations(job.table, d)
             related == Enumerated(S)
             t == Spread(s, d, fm, back)
  <1>1. d \in AllCells
    BY HalvesAre
  <1>2. CASE ~s.ok \/ fm = "ND" \/ s.ten[d].origin # "ND" \/ Exempt(d)
    <2>1. t = s
      BY <1>2 DEF Spread
    <2> HIDE DEF t
    <2>2. Grows(s, t) /\ t \in Spreadings(fms)
      BY <2>1, GrowsNot
    <2>3. fm # "ND" /\ t.ok => t.ten[d].origin # "ND" \/ Exempt(d)
      BY <1>2, <2>1
    <2> QED
      BY <2>2, <2>3 DEF t
  <1>3. CASE ~(~s.ok \/ fm = "ND" \/ s.ten[d].origin # "ND" \/ Exempt(d))
    <2>1. /\ IsFiniteSet(S) /\ (S # {} => d \in S) /\ \A c \in S : c[1] \in ShapeNodes
      <3>1. CASE d \in DOMAIN job.table
        BY <3>1 DEF TableRight, LookUpRefRelations
      <3>2. CASE d \notin DOMAIN job.table
        BY <3>2, FS_EmptySet DEF LookUpRefRelations
      <3> QED
        BY <3>1, <3>2
    <2>2. s.ok /\ fm # "ND" /\ s.ten[Half(k, b)[1]].origin # "ND"
      BY <1>3
    <2>3. CASE related = << >>
      <3>1. t = Settle(s, d, fm)
        BY <1>3, <2>3 DEF Spread
      <3>2. LET u == Settle(s, d, fm) IN u \in Spreadings(fms) /\ Grows(s, u) /\ u.ten[d].origin # "ND"
        BY <2>2, SettleStep
      <3> QED
        BY <3>1, <3>2
    <2>4. CASE related # << >>
      <3> DEFINE cells == IF back THEN Reverse(related) ELSE related
      <3>1. t = ReflectionProcess(s, cells, fm)
        BY <1>3, <2>4 DEF Spread
      <3> HIDE DEF S
      <3>2. related \in Seq(S) /\ ToSet(related) = S
        BY <2>1, EnumeratedIs
      <3> HIDE DEF related
      <3>3. cells \in Seq(S) /\ ToSet(cells) = S
        BY <3>2, ReversedIs
      <3>4. S # {}
        BY <2>4, <3>2
      <3>5. d \in S \cap AllCells
        BY <1>1, <2>1, <3>4
      <3> HIDE DEF cells
      <3>6. LET u == ReflectionProcess(s, cells, fm) IN
            /\ u \in Spreadings(fms) /\ Grows(s, u) /\ \A c \in S \cap AllCells : u.ten[c].origin # "ND"
        BY <2>1, <2>2, <3>3, ReflectionStep
      <3> QED
        BY <3>1, <3>5, <3>6
    <2> QED
      BY <2>3, <2>4
  <1> QED
    BY <1>2, <1>3

(* All edges of one tensor, from an end that has its format.                  *)
LEMMA SpreadFromIs ==
  ASSUME WellLinked, TableRight(job.table), NEW fms, NEW s \in Spreadings(fms), NEW c \in AllCells,
         NEW forward \in BOOLEAN, NEW back \in BOOLEAN
  PROVE  LET t == SpreadFrom(s, c, forward, back) IN
         /\ t \in Spreadings(fms) /\ Grows(s, t)
         /\ t.ok /\ s.ten[c].origin # "ND" =>
               \A k \in 1..Len(shape.links) : Half(k, forward)[1] = c => ~Unmet(t.ten, Half(k, forward))
  <1> DEFINE n  == Len(shape.links)
             fm == s.ten[c].origin
             next(x, k) == IF Half(k, forward)[1] = c THEN Spread(x, Half(k, forward)[2], fm, back) ELSE x
             step(g) == [k \in 0..n |-> IF k = 0 THEN s ELSE next(g[k-1], k)]
             along == CHOOSE g : g = step(g)
             D == {x \in Spreadings(fms) : Grows(s, x)}
             F == [p \in D \X (1..n) |-> next(p[1], p[2])]
             Reached(x, k) == x.ok /\ fm # "ND" /\ Half(k, forward)[1] = c =>
                                 x.ten[Half(k, forward)[2]].origin # "ND" \/ Exempt(Half(k, forward)[2])
  <1>1. n \in Nat /\ fm \in fms /\ s \in D
    <2>1. shape.links \in Seq((UNION {OutsOf(m) : m \in ShapeNodes}) \X (UNION {InsOf(m) : m \in ShapeNodes}))
      BY DEF WellLinked
    <2>2. Len(shape.links) \in Nat
      BY <2>1
    <2>3. s.ten \in FmTensors(fms)
      BY DEF Spreadings
    <2>4. s.ten[c] \in FmPairs(fms)
      BY <2>3 DEF FmTensors
    <2> QED
      BY <2>2, <2>4, GrowsNot DEF FmPairs
  <1>2. SpreadFrom(s, c, forward, back) = along[n]
    BY DEF SpreadFrom, Half
  <1>3. ASSUME NEW x \in D, NEW k \in 1..n
        PROVE  next(x, k) \in D /\ Grows(x, next(x, k)) /\ Reached(next(x, k), k)
    <2>1. CASE Half(k, forward)[1] = c
      <3>1. fm # "ND" => x.ten[c].origin # "ND"
        BY DEF Grows
      <3>2. next(x, k) = Spread(x, Half(k, forward)[2], fm, back)
        BY <2>1
      <3> DEFINE t == Spread(x, Half(k, forward)[2], fm, back)
      <3> HIDE DEF fm, next
      <3>3. /\ t \in Spreadings(fms) /\ Grows(x, t)
            /\ fm # "ND" /\ t.ok => t.ten[Half(k, forward)[2]].origin # "ND" \/ Exempt(Half(k, forward)[2])
        BY <1>1, <2>1, <3>1, SpreadStep
      <3>4. Grows(s, t)
        BY <3>3, GrowsOn
      <3> HIDE DEF t
      <3> QED
        BY <3>2, <3>3, <3>4 DEF t
    <2>2. CASE Half(k, forward)[1] # c
      BY <2>2, GrowsNot
    <2> QED
      BY <2>1, <2>2
  <1> HIDE DEF n, fm, next
  <1>4. \A x \in D, k \in 1..n : F[<<x, k>>] = next(x, k)
    BY DEF F
  <1> HIDE DEF D, F
  <1>5. PICK f : Solves(f, D, n, s, F)
    BY <1>1, <1>3, <1>4, RunExists
  <1>6. f = step(f)
    <2>1. f \in [0..n -> D] /\ f[0] = s /\ \A k \in 1..n : f[k] = F[<<f[k-1], k>>]
      BY <1>5 DEF Solves
    <2>2. ASSUME NEW k \in 0..n PROVE f[k] = IF k = 0 THEN s ELSE next(f[k-1], k)
      <3>1. CASE k = 0
        BY <2>1, <3>1
      <3>2. CASE k # 0
        <4>1. k \in 1..n /\ k - 1 \in 0..n
          BY <1>1, <3>2
        <4>2. f[k-1] \in D
          BY <2>1, <4>1
        <4> QED
          BY <1>4, <2>1, <3>2, <4>1, <4>2
      <3> QED
        BY <3>1, <3>2
    <2> QED
      BY <2>1, <2>2
  <1>7. along = step(along)
    <2> HIDE DEF step
    <2> QED
      BY <1>6
  <1> HIDE DEF along
  <1>8. along[0] = s /\ \A k \in 1..n : along[k] = next(along[k-1], k)
    <2>1. \A k \in 0..n : along[k] = IF k = 0 THEN s ELSE next(along[k-1], k)
      BY <1>7
    <2>2. 0 \in 0..n /\ \A k \in 1..n : k \in 0..n /\ k # 0
      BY <1>1
    <2> QED
      BY <2>1, <2>2
  <1>9. \A k \in 0..n : along[k] \in D /\ \A j \in 1..k : Reached(along[k], j)
    <2> DEFINE A == {k \in 0..n : along[k] \in D /\ \A j \in 1..k : Reached(along[k], j)}
    <2> HIDE DEF Reached
    <2>1. 0 \in A
      <3>1. 0 \in 0..n /\ 1..0 = {}
        BY <1>1
      <3> QED
        BY <1>1, <1>8, <3>1
    <2>2. ASSUME NEW k \in 1..n, k - 1 \in A PROVE k \in A
      <3> DEFINE x == along[k-1]
                 t == along[k]
      <3>1. k \in 0..n /\ x \in D /\ \A j \in 1..k-1 : Reached(x, j)
        BY <1>1, <2>2
      <3>2. t = next(x, k)
        BY <1>8
      <3> HIDE DEF x, t
      <3>3. t \in D /\ Grows(x, t) /\ Reached(t, k)
        BY <1>3, <3>1, <3>2
      <3>4. ASSUME NEW j \in 1..k-1 PROVE Reached(t, j)
        <4>1. Reached(x, j) /\ j \in 1..Len(shape.links)
          BY <1>1, <3>1 DEF n
        <4>2. Half(j, forward)[2] \in AllCells
          BY <4>1, HalvesAre
        <4> QED
          BY <3>3, <4>1, <4>2 DEF Reached, Grows
      <3>5. \A j \in 1..k : j \in 1..k-1 \/ j = k
        OBVIOUS
      <3>6. t \in D /\ \A j \in 1..k : Reached(t, j)
        BY <3>3, <3>4, <3>5
      <3> QED
        BY <3>1, <3>6 DEF t
    <2>3. \A k \in 0..n : k \in A
      <3> HIDE DEF A
      <3> QED
        BY <1>1, <2>1, <2>2, CountUp
    <2> QED
      BY <2>3
  <1> DEFINE t == along[n]
  <1>10. t \in D /\ \A j \in 1..n : Reached(t, j)
    BY <1>1, <1>9
  <1>11. t \in Spreadings(fms) /\ Grows(s, t)
    BY <1>10 DEF D
  <1>12. t.ok /\ s.ten[c].origin # "ND" =>
            \A k \in 1..Len(shape.links) : Half(k, forward)[1] = c => ~Unmet(t.ten, Half(k, forward))
    <2> HIDE DEF t
    <2> QED
      BY <1>10 DEF Unmet, n, fm
  <1> QED
    BY <1>2, <1>11, <1>12

(* All inputs, or all outputs, of a node: what had its format at the start has *)
(* nothing left to spread that way.                                           *)
LEMMA SpreadFromAllIs ==
  ASSUME WellLinked, TableRight(job.table), NEW fms, NEW s \in Spreadings(fms), NEW cells \in Seq(AllCells),
         NEW forward \in BOOLEAN, NEW back \in BOOLEAN
  PROVE  LET t == SpreadFromAll(s, cells, forward, back) IN
         /\ t \in Spreadings(fms) /\ Grows(s, t)
         /\ t.ok => \A i \in 1..Len(cells) : s.ten[cells[i]].origin # "ND" =>
               \A k \in 1..Len(shape.links) : Half(k, forward)[1] = cells[i] => ~Unmet(t.ten, Half(k, forward))
  <1> DEFINE n == Len(cells)
             next(x, i) == SpreadFrom(x, cells[i], forward, back)
             step(g) == [i \in 0..n |-> IF i = 0 THEN s ELSE next(g[i-1], i)]
             past == CHOOSE g : g = step(g)
             D == {x \in Spreadings(fms) : Grows(s, x)}
             F == [p \in D \X (1..n) |-> next(p[1], p[2])]
             Reached(x, i) == x.ok /\ s.ten[cells[i]].origin # "ND" =>
                 \A k \in 1..Len(shape.links) : Half(k, forward)[1] = cells[i] => ~Unmet(x.ten, Half(k, forward))
  <1>1. n \in Nat /\ s \in D /\ \A i \in 1..n : cells[i] \in AllCells
    BY GrowsNot
  <1>2. SpreadFromAll(s, cells, forward, back) = past[n]
    BY DEF SpreadFromAll
  <1> HIDE DEF n
  <1>3. ASSUME NEW x \in D, NEW i \in 1..n
        PROVE  next(x, i) \in D /\ Grows(x, next(x, i)) /\ Reached(next(x, i), i)
    <2> DEFINE c == cells[i]
               t == SpreadFrom(x, c, forward, back)
    <2>1. c \in AllCells
      BY <1>1
    <2>2. next(x, i) = t
      OBVIOUS
    <2> HIDE DEF c, next
    <2>3. /\ t \in Spreadings(fms) /\ Grows(x, t)
          /\ t.ok /\ x.ten[c].origin # "ND" =>
                \A k \in 1..Len(shape.links) : Half(k, forward)[1] = c => ~Unmet(t.ten, Half(k, forward))
      BY <2>1, SpreadFromIs
    <2>4. Grows(s, t)
      BY <2>3, GrowsOn
    <2>5. s.ten[c].origin # "ND" => x.ten[c].origin # "ND"
      BY <2>1 DEF Grows
    <2> HIDE DEF t
    <2> QED
      BY <2>2, <2>3, <2>4, <2>5 DEF c
  <1> HIDE DEF next
  <1>4. \A x \in D, i \in 1..n : F[<<x, i>>] = next(x, i)
    BY DEF F
  <1> HIDE DEF D, F
  <1>5. PICK f : Solves(f, D, n, s, F)
    BY <1>1, <1>3, <1>4, RunExists
  <1>6. f = step(f)
    <2>1. f \in [0..n -> D] /\ f[0] = s /\ \A i \in 1..n : f[i] = F[<<f[i-1], i>>]
      BY <1>5 DEF Solves
    <2>2. ASSUME NEW i \in 0..n PROVE f[i] = IF i = 0 THEN s ELSE next(f[i-1], i)
      <3>1. CASE i = 0
        BY <2>1, <3>1
      <3>2. CASE i # 0
        <4>1. i \in 1..n /\ i - 1 \in 0..n
          BY <1>1, <3>2
        <4>2. f[i-1] \in D
          BY <2>1, <4>1
        <4> QED
          BY <1>4, <2>1, <3>2, <4>1, <4>2
      <3> QED
        BY <3>1, <3>2
    <2> QED
      BY <2>1, <2>2
  <1>7. past = step(past)
    <2> HIDE DEF step
    <2> QED
      BY <1>6
  <1> HIDE DEF past
  <1>8. past[0] = s /\ \A i \in 1..n : past[i] = next(past[i-1], i)
    <2>1. \A i \in 0..n : past[i] = IF i = 0 THEN s ELSE next(past[i-1], i)
      BY <1>7
    <2>2. 0 \in 0..n /\ \A i \in 1..n : i \in 0..n /\ i # 0
      BY <1>1
    <2> QED
      BY <2>1, <2>2
  <1>9. \A i \in 0..n : past[i] \in D /\ \A j \in 1..i : Reached(past[i], j)
    <2> DEFINE A == {i \in 0..n : past[i] \in D /\ \A j \in 1..i : Reached(past[i], j)}
    <2> HIDE DEF Reached
    <2>1. 0 \in A
      <3>1. 0 \in 0..n /\ 1..0 = {}
        BY <1>1
      <3> QED
        BY <1>1, <1>8, <3>1
    <2>2. ASSUME NEW i \in 1..n, i - 1 \in A PROVE i \in A
      <3> DEFINE x == past[i-1]
                 t == past[i]
      <3>1. i \in 0..n /\ x \in D /\ \A j \in 1..i-1 : Reached(x, j)
        BY <1>1, <2>2
      <3>2. t = next(x, i)
        BY <1>8
      <3> HIDE DEF x, t
      <3>3. t \in D /\ Grows(x, t) /\ Reached(t, i)
        BY <1>3, <3>1, <3>2
      <3>4. ASSUME NEW j \in 1..i-1 PROVE Reached(t, j)
        <4>1. Reached(x, j) /\ j \in 1..n
          BY <1>1, <3>1
        <4> SUFFICES ASSUME t.ok, s.ten[cells[j]].origin # "ND", NEW k \in 1..Len(shape.links),
                            Half(k, forward)[1] = cells[j], Unmet(t.ten, Half(k, forward))
                     PROVE  FALSE
          BY DEF Reached
        <4>2. Half(k, forward)[1] \in AllCells /\ Half(k, forward)[2] \in AllCells
          BY HalvesAre
        <4>3. s.ten[Half(k, forward)[1]].origin # "ND" /\ Grows(s, x)
          BY <3>1 DEF D
        <4>4. x.ok /\ x.ten[Half(k, forward)[1]].origin # "ND" /\ x.ten[Half(k, forward)[2]].origin = "ND"
          BY <3>3, <4>2, <4>3 DEF Grows, Unmet
        <4>5. Unmet(x.ten, Half(k, forward))
          BY <4>4 DEF Unmet
        <4> QED
          BY <4>1, <4>4, <4>5 DEF Reached
      <3>5. \A j \in 1..i : j \in 1..i-1 \/ j = i
        OBVIOUS
      <3>6. t \in D /\ \A j \in 1..i : Reached(t, j)
        BY <3>3, <3>4, <3>5
      <3> QED
        BY <3>1, <3>6 DEF t
    <2>3. \A i \in 0..n : i \in A
      <3> HIDE DEF A
      <3> QED
        BY <1>1, <2>1, <2>2, CountUp
    <2> QED
      BY <2>3
  <1> DEFINE t == past[n]
  <1>10. t \in D /\ \A j \in 1..n : Reached(t, j)
    BY <1>1, <1>9
  <1>11. t \in Spreadings(fms) /\ Grows(s, t)
    BY <1>10 DEF D
  <1> HIDE DEF t
  <1>12. t.ok => \A i \in 1..Len(cells) : s.ten[cells[i]].origin # "ND" =>
            \A k \in 1..Len(shape.links) : Half(k, forward)[1] = cells[i] => ~Unmet(t.ten, Half(k, forward))
    BY <1>10 DEF n
  <1> QED
    BY <1>2, <1>11, <1>12 DEF t

(* Nothing is behind when every unmet half of an edge starts at a node that is *)
(* waiting to be spread from.                                                 *)
Behind(ten, waiting) == \A k \in 1..Len(shape.links), b \in BOOLEAN :
    Unmet(ten, Half(k, b)) => Half(k, b)[1][1] \in waiting
JobRight ==
    /\ job = [stage |-> job.stage, todo |-> job.todo, queue |-> job.queue, datas |-> job.datas,
              table |-> job.table, runs |-> job.runs]
    /\ job.todo \in Seq(ShapeNodes) /\ job.queue \in Seq(ShapeNodes) /\ job.datas \in Seq(ShapeNodes)
    /\ TableRight(job.table)
SpreadInv ==
    /\ WellLinked /\ WellFormatted /\ JobRight
    /\ job.stage \in {"anchors", "data"} => Behind(tensor, ToSet(job.queue) \cup ToSet(job.todo))
    /\ job.stage = "idle" => job.runs = 0 \/ Behind(tensor, {})

LEMMA SameStraight ==
  ASSUME shape' = shape, NEW f
  PROVE  Straight(f)' = Straight(f)
  BY DEF Straight, LastNetoutput, NetCells, GetNetoutputOfSubGraph, Skipped, Index, InsOf, ShapeNodes, In, Out

LEMMA SameShape ==
  ASSUME shape' = shape
  PROVE  /\ WellLinked => WellLinked'
         /\ ShapeNodes' = ShapeNodes /\ AllCells' = AllCells
         /\ TableRight(job.table)' <=> TableRight(job'.table)
         /\ Behind(tensor, ToSet(job.queue) \cup ToSet(job.todo))' <=>
               Behind(tensor', ToSet(job'.queue) \cup ToSet(job'.todo))
         /\ Behind(tensor, {})' <=> Behind(tensor', {})
  <1>1. WellLinked => WellLinked'
    <2> DEFINE Loops == \A f \in FunctionNodes : shape.type[f] = "While" =>
                            Straight(f) \in Seq((0..shape.ins[f]-1) \X (0..shape.ins[f]-1))
               Rest  == /\ shape.order \in Seq(ShapeNodes)
                        /\ \A n \in ShapeNodes : /\ shape.ins[n] \in Nat /\ shape.outs[n] \in Nat
                                                  /\ (shape.value[n] # NoAttr => RightFormat(shape.value[n]))
                        /\ shape.links \in Seq((UNION {OutsOf(n) : n \in ShapeNodes}) \X (UNION {InsOf(n) : n \in ShapeNodes}))
                        /\ \A i, j \in 1..Len(shape.links) :
                              /\ shape.links[i][2] = shape.links[j][2] => shape.links[i][1] = shape.links[j][1]
                              /\ shape.type[shape.links[i][1][1]] # "NetOutput"
                        /\ \A f \in FunctionNodes : /\ shape.type[f] \notin {"Data", "NetOutput"}
                                                     /\ \A g \in FunctionNodes \ {f} : ToSet(shape.subs[f]) \cap ToSet(shape.subs[g]) = {}
                        /\ shape.dataFormat # "RESERVED"
    <2>1. (WellLinked <=> Rest /\ Loops) /\ (WellLinked' <=> Rest' /\ Loops')
      <3> HIDE DEF FunctionNodes, OutsOf
      <3>1. WellLinked <=> Rest /\ Loops
        BY DEF WellLinked
      <3>2. WellLinked' <=> Rest' /\ Loops'
        BY DEF WellLinked
      <3> QED
        BY <3>1, <3>2
    <2>2. Rest => Rest'
      <3>1. ShapeNodes' = ShapeNodes /\ FunctionNodes' = FunctionNodes
        BY DEF FunctionNodes, ShapeNodes
      <3>2. (UNION {OutsOf(n) : n \in ShapeNodes})' = UNION {OutsOf(n) : n \in ShapeNodes}
        BY DEF OutsOf, Out, ShapeNodes
      <3>3. (UNION {InsOf(n) : n \in ShapeNodes})' = UNION {InsOf(n) : n \in ShapeNodes}
        BY DEF InsOf, In, ShapeNodes
      <3>4. (\A n \in ShapeNodes : shape.value[n] # NoAttr => RightFormat(shape.value[n]))
            => (\A n \in ShapeNodes : shape.value[n] # NoAttr => RightFormat(shape.value[n]))'
        BY <3>1 DEF RightFormat
      <3> QED
        BY <3>1, <3>2, <3>3, <3>4
    <2>3. Loops => Loops'
      <3>1. FunctionNodes' = FunctionNodes
        BY DEF FunctionNodes, ShapeNodes
      <3>2. \A f : Straight(f)' = Straight(f)
        BY SameStraight
      <3> QED
        BY <3>1, <3>2
    <2> HIDE DEF Rest, Loops
    <2> QED
      BY <2>1, <2>2, <2>3
  <1>2. ShapeNodes' = ShapeNodes /\ AllCells' = AllCells
    BY DEF ShapeNodes, AllCells, CellsOf, InsOf, OutsOf, In, Out
  <1>3. TableRight(job.table)' <=> TableRight(job'.table)
    BY <1>2 DEF TableRight
  <1>4. /\ Behind(tensor, ToSet(job.queue) \cup ToSet(job.todo))' <=>
              Behind(tensor', ToSet(job'.queue) \cup ToSet(job'.todo))
        /\ Behind(tensor, {})' <=> Behind(tensor', {})
    BY DEF Behind, Unmet, Half, Ends, Exempt, ChangesDim
  <1> QED
    BY <1>1, <1>2, <1>3, <1>4

(* The formats of a graph, with any others that are not reserved.             *)
FmsOf == {tensor[c].format : c \in AllCells} \cup {tensor[c].origin : c \in AllCells}

LEMMA FormatsAre ==
  ASSUME WellFormatted, NEW more, "RESERVED" \notin more
  PROVE  tensor \in FmTensors(FmsOf \cup more) /\ "RESERVED" \notin FmsOf \cup more
  <1>1. \A c \in AllCells : RightFormat(tensor[c])
    BY DEF WellFormatted
  <1>2. "RESERVED" \notin FmsOf
    BY <1>1 DEF FmsOf, RightFormat
  <1>3. \A c \in AllCells : tensor[c] \in FmPairs(FmsOf \cup more)
    <2> TAKE c \in AllCells
    <2> DEFINE p == tensor[c]
    <2>1. p = [format |-> p.format, origin |-> p.origin] /\ (p.origin # "ND" => p.format # "ND")
      BY <1>1 DEF RightFormat
    <2>2. p.format \in FmsOf /\ p.origin \in FmsOf
      BY DEF FmsOf
    <2> HIDE DEF p
    <2> QED
      BY <2>1, <2>2 DEF FmPairs, p
  <1>4. tensor = [c \in AllCells |-> tensor[c]]
    BY DEF WellFormatted
  <1> QED
    BY <1>2, <1>3, <1>4 DEF FmTensors

(* What a step has to show.                                                   *)
LEMMA SpreadInvFrom ==
  ASSUME SpreadInv, shape' = shape, NEW fms, "RESERVED" \notin fms, tensor' \in FmTensors(fms),
         NEW st, NEW td \in Seq(ShapeNodes), NEW qu \in Seq(ShapeNodes), NEW da \in Seq(ShapeNodes),
         NEW ta, TableRight(ta), NEW ru,
         job' = [stage |-> st, todo |-> td, queue |-> qu, datas |-> da, table |-> ta, runs |-> ru],
         st \in {"anchors", "data"} => Behind(tensor', ToSet(qu) \cup ToSet(td)),
         st = "idle" => ru = 0 \/ Behind(tensor', {})
  PROVE  SpreadInv'
  <1>1. /\ job'.stage = st /\ job'.todo = td /\ job'.queue = qu /\ job'.datas = da
        /\ job'.table = ta /\ job'.runs = ru
    OBVIOUS
  <1>2. WellLinked'
    BY SameShape DEF SpreadInv
  <1>3. WellFormatted'
    <2>1. tensor' = [c \in AllCells |-> tensor'[c]] /\ \A c \in AllCells : RightFormat(tensor'[c])
      <3>1. \A c \in AllCells : tensor'[c] \in FmPairs(fms)
        BY DEF FmTensors
      <3>2. tensor' = [c \in AllCells |-> tensor'[c]]
        BY DEF FmTensors
      <3> QED
        BY <3>1, <3>2, PairIsRight
    <2>2. AllCells' = AllCells
      BY SameShape
    <2> QED
      BY <2>1, <2>2 DEF WellFormatted, RightFormat
  <1>4. JobRight'
    BY <1>1, SameShape DEF JobRight
  <1>5. /\ (job.stage \in {"anchors", "data"} => Behind(tensor, ToSet(job.queue) \cup ToSet(job.todo)))'
        /\ (job.stage = "idle" => job.runs = 0 \/ Behind(tensor, {}))'
    BY <1>1, SameShape
  <1> QED
    BY <1>2, <1>3, <1>4, <1>5 DEF SpreadInv

LEMMA HeadAndTail ==
  ASSUME NEW S, NEW q \in Seq(S), q # << >>
  PROVE  Head(q) \in S /\ Tail(q) \in Seq(S) /\ ToSet(q) = {Head(q)} \cup ToSet(Tail(q))
  <1>1. Head(q) = q[1] /\ q[1] \in S /\ Tail(q) \in Seq(S) /\ Len(q) \in Nat /\ 1 \in DOMAIN q
        /\ Len(Tail(q)) = Len(q) - 1 /\ \A i \in 1..Len(q)-1 : Tail(q)[i] = q[i+1]
    OBVIOUS
  <1>2. \A i \in DOMAIN q : i = 1 \/ (i - 1 \in 1..Len(q)-1 /\ (i - 1) + 1 = i)
    BY <1>1
  <1>3. DOMAIN Tail(q) = 1..Len(q)-1 /\ \A i \in 1..Len(q)-1 : i + 1 \in DOMAIN q
    BY <1>1
  <1>4. ToSet(q) = {q[1]} \cup ToSet(Tail(q))
    BY <1>1, <1>2, <1>3 DEF ToSet
  <1> QED
    BY <1>1, <1>4

LEMMA AnchorProcessStep ==
  ASSUME SpreadInv, AnchorProcess
  PROVE  SpreadInv'
  <1> DEFINE n  == Head(job.queue)
             s0 == Spreading(tensor, Tail(job.queue), TRUE)
  <1>1. /\ WellLinked /\ WellFormatted /\ JobRight /\ TableRight(job.table) /\ shape' = shape
        /\ job.stage \in {"anchors", "data"} /\ job.queue # << >>
        /\ Behind(tensor, ToSet(job.queue) \cup ToSet(job.todo))
    BY DEF SpreadInv, JobRight, AnchorProcess
  <1>2. PICK back \in BOOLEAN :
          LET s == ForwardInferProcess(BackInferProcess(s0, n, back), n, back)
          IN  /\ tensor' = s.ten
              /\ IF s.ok THEN job' = [job EXCEPT !.queue = s.queue] /\ inferred' = inferred
                 ELSE Fail /\ inferred' = (inferred \/ job.stage = "data")
    BY DEF AnchorProcess
  <1> DEFINE none == {}
             fms == FmsOf \cup none
             s1 == SpreadFromAll(s0, Ins(n), FALSE, back)
             s2 == SpreadFromAll(s1, Outs(n), TRUE, back)
  <1>3. /\ n \in ShapeNodes /\ Tail(job.queue) \in Seq(ShapeNodes)
        /\ ToSet(job.queue) = {n} \cup ToSet(Tail(job.queue))
    BY <1>1, HeadAndTail DEF JobRight
  <1>4. tensor \in FmTensors(fms) /\ "RESERVED" \notin fms
    <2>1. "RESERVED" \notin none
      OBVIOUS
    <2> HIDE DEF none
    <2> QED
      BY <1>1, <2>1, FormatsAre
  <1>5. s0 \in Spreadings(fms) /\ s0.ten = tensor /\ s0.queue = Tail(job.queue)
    BY <1>3, <1>4 DEF Spreading, Spreadings
  <1>6. Ins(n) \in Seq(AllCells) /\ Outs(n) \in Seq(AllCells)
    <2>1. InsOf(n) \subseteq AllCells /\ OutsOf(n) \subseteq AllCells
      BY <1>3 DEF AllCells, CellsOf
    <2> QED
      BY <1>1, <1>3, <2>1, CellsInOrder
  <1> HIDE DEF s0, fms
  <1>7. /\ s1 \in Spreadings(fms) /\ Grows(s0, s1)
        /\ s1.ok => \A i \in 1..Len(Ins(n)) : s0.ten[Ins(n)[i]].origin # "ND" =>
              \A k \in 1..Len(shape.links) : Half(k, FALSE)[1] = Ins(n)[i] => ~Unmet(s1.ten, Half(k, FALSE))
    BY <1>1, <1>5, <1>6, SpreadFromAllIs
  <1> HIDE DEF s1
  <1>8. /\ s2 \in Spreadings(fms) /\ Grows(s1, s2)
        /\ s2.ok => \A i \in 1..Len(Outs(n)) : s1.ten[Outs(n)[i]].origin # "ND" =>
              \A k \in 1..Len(shape.links) : Half(k, TRUE)[1] = Outs(n)[i] => ~Unmet(s2.ten, Half(k, TRUE))
    BY <1>1, <1>6, <1>7, SpreadFromAllIs
  <1> HIDE DEF s2
  <1>9. Grows(s0, s2)
    BY <1>1, <1>7, <1>8, GrowsOn
  <1>10. /\ tensor' = s2.ten
         /\ s2.ok => job' = [job EXCEPT !.queue = s2.queue]
         /\ ~s2.ok => job' = [job EXCEPT !.stage = "failed"]
    BY <1>2 DEF s1, s2, ForwardInferProcess, BackInferProcess, Fail
  <1>11. s2.ten \in FmTensors(fms) /\ s2.queue \in Seq(ShapeNodes)
    BY <1>8 DEF Spreadings
  <1>12. /\ job = [stage |-> job.stage, todo |-> job.todo, queue |-> job.queue, datas |-> job.datas,
                    table |-> job.table, runs |-> job.runs]
         /\ job.todo \in Seq(ShapeNodes) /\ job.queue \in Seq(ShapeNodes) /\ job.datas \in Seq(ShapeNodes)
    BY <1>1 DEF JobRight
  <1>13. CASE s2.ok
    <2>1. job' = [stage |-> job.stage, todo |-> job.todo, queue |-> s2.queue, datas |-> job.datas,
                  table |-> job.table, runs |-> job.runs]
      BY <1>10, <1>12, <1>13
    <2>2. Behind(s2.ten, ToSet(s2.queue) \cup ToSet(job.todo))
      <3> SUFFICES ASSUME NEW k \in 1..Len(shape.links), NEW b \in BOOLEAN, Unmet(s2.ten, Half(k, b)),
                          Half(k, b)[1][1] \notin ToSet(s2.queue) \cup ToSet(job.todo)
                   PROVE  FALSE
        BY DEF Behind
      <3> DEFINE c == Half(k, b)[1]
                 d == Half(k, b)[2]
      <3>1. c \in AllCells /\ d \in AllCells /\ s1.ok
        BY <1>1, <1>8, <1>13, HalvesAre DEF Grows
      <3>2. s2.ten[c].origin # "ND" /\ s2.ten[d].origin = "ND" /\ ~Exempt(d)
        BY DEF Unmet
      <3>3. s1.ten[d].origin = "ND" /\ s0.ten[d].origin = "ND"
        BY <1>7, <1>8, <3>1, <3>2 DEF Grows
      <3>4. s0.ten[c].origin # "ND"
        <4>1. ~Met(s2.ten, c)
          BY DEF Met
        <4> QED
          BY <1>9, <1>13, <3>1, <3>2, <4>1 DEF Grows
      <3>5. s1.ten[c].origin # "ND"
        BY <1>7, <3>1, <3>4 DEF Grows
      <3>6. c[1] = n
        <4>1. Unmet(tensor, Half(k, b))
          BY <1>5, <3>2, <3>3, <3>4 DEF Unmet
        <4>2. c[1] \in ToSet(job.queue) \cup ToSet(job.todo)
          BY <1>1, <4>1 DEF Behind
        <4>3. ToSet(Tail(job.queue)) \subseteq ToSet(s2.queue)
          BY <1>5, <1>9 DEF Grows
        <4> QED
          BY <1>3, <4>2, <4>3
      <3>7. CASE b = TRUE
        <4>1. c \in OutsOf(n)
          BY <1>1, <3>6, <3>7, HalvesAre
        <4>2. PICK i \in 1..Len(Outs(n)) : Outs(n)[i] = c
          BY <1>1, <1>3, <4>1, CellsInOrder
        <4>3. ~Unmet(s2.ten, Half(k, b))
          BY <1>8, <1>13, <3>5, <3>7, <4>2
        <4> QED
          BY <4>3
      <3>8. CASE b = FALSE
        <4>1. c \in InsOf(n)
          BY <1>1, <3>6, <3>8, HalvesAre
        <4>2. PICK i \in 1..Len(Ins(n)) : Ins(n)[i] = c
          BY <1>1, <1>3, <4>1, CellsInOrder
        <4>3. ~Unmet(s1.ten, Half(k, b))
          BY <1>7, <3>1, <3>4, <3>8, <4>2
        <4> QED
          BY <3>2, <3>3, <3>5, <4>3 DEF Unmet
      <3> QED
        BY <3>7, <3>8
    <2>3. job.stage \in {"anchors", "data"} => Behind(tensor', ToSet(s2.queue) \cup ToSet(job.todo))
      BY <1>10, <2>2
    <2>4. job.stage # "idle"
      BY <1>1
    <2>5. tensor' \in FmTensors(fms)
      BY <1>10, <1>11
    <2> QED
      BY <1>1, <1>4, <1>11, <1>12, <2>1, <2>3, <2>4, <2>5, SpreadInvFrom
  <1>14. CASE ~s2.ok
    <2>1. job' = [stage |-> "failed", todo |-> job.todo, queue |-> job.queue, datas |-> job.datas,
                  table |-> job.table, runs |-> job.runs]
      BY <1>10, <1>12, <1>14
    <2>2. tensor' \in FmTensors(fms)
      BY <1>10, <1>11
    <2> DEFINE st == "failed"
    <2>3. st \notin {"anchors", "data"} /\ st # "idle"
      OBVIOUS
    <2>4. job' = [stage |-> st, todo |-> job.todo, queue |-> job.queue, datas |-> job.datas,
                  table |-> job.table, runs |-> job.runs]
      BY <2>1
    <2> HIDE DEF st
    <2> QED
      BY <1>1, <1>4, <1>12, <2>2, <2>3, <2>4, SpreadInvFrom
  <1> QED
    BY <1>13, <1>14

LEMMA NextAnchorStep ==
  ASSUME SpreadInv, NextAnchor
  PROVE  SpreadInv'
  <1> DEFINE n == Head(job.todo)
             none == {}
             fms == FmsOf \cup none
             qu == <<n>>
             td == Tail(job.todo)
  <1>1. /\ WellFormatted /\ JobRight /\ shape' = shape /\ tensor' = tensor
        /\ job.stage \in {"anchors", "data"} /\ job.queue = << >> /\ job.todo # << >>
        /\ Behind(tensor, ToSet(job.queue) \cup ToSet(job.todo))
        /\ job' = [job EXCEPT !.queue = <<n>>, !.todo = Tail(job.todo)]
    BY DEF SpreadInv, JobRight, NextAnchor
  <1>2. /\ job = [stage |-> job.stage, todo |-> job.todo, queue |-> job.queue, datas |-> job.datas,
                  table |-> job.table, runs |-> job.runs]
        /\ job.todo \in Seq(ShapeNodes) /\ job.datas \in Seq(ShapeNodes) /\ TableRight(job.table)
    BY <1>1 DEF JobRight
  <1>3. n \in ShapeNodes /\ td \in Seq(ShapeNodes) /\ ToSet(job.todo) = {n} \cup ToSet(td)
    BY <1>1, <1>2, HeadAndTail
  <1>4. tensor' \in FmTensors(fms) /\ "RESERVED" \notin fms
    <2>1. "RESERVED" \notin none
      OBVIOUS
    <2> HIDE DEF none
    <2> QED
      BY <1>1, <2>1, FormatsAre
  <1> HIDE DEF fms, td
  <1>5. job' = [stage |-> job.stage, todo |-> td, queue |-> qu, datas |-> job.datas,
                table |-> job.table, runs |-> job.runs]
    BY <1>1, <1>2 DEF td
  <1> HIDE DEF n
  <1>6. qu \in Seq(ShapeNodes) /\ ToSet(qu) = {n}
    BY <1>3 DEF ToSet
  <1> HIDE DEF qu
  <1>7. Behind(tensor', ToSet(qu) \cup ToSet(td))
    <2>1. ToSet(job.queue) \cup ToSet(job.todo) = ToSet(qu) \cup ToSet(td)
      <3>1. ToSet(job.queue) = {}
        BY <1>1 DEF ToSet
      <3> QED
        BY <1>3, <1>6, <3>1
    <2> QED
      BY <1>1, <2>1
  <1>8. job.stage # "idle" /\ shape' = shape
    BY <1>1
  <1>9. td \in Seq(ShapeNodes) /\ job.datas \in Seq(ShapeNodes) /\ TableRight(job.table) /\ qu \in Seq(ShapeNodes)
    BY <1>2, <1>3, <1>6
  <1> QED
    BY <1>4, <1>5, <1>7, <1>8, <1>9, SpreadInvFrom

LEMMA FinishStep ==
  ASSUME SpreadInv, Finish
  PROVE  SpreadInv'
  <1> DEFINE none == {}
             fms == FmsOf \cup none
             st == "idle"
  <1>1. /\ WellFormatted /\ JobRight /\ shape' = shape /\ tensor' = tensor
        /\ job.queue = << >> /\ job.todo = << >>
        /\ Behind(tensor, ToSet(job.queue) \cup ToSet(job.todo))
        /\ job' = [job EXCEPT !.stage = "idle"]
    BY DEF SpreadInv, JobRight, Finish
  <1>2. /\ job = [stage |-> job.stage, todo |-> job.todo, queue |-> job.queue, datas |-> job.datas,
                  table |-> job.table, runs |-> job.runs]
        /\ job.todo \in Seq(ShapeNodes) /\ job.queue \in Seq(ShapeNodes) /\ job.datas \in Seq(ShapeNodes)
        /\ TableRight(job.table)
    BY <1>1 DEF JobRight
  <1>3. tensor' \in FmTensors(fms) /\ "RESERVED" \notin fms
    <2>1. "RESERVED" \notin none
      OBVIOUS
    <2> HIDE DEF none
    <2> QED
      BY <1>1, <2>1, FormatsAre
  <1> HIDE DEF fms
  <1>4. job' = [stage |-> st, todo |-> job.todo, queue |-> job.queue, datas |-> job.datas,
                table |-> job.table, runs |-> job.runs]
    BY <1>1, <1>2
  <1>5. Behind(tensor', {})
    <2>1. ToSet(job.queue) \cup ToSet(job.todo) = {}
      BY <1>1 DEF ToSet
    <2> QED
      BY <1>1, <2>1
  <1>6. st \notin {"anchors", "data"}
    OBVIOUS
  <1> HIDE DEF st
  <1> QED
    BY <1>1, <1>2, <1>3, <1>4, <1>5, <1>6, SpreadInvFrom

(* The Data that are left are nodes of the graph.                             *)
LEMMA DataNodeStep ==
  ASSUME SpreadInv, DataNodeFormatProcess
  PROVE  SpreadInv'
  <1> DEFINE bare(n) == tensor[Out(n, 0)].origin = "ND" /\ shape.dim[In(n, 0)] >= 4
             m == Len(job.datas)
             next(x, k) == IF bare(job.datas[k]) /\ job.datas[k] \notin ToSet(x) THEN Append(x, job.datas[k]) ELSE x
             step(g) == [k \in 0..m |-> IF k = 0 THEN << >> ELSE next(g[k-1], k)]
             found == CHOOSE g : g = step(g)
             left == IF ~inferred \/ IsInternalFormat(shape.dataFormat) \/ shape.dataFormat = "ND" THEN << >> ELSE found[m]
             cells == UNION {{In(n, 0), Out(n, 0)} : n \in ToSet(left)}
             df == shape.dataFormat
             ten == PutFormat(tensor, cells, df)
             D == Seq(ShapeNodes)
             F == [p \in D \X (1..m) |-> next(p[1], p[2])]
             fms == FmsOf \cup {df}
             st == "data"
  <1>1. /\ WellLinked /\ WellFormatted /\ JobRight /\ shape' = shape
        /\ job.queue = << >> /\ job.todo = << >>
        /\ Behind(tensor, ToSet(job.queue) \cup ToSet(job.todo))
    BY DEF SpreadInv, JobRight, DataNodeFormatProcess
  <1>2. tensor' = ten /\ job' = [job EXCEPT !.stage = "data", !.todo = left]
    BY DEF DataNodeFormatProcess
  <1>3. /\ job = [stage |-> job.stage, todo |-> job.todo, queue |-> job.queue, datas |-> job.datas,
                  table |-> job.table, runs |-> job.runs]
        /\ job.todo \in Seq(ShapeNodes) /\ job.queue \in Seq(ShapeNodes) /\ job.datas \in Seq(ShapeNodes)
        /\ TableRight(job.table)
    BY <1>1 DEF JobRight
  <1>4. m \in Nat /\ \A k \in 1..m : job.datas[k] \in ShapeNodes
    BY <1>3
  <1>5. found[m] \in Seq(ShapeNodes)
    <2> HIDE DEF m
    <2>1. \A x \in D, k \in 1..m : next(x, k) \in D
      BY <1>4
    <2> HIDE DEF next, D
    <2>2. \A x \in D, k \in 1..m : F[<<x, k>>] = next(x, k)
      OBVIOUS
    <2>3. << >> \in D
      BY DEF D
    <2> HIDE DEF F
    <2>4. PICK f : Solves(f, D, m, << >>, F)
      BY <1>4, <2>1, <2>2, <2>3, RunExists
    <2>5. f \in [0..m -> D] /\ f[0] = << >> /\ \A k \in 1..m : f[k] = F[<<f[k-1], k>>]
      BY <2>4 DEF Solves
    <2>6. ASSUME NEW k \in 0..m PROVE f[k] = IF k = 0 THEN << >> ELSE next(f[k-1], k)
      <3>1. CASE k = 0
        BY <2>5, <3>1
      <3>2. CASE k # 0
        <4>1. k \in 1..m /\ k - 1 \in 0..m
          BY <1>4, <3>2
        <4>2. f[k-1] \in D
          BY <2>5, <4>1
        <4> QED
          BY <2>2, <2>5, <3>2, <4>1, <4>2
      <3> QED
        BY <3>1, <3>2
    <2>7. f = step(f)
      BY <2>5, <2>6
    <2>8. found = step(found)
      <3> HIDE DEF step
      <3> QED
        BY <2>7
    <2> HIDE DEF found
    <2>9. /\ DOMAIN found = 0..m /\ found = [k \in 0..m |-> found[k]] /\ found[0] \in D
          /\ \A k \in 1..m : found[k-1] \in D => found[k] \in D
      <3>1. DOMAIN found = 0..m /\ found = [k \in 0..m |-> found[k]]
        BY <2>8
      <3>2. \A k \in 0..m : found[k] = IF k = 0 THEN << >> ELSE next(found[k-1], k)
        BY <2>8
      <3>3. 0 \in 0..m /\ \A k \in 1..m : k \in 0..m /\ k # 0
        BY <1>4
      <3> QED
        BY <2>1, <2>3, <3>1, <3>2, <3>3
    <2>10. found \in [0..m -> D]
      BY <1>4, <2>9, RunStays
    <2> QED
      BY <1>4, <2>10 DEF D
  <1> HIDE DEF found
  <1>6. left \in Seq(ShapeNodes) /\ (left # << >> => df # "ND")
    BY <1>5
  <1> HIDE DEF left
  <1>7. "RESERVED" \notin {df}
    BY <1>1 DEF WellLinked
  <1>8. tensor \in FmTensors(fms) /\ "RESERVED" \notin fms /\ df \in fms
    <2> DEFINE more == {df}
    <2>1. "RESERVED" \notin more /\ df \in more /\ fms = FmsOf \cup more
      BY <1>7
    <2> HIDE DEF more, df, fms
    <2> QED
      BY <1>1, <2>1, FormatsAre
  <1>9. \A c \in cells : c[1] \in ToSet(left)
    BY DEF In, Out
  <1>10. cells # {} => df # "ND"
    <2>1. ToSet(left) # {} => left # << >>
      BY DEF ToSet
    <2> QED
      BY <1>6, <2>1
  <1> HIDE DEF cells, df, fms
  <1>11. ten \in FmTensors(fms) /\ \A c \in AllCells : ten[c] = IF c \in cells THEN [format |-> df, origin |-> df] ELSE tensor[c]
    BY <1>8, PutFormatIs
  <1> HIDE DEF ten
  <1>12. Behind(ten, ToSet(job.queue) \cup ToSet(left))
    <2> SUFFICES ASSUME NEW k \in 1..Len(shape.links), NEW b \in BOOLEAN, Unmet(ten, Half(k, b)),
                        Half(k, b)[1][1] \notin ToSet(left)
                 PROVE  FALSE
      BY DEF Behind
    <2> DEFINE c == Half(k, b)[1]
               d == Half(k, b)[2]
    <2>1. c \in AllCells /\ d \in AllCells
      BY <1>1, HalvesAre
    <2>2. ten[c].origin # "ND" /\ ten[d].origin = "ND" /\ ~Exempt(d)
      BY DEF Unmet
    <2>3. c \notin cells
      BY <1>9
    <2>4. d \notin cells
      <3> SUFFICES ASSUME d \in cells PROVE FALSE
        OBVIOUS
      <3>1. ten[d].origin = df /\ df # "ND"
        BY <1>10, <1>11, <2>1
      <3> QED
        BY <2>2, <3>1
    <2>5. Unmet(tensor, Half(k, b))
      BY <1>11, <2>1, <2>2, <2>3, <2>4 DEF Unmet
    <2>6. c[1] \in ToSet(job.queue) \cup ToSet(job.todo)
      BY <1>1, <2>5 DEF Behind
    <2> QED
      BY <1>1, <2>6 DEF ToSet
  <1>13. job' = [stage |-> st, todo |-> left, queue |-> job.queue, datas |-> job.datas,
                 table |-> job.table, runs |-> job.runs]
    BY <1>2, <1>3
  <1>14. st # "idle"
    OBVIOUS
  <1> HIDE DEF st
  <1> QED
    BY <1>1, <1>2, <1>3, <1>6, <1>8, <1>11, <1>12, <1>13, <1>14, SpreadInvFrom

(* The anchors: every node with a format is one of them, and its corrections  *)
(* do not reach the tensors of another.                                       *)
FmPoints(fms) == [ten : FmTensors(fms), ok : BOOLEAN, datas : Seq(ShapeNodes), anchors : Seq(ShapeNodes)]
AnchorFms(fms) ==
    /\ "RESERVED" \notin fms /\ {"ND", "NDHWC", "NCDHW"} \subseteq fms
    /\ \A n \in ShapeNodes : shape.value[n] # NoAttr => shape.value[n] \in FmPairs(fms)
Bare(ten, n) == \A c \in CellsOf(n) : ten[c].format = "ND"

LEMMA RefreshConstantIs ==
  ASSUME WellLinked, NEW fms, AnchorFms(fms), NEW s \in FmPoints(fms), NEW n \in ShapeNodes
  PROVE  LET t == RefreshConstantOutProcess(s, n) IN
         /\ t \in FmPoints(fms) /\ t.anchors = s.anchors /\ (t.ok => s.ok)
         /\ \A c \in AllCells : c[1] # n => t.ten[c] = s.ten[c]
  <1> DEFINE v == shape.value[n]
             ten == [s.ten EXCEPT ![Out(n, 0)] = v]
  <1>1. CASE shape.type[n] # "Constant" \/ inferred
    BY <1>1 DEF RefreshConstantOutProcess
  <1>2. CASE ~(shape.type[n] # "Constant" \/ inferred) /\ v = NoAttr
    <2> DEFINE t == [s EXCEPT !.ok = FALSE]
    <2>1. RefreshConstantOutProcess(s, n) = t
      BY <1>2 DEF RefreshConstantOutProcess
    <2>2. t \in FmPoints(fms) /\ t.anchors = s.anchors /\ t.ten = s.ten /\ ~t.ok
      BY DEF FmPoints
    <2> HIDE DEF t
    <2> QED
      BY <2>1, <2>2
  <1>3. CASE ~(shape.type[n] # "Constant" \/ inferred) /\ v # NoAttr
    <2> DEFINE t == [s EXCEPT !.ten = ten]
    <2>1. RefreshConstantOutProcess(s, n) = t
      BY <1>3 DEF RefreshConstantOutProcess
    <2>2. v \in FmPairs(fms)
      BY <1>3 DEF AnchorFms
    <2> HIDE DEF v
    <2>3. s.ten \in FmTensors(fms)
      BY DEF FmPoints
    <2>4. ten \in FmTensors(fms) /\ \A c \in AllCells : c # Out(n, 0) => ten[c] = s.ten[c]
      BY <2>2, <2>3 DEF FmTensors
    <2> HIDE DEF ten
    <2>5. t \in FmPoints(fms) /\ t.anchors = s.anchors /\ t.ten = ten /\ t.ok = s.ok
      BY <2>4 DEF FmPoints
    <2>6. \A c \in AllCells : c[1] # n => c # Out(n, 0)
      BY DEF Out
    <2> HIDE DEF t
    <2> QED
      BY <2>1, <2>4, <2>5, <2>6
  <1> QED
    BY <1>1, <1>2, <1>3

LEMMA BiasAddFixIs ==
  ASSUME NEW fms, AnchorFms(fms), NEW ten \in FmTensors(fms), NEW n \in ShapeNodes
  PROVE  /\ BiasAddFormatFixProcess(ten, n) \in FmTensors(fms)
         /\ \A c \in AllCells : c[1] # n => BiasAddFormatFixProcess(ten, n)[c] = ten[c]
  <1> DEFINE fix(c) == IF shape.dim[c] = 5 THEN Fixed(ten[c].origin) ELSE "ND"
             hit(c) == shape.dim[c] = 5 \/ (c[2] = "in" /\ shape.dim[c] < 4)
             fixed == [c \in DOMAIN ten |-> IF c \in CellsOf(n) /\ hit(c) THEN [format |-> fix(c), origin |-> fix(c)] ELSE ten[c]]
  <1>1. CASE shape.type[n] \notin {"BiasAdd", "BiasAddGrad"}
    <2>1. BiasAddFormatFixProcess(ten, n) = ten
      BY <1>1 DEF BiasAddFormatFixProcess
    <2> QED
      BY <2>1
  <1>2. CASE shape.type[n] \in {"BiasAdd", "BiasAddGrad"}
    <2>1. BiasAddFormatFixProcess(ten, n) = fixed
      BY <1>2 DEF BiasAddFormatFixProcess
    <2>2. DOMAIN ten = AllCells /\ \A c \in AllCells : ten[c] \in FmPairs(fms)
      BY DEF FmTensors
    <2>3. \A c \in AllCells : fix(c) \in fms
      <3> TAKE c \in AllCells
      <3>1. ten[c].origin \in fms
        BY <2>2 DEF FmPairs
      <3>2. Fixed(ten[c].origin) \in fms
        <4> DEFINE o == ten[c].origin
        <4> HIDE DEF o
        <4>1. Fixed(o) = "NDHWC" \/ Fixed(o) = "NCDHW" \/ Fixed(o) = o
          BY DEF Fixed
        <4> QED
          BY <3>1, <4>1 DEF AnchorFms, o
      <3> QED
        BY <3>2 DEF AnchorFms
    <2> HIDE DEF fix, hit
    <2>4. \A c \in AllCells : [format |-> fix(c), origin |-> fix(c)] \in FmPairs(fms)
      BY <2>3 DEF FmPairs
    <2>5. fixed \in FmTensors(fms)
      BY <2>2, <2>4 DEF FmTensors
    <2>6. \A c \in AllCells : c[1] # n => fixed[c] = ten[c]
      BY <2>2, CellsAreOfNodes
    <2> HIDE DEF fixed
    <2> QED
      BY <2>1, <2>5, <2>6
  <1> QED
    BY <1>1, <1>2

LEMMA PointAtIs ==
  ASSUME WellLinked, NEW fms, AnchorFms(fms), NEW s \in FmPoints(fms), NEW n \in ShapeNodes
  PROVE  LET t == PointAt(s, n) IN
         /\ t \in FmPoints(fms) /\ (t.ok => s.ok)
         /\ t.ok => ToSet(s.anchors) \subseteq ToSet(t.anchors)
         /\ t.ok => \A c \in AllCells : c[1] # n => t.ten[c] = s.ten[c]
         /\ t.ok => n \in ToSet(t.anchors) \/ Bare(t.ten, n)
  <1> DEFINE fresh == RefreshConstantOutProcess(s, n)
             more  == [i \in 1..shape.ins[n] |-> n]
             noted == [fresh EXCEPT !.datas = fresh.datas \o more]
             seen  == IF shape.type[n] = "Data" THEN noted ELSE fresh
             ten   == BiasAddFormatFixProcess(seen.ten, n)
             last  == [seen EXCEPT !.ten = ten, !.anchors = Append(seen.anchors, n)]
             t     == PointAt(s, n)
  <1>1. t = IF ~s.ok THEN s ELSE IF ~fresh.ok THEN fresh ELSE IF ~IsAnchor(seen.ten, n) THEN seen ELSE last
    BY DEF PointAt
  <1>2. /\ fresh \in FmPoints(fms) /\ fresh.anchors = s.anchors /\ (fresh.ok => s.ok)
        /\ \A c \in AllCells : c[1] # n => fresh.ten[c] = s.ten[c]
    BY RefreshConstantIs
  <1> HIDE DEF fresh
  <1>3. /\ seen \in FmPoints(fms) /\ seen.anchors = s.anchors /\ seen.ok = fresh.ok /\ seen.ten = fresh.ten
    <2>1. more \in Seq(ShapeNodes)
      <3>1. shape.ins[n] \in Nat
        BY DEF WellLinked
      <3> QED
        BY <3>1
    <2> HIDE DEF more
    <2>2. fresh.datas \o more \in Seq(ShapeNodes)
      <3>1. fresh.datas \in Seq(ShapeNodes)
        BY <1>2 DEF FmPoints
      <3> QED
        BY <2>1, <3>1
    <2>3. noted \in FmPoints(fms) /\ noted.anchors = fresh.anchors /\ noted.ok = fresh.ok /\ noted.ten = fresh.ten
      <3> DEFINE da == fresh.datas \o more
      <3> HIDE DEF da
      <3>1. da \in Seq(ShapeNodes) /\ noted = [fresh EXCEPT !.datas = da]
        BY <2>2 DEF da
      <3> QED
        BY <1>2, <3>1 DEF FmPoints
    <2> HIDE DEF noted
    <2> QED
      BY <1>2, <2>3
  <1> HIDE DEF seen
  <1>4. CASE ~s.ok \/ ~fresh.ok
    <2>1. t \in {s, fresh} /\ ~t.ok
      BY <1>1, <1>2, <1>4
    <2> HIDE DEF t
    <2> QED
      BY <1>2, <2>1 DEF t
  <1>5. CASE ~(~s.ok \/ ~fresh.ok) /\ ~IsAnchor(seen.ten, n)
    <2>1. t = seen
      BY <1>1, <1>5
    <2>2. Bare(seen.ten, n)
      <3> SUFFICES ASSUME NEW c \in CellsOf(n) PROVE seen.ten[c].format = "ND"
        BY DEF Bare
      <3>1. seen.ten[c] \in FmPairs(fms)
        BY <1>3, CellsAreOfNodes DEF FmPoints, FmTensors
      <3>2. seen.ten[c].format \in fms /\ seen.ten[c].format \in {"ND", "RESERVED"}
        BY <1>5, <3>1 DEF IsAnchor, FmPairs
      <3> QED
        BY <3>2 DEF AnchorFms
    <2> HIDE DEF t
    <2> QED
      BY <1>2, <1>3, <1>5, <2>1, <2>2 DEF t
  <1>6. CASE ~(~s.ok \/ ~fresh.ok) /\ IsAnchor(seen.ten, n)
    <2>1. t = last
      BY <1>1, <1>6
    <2>2. seen.ten \in FmTensors(fms) /\ seen.anchors \in Seq(ShapeNodes)
      BY <1>3 DEF FmPoints
    <2>3. ten \in FmTensors(fms) /\ \A c \in AllCells : c[1] # n => ten[c] = seen.ten[c]
      BY <2>2, BiasAddFixIs
    <2> HIDE DEF ten
    <2> DEFINE an == Append(seen.anchors, n)
    <2>4. an \in Seq(ShapeNodes) /\ ToSet(seen.anchors) \subseteq ToSet(an) /\ n \in ToSet(an)
      <3> DEFINE q == seen.anchors
      <3>1. q \in Seq(ShapeNodes)
        BY <2>2
      <3> HIDE DEF q
      <3>2. Append(q, n) \in Seq(ShapeNodes) /\ ToSet(q) \subseteq ToSet(Append(q, n)) /\ n \in ToSet(Append(q, n))
        BY <3>1 DEF ToSet
      <3> QED
        BY <3>2 DEF q
    <2> HIDE DEF an
    <2>5. last = [seen EXCEPT !.ten = ten, !.anchors = an]
      BY DEF an
    <2>6. last \in FmPoints(fms) /\ last.ten = ten /\ last.anchors = an /\ last.ok = seen.ok
      BY <1>3, <2>3, <2>4, <2>5 DEF FmPoints
    <2> HIDE DEF t, last
    <2> QED
      BY <1>2, <1>3, <1>6, <2>1, <2>3, <2>4, <2>6 DEF t
  <1> QED
    BY <1>4, <1>5, <1>6

LEMMA GetAnchorPointsIs ==
  ASSUME WellLinked, NEW fms, AnchorFms(fms), tensor \in FmTensors(fms)
  PROVE  LET t == GetAnchorPoints IN
         /\ t \in FmPoints(fms)
         /\ t.ok => \A n \in ShapeNodes : n \in ToSet(t.anchors) \/ Bare(t.ten, n)
  <1> DEFINE m == Len(shape.order)
             s == [ten |-> tensor, ok |-> TRUE, datas |-> << >>, anchors |-> << >>]
             next(x, k) == PointAt(x, shape.order[k])
             step(g) == [k \in 0..m |-> IF k = 0 THEN s ELSE next(g[k-1], k)]
             points == CHOOSE g : g = step(g)
             D == FmPoints(fms)
             F == [p \in D \X (1..m) |-> next(p[1], p[2])]
             PointSeen(x, j) == x.ok => shape.order[j] \in ToSet(x.anchors) \/ Bare(x.ten, shape.order[j])
  <1>1. m \in Nat /\ s \in D /\ \A k \in 1..m : shape.order[k] \in ShapeNodes
    <2>1. shape.order \in Seq(ShapeNodes)
      BY DEF WellLinked
    <2>2. << >> \in Seq(ShapeNodes)
      OBVIOUS
    <2> QED
      BY <2>1, <2>2 DEF FmPoints
  <1>2. GetAnchorPoints = points[m]
    BY DEF GetAnchorPoints
  <1> HIDE DEF m, s
  <1>3. ASSUME NEW x \in D, NEW k \in 1..m
        PROVE  /\ next(x, k) \in D /\ PointSeen(next(x, k), k)
               /\ \A j \in 1..m : PointSeen(x, j) => PointSeen(next(x, k), j)
    <2> DEFINE n == shape.order[k]
               t == PointAt(x, n)
    <2>1. n \in ShapeNodes
      BY <1>1
    <2> HIDE DEF n
    <2>2. /\ t \in FmPoints(fms) /\ (t.ok => x.ok)
          /\ t.ok => ToSet(x.anchors) \subseteq ToSet(t.anchors)
          /\ t.ok => \A c \in AllCells : c[1] # n => t.ten[c] = x.ten[c]
          /\ t.ok => n \in ToSet(t.anchors) \/ Bare(t.ten, n)
      BY <2>1, PointAtIs
    <2>3. next(x, k) = t
      BY DEF n
    <2> HIDE DEF t, next
    <2>4. ASSUME NEW j \in 1..m, PointSeen(x, j) PROVE PointSeen(t, j)
      <3> DEFINE o == shape.order[j]
      <3>1. o \in ShapeNodes
        BY <1>1
      <3>2. CASE o = n
        BY <2>2, <3>2
      <3>3. CASE o # n
        <4> HIDE DEF o
        <4>1. t.ok /\ Bare(x.ten, o) => Bare(t.ten, o)
          BY <2>2, <3>1, <3>3, CellsAreOfNodes DEF Bare
        <4> QED
          BY <2>2, <2>4, <4>1 DEF o
      <3> QED
        BY <3>2, <3>3
    <2>5. PointSeen(t, k)
      BY <2>2 DEF n
    <2> HIDE DEF PointSeen
    <2> QED
      BY <2>2, <2>3, <2>4, <2>5
  <1> HIDE DEF next
  <1>4. \A x \in D, k \in 1..m : F[<<x, k>>] = next(x, k)
    BY DEF F
  <1> HIDE DEF D, F
  <1>5. PICK f : Solves(f, D, m, s, F)
    BY <1>1, <1>3, <1>4, RunExists
  <1>6. f = step(f)
    <2>1. f \in [0..m -> D] /\ f[0] = s /\ \A k \in 1..m : f[k] = F[<<f[k-1], k>>]
      BY <1>5 DEF Solves
    <2>2. ASSUME NEW k \in 0..m PROVE f[k] = IF k = 0 THEN s ELSE next(f[k-1], k)
      <3>1. CASE k = 0
        BY <2>1, <3>1
      <3>2. CASE k # 0
        <4>1. k \in 1..m /\ k - 1 \in 0..m
          BY <1>1, <3>2
        <4>2. f[k-1] \in D
          BY <2>1, <4>1
        <4> QED
          BY <1>4, <2>1, <3>2, <4>1, <4>2
      <3> QED
        BY <3>1, <3>2
    <2> QED
      BY <2>1, <2>2
  <1>7. points = step(points)
    <2> HIDE DEF step
    <2> QED
      BY <1>6
  <1> HIDE DEF points
  <1>8. points[0] = s /\ \A k \in 1..m : points[k] = next(points[k-1], k)
    <2>1. \A k \in 0..m : points[k] = IF k = 0 THEN s ELSE next(points[k-1], k)
      BY <1>7
    <2>2. 0 \in 0..m /\ \A k \in 1..m : k \in 0..m /\ k # 0
      BY <1>1
    <2> QED
      BY <2>1, <2>2
  <1> HIDE DEF PointSeen
  <1>9. \A k \in 0..m : points[k] \in D /\ \A j \in 1..k : PointSeen(points[k], j)
    <2> DEFINE A == {k \in 0..m : points[k] \in D /\ \A j \in 1..k : PointSeen(points[k], j)}
    <2>1. 0 \in A
      <3>1. 0 \in 0..m /\ 1..0 = {}
        BY <1>1
      <3> QED
        BY <1>1, <1>8, <3>1
    <2>2. ASSUME NEW k \in 1..m, k - 1 \in A PROVE k \in A
      <3> DEFINE x == points[k-1]
                 t == points[k]
      <3>1. k \in 0..m /\ x \in D /\ \A j \in 1..k-1 : PointSeen(x, j)
        BY <1>1, <2>2
      <3>2. t = next(x, k)
        BY <1>8
      <3> HIDE DEF x, t
      <3>3. t \in D /\ PointSeen(t, k) /\ \A j \in 1..m : PointSeen(x, j) => PointSeen(t, j)
        BY <1>3, <3>1, <3>2
      <3>4. \A j \in 1..k : (j \in 1..k-1 /\ j \in 1..m) \/ j = k
        BY <1>1
      <3>5. t \in D /\ \A j \in 1..k : PointSeen(t, j)
        BY <3>1, <3>3, <3>4
      <3> QED
        BY <3>1, <3>5 DEF t
    <2>3. \A k \in 0..m : k \in A
      <3> HIDE DEF A
      <3> QED
        BY <1>1, <2>1, <2>2, CountUp
    <2> QED
      BY <2>3
  <1> DEFINE t == points[m]
  <1>10. t \in D /\ \A j \in 1..m : PointSeen(t, j)
    BY <1>1, <1>9
  <1> HIDE DEF t
  <1>11. t.ok => \A n \in ShapeNodes : n \in ToSet(t.anchors) \/ Bare(t.ten, n)
    <2> SUFFICES ASSUME t.ok, NEW n \in ShapeNodes PROVE n \in ToSet(t.anchors) \/ Bare(t.ten, n)
      OBVIOUS
    <2>1. PICK j \in 1..m : shape.order[j] = n
      <3>1. shape.order \in Seq(ShapeNodes)
        BY DEF WellLinked
      <3>2. DOMAIN shape.order = 1..m
        BY <3>1 DEF m
      <3> QED
        BY <3>2 DEF ShapeNodes, ToSet
    <2> QED
      BY <1>10, <2>1 DEF PointSeen
  <1> QED
    BY <1>2, <1>10, <1>11 DEF t, D

(* After their origin formats are refreshed, nothing is behind the anchors.   *)
LEMMA AnchorsAhead ==
  ASSUME WellLinked, NEW fms, AnchorFms(fms), NEW ten \in FmTensors(fms), NEW anchors,
         \A n \in ShapeNodes : n \in ToSet(anchors) \/ Bare(ten, n)
  PROVE  LET new == RefreshOriginFormatOfAnchor(ten, anchors) IN
         new \in FmTensors(fms) /\ Behind(new, ToSet(anchors))
  <1> DEFINE new == RefreshOriginFormatOfAnchor(ten, anchors)
             W == ToSet(anchors)
  <1>1. DOMAIN ten = AllCells /\ \A c \in AllCells : ten[c] \in FmPairs(fms)
    BY DEF FmTensors
  <1>2. new = [c \in AllCells |-> IF c[1] \in W /\ ten[c].origin \in {"ND", "RESERVED"}
                                  THEN [format |-> ten[c].format, origin |-> ten[c].format] ELSE ten[c]]
    BY <1>1 DEF RefreshOriginFormatOfAnchor
  <1> HIDE DEF new, W
  <1>3. \A c \in AllCells : [format |-> ten[c].format, origin |-> ten[c].format] \in FmPairs(fms)
    BY <1>1 DEF FmPairs
  <1>4. new \in FmTensors(fms)
    BY <1>1, <1>2, <1>3 DEF FmTensors
  <1>5. ASSUME NEW k \in 1..Len(shape.links), NEW b \in BOOLEAN, Unmet(new, Half(k, b)), Half(k, b)[1][1] \notin W
        PROVE  FALSE
    <2> DEFINE c == Half(k, b)[1]
    <2>1. c \in AllCells /\ c[1] \in ShapeNodes /\ c \in CellsOf(c[1])
      BY HalvesAre, CellsAreOfNodes
    <2>2. new[c] = ten[c] /\ new[c].origin # "ND"
      BY <1>2, <1>5, <2>1 DEF Unmet
    <2>3. ten[c].format = "ND"
      BY <1>5, <2>1 DEF Bare, W
    <2>4. ten[c] \in FmPairs(fms)
      BY <1>1, <2>1
    <2> QED
      BY <2>2, <2>3, <2>4 DEF FmPairs
  <1> QED
    BY <1>4, <1>5 DEF Behind, new, W

(* The relations: finite sets of cells of nodes.                              *)
CellsNamed == ShapeNodes \X {"in", "out"} \X Int
Rels == {R \in SUBSET CellsNamed : IsFiniteSet(R)}

LEMMA ImageIsFinite ==
  ASSUME NEW W, IsFiniteSet(W), NEW f, DOMAIN f = W, f = [w \in W |-> f[w]]
  PROVE  IsFiniteSet({f[w] : w \in W})
  <1> DEFINE A == {f[w] : w \in W}
  <1>1. f \in Surjection(W, A)
    BY DEF Surjection
  <1> HIDE DEF A
  <1>2. IsFiniteSet(A)
    BY <1>1, FS_Surjection
  <1> QED
    BY <1>2 DEF A

LEMMA NodesAreFinite ==
  ASSUME WellLinked
  PROVE  /\ IsFiniteSet(ShapeNodes)
         /\ \A S \in SUBSET ShapeNodes : IsFiniteSet(S)
  <1> DEFINE o == shape.order
  <1>1. o \in Seq(ShapeNodes)
    BY DEF WellLinked
  <1>2. DOMAIN o = 1..Len(o) /\ Len(o) \in Nat /\ o = [i \in DOMAIN o |-> o[i]]
    BY <1>1
  <1>3. IsFiniteSet(DOMAIN o)
    BY <1>2, FS_Interval
  <1>4. ShapeNodes = {o[i] : i \in DOMAIN o}
    BY DEF ShapeNodes, ToSet
  <1> HIDE DEF o
  <1>5. IsFiniteSet(ShapeNodes)
    BY <1>2, <1>3, <1>4, ImageIsFinite
  <1> QED
    BY <1>5, FS_Subset

LEMMA JoinsAreRels ==
  ASSUME NEW A \in Rels, NEW B \in Rels
  PROVE  A \cup B \in Rels
  BY FS_Union DEF Rels

LEMMA OneIsRel ==
  ASSUME NEW n \in ShapeNodes, NEW i \in Int
  PROVE  {In(n, i)} \in Rels /\ {Out(n, i)} \in Rels
  <1>1. In(n, i) \in CellsNamed /\ Out(n, i) \in CellsNamed
    BY DEF CellsNamed, In, Out
  <1>2. \A c \in CellsNamed : {c} \in Rels
    BY FS_Singleton DEF Rels
  <1> QED
    BY <1>1, <1>2

LEMMA DataCellsAreRels ==
  ASSUME WellLinked, NEW f, NEW k
  PROVE  DataCells(f, k) \in Rels
  <1> DEFINE W == {d \in GetDataOfSubGraph(f) : Index(In(d, 0)) = k}
             g == [n \in W |-> In(n, 0)]
             h == [n \in W |-> Out(n, 0)]
             A == {g[w] : w \in W}
             B == {h[w] : w \in W}
  <1>1. W \in SUBSET ShapeNodes
    BY DEF GetDataOfSubGraph
  <1>2. DataCells(f, k) = A \cup B
    BY DEF DataCells
  <1>3. A \in SUBSET CellsNamed /\ B \in SUBSET CellsNamed
    <2>1. \A n \in W : In(n, 0) \in CellsNamed /\ Out(n, 0) \in CellsNamed
      <3> HIDE DEF W
      <3> QED
        BY <1>1 DEF CellsNamed, In, Out
    <2> HIDE DEF W
    <2> QED
      BY <2>1
  <1>4. DOMAIN g = W /\ g = [w \in W |-> g[w]] /\ DOMAIN h = W /\ h = [w \in W |-> h[w]]
    OBVIOUS
  <1>5. IsFiniteSet(W)
    BY <1>1, NodesAreFinite
  <1> HIDE DEF g, h, W
  <1>6. IsFiniteSet(A) /\ IsFiniteSet(B)
    BY <1>4, <1>5, ImageIsFinite
  <1> HIDE DEF A, B
  <1>7. A \in Rels /\ B \in Rels
    BY <1>3, <1>6 DEF Rels
  <1> QED
    BY <1>2, <1>7, JoinsAreRels

LEMMA InputsAreFinite ==
  ASSUME WellLinked, NEW n \in ShapeNodes
  PROVE  IsFiniteSet(InsOf(n)) /\ InsOf(n) \subseteq CellsNamed
  <1> DEFINE W == 0..shape.ins[n]-1
             g == [i \in W |-> In(n, i)]
  <1>1. shape.ins[n] \in Nat
    BY DEF WellLinked
  <1>2. IsFiniteSet(W)
    BY <1>1, FS_Interval
  <1>3. InsOf(n) = {g[w] : w \in W}
    BY DEF InsOf
  <1>4. InsOf(n) \subseteq CellsNamed
    BY <1>1 DEF InsOf, CellsNamed, In
  <1>5. DOMAIN g = W /\ g = [w \in W |-> g[w]]
    OBVIOUS
  <1> HIDE DEF g, W
  <1> QED
    BY <1>2, <1>3, <1>4, <1>5, ImageIsFinite

LEMMA NetCellsAreRels ==
  ASSUME WellLinked, NEW f, NEW k
  PROVE  NetCells(f, k) \in Rels
  <1> DEFINE W == GetNetoutputOfSubGraph(f)
             g == [n \in W |-> InsOf(n)]
             A == {g[w] : w \in W}
  <1>1. W \in SUBSET ShapeNodes
    BY DEF GetNetoutputOfSubGraph
  <1>2. NetCells(f, k) \subseteq UNION A
    BY DEF NetCells
  <1>3. IsFiniteSet(W)
    BY <1>1, NodesAreFinite
  <1>4. \A T \in A : IsFiniteSet(T) /\ T \subseteq CellsNamed
    BY <1>1, InputsAreFinite
  <1>5. DOMAIN g = W /\ g = [w \in W |-> g[w]]
    OBVIOUS
  <1> HIDE DEF g, W
  <1>6. IsFiniteSet(A)
    BY <1>3, <1>5, ImageIsFinite
  <1> HIDE DEF A
  <1>7. IsFiniteSet(UNION A)
    BY <1>4, <1>6, FS_UNION
  <1>8. IsFiniteSet(NetCells(f, k))
    BY <1>2, <1>7, FS_Subset
  <1> QED
    BY <1>2, <1>4, <1>8 DEF Rels

LEMMA MaxElemIs ==
  ASSUME WellLinked, NEW f
  PROVE  MaxElem(f) \in Nat
  <1>1. IsFiniteSet(GetDataOfSubGraph(f))
    BY NodesAreFinite DEF GetDataOfSubGraph
  <1>2. Cardinality(GetDataOfSubGraph(f)) \in Nat
    BY <1>1, FS_CardinalityType
  <1> QED
    BY <1>2, FormatAssumption DEF MaxElem

LEMMA LoopCellsAreRels ==
  ASSUME WellLinked, NEW f \in ShapeNodes, NEW k \in Int
  PROVE  LoopCells(f, k) \in Rels
  <1>1. LoopCells(f, k) = (({In(f, k)} \cup {Out(f, k)}) \cup DataCells(f, k)) \cup NetCells(f, k)
    BY DEF LoopCells
  <1>2. {In(f, k)} \cup {Out(f, k)} \in Rels
    BY OneIsRel, JoinsAreRels
  <1>3. ({In(f, k)} \cup {Out(f, k)}) \cup DataCells(f, k) \in Rels
    BY <1>2, DataCellsAreRels, JoinsAreRels
  <1> QED
    BY <1>1, <1>3, NetCellsAreRels, JoinsAreRels

LEMMA BranchIs ==
  ASSUME WellLinked, NEW f \in ShapeNodes
  PROVE  BuildRefRelationsForBranch(f) \in Seq(Rels)
  <1> DEFINE m == MaxElem(f)
             a == [k \in 1..m |-> {In(f, k-1)} \cup DataCells(f, k-1)]
             b == [k \in 1..m |-> {Out(f, k-1)} \cup NetCells(f, k-1)]
  <1>1. m \in Nat
    BY MaxElemIs
  <1> HIDE DEF m
  <1>2. \A k \in 1..m : a[k] \in Rels
    <2> TAKE k \in 1..m
    <2>0. k - 1 \in Int
      BY <1>1
    <2>1. {In(f, k-1)} \in Rels
      BY <2>0, OneIsRel
    <2>2. DataCells(f, k-1) \in Rels
      BY DataCellsAreRels
    <2> QED
      BY <2>1, <2>2, JoinsAreRels
  <1>3. \A k \in 1..m : b[k] \in Rels
    <2> TAKE k \in 1..m
    <2>0. k - 1 \in Int
      BY <1>1
    <2>1. {Out(f, k-1)} \in Rels
      BY <2>0, OneIsRel
    <2>2. NetCells(f, k-1) \in Rels
      BY NetCellsAreRels
    <2> QED
      BY <2>1, <2>2, JoinsAreRels
  <1>4. BuildRefRelationsForBranch(f) = a \o b
    BY DEF BuildRefRelationsForBranch, m
  <1>5. DOMAIN a = 1..m /\ DOMAIN b = 1..m /\ a = [k \in 1..m |-> a[k]] /\ b = [k \in 1..m |-> b[k]]
    OBVIOUS
  <1> HIDE DEF a, b
  <1>6. a \in Seq(Rels) /\ b \in Seq(Rels)
    <2>1. a \in [1..m -> Rels] /\ b \in [1..m -> Rels]
      BY <1>2, <1>3, <1>5
    <2> QED
      BY <1>1, <2>1
  <1>7. a \o b \in Seq(Rels)
    BY <1>6
  <1> QED
    BY <1>4, <1>7

(* A loop's relations are joined at indexes of its inputs, one passage after   *)
(* the other.                                                                 *)
LoopRun(f, refs) ==
    /\ refs \in [0..Len(Straight(f)) -> [1..shape.ins[f] -> Rels]]
    /\ refs[0] = [i \in 1..shape.ins[f] |-> LoopCells(f, i-1)]
    /\ \A k \in 1..Len(Straight(f)) : refs[k] = Join(refs[k-1], Straight(f)[k])
    /\ BuildRefRelationsForWhile(f) = refs[Len(Straight(f))]

LEMMA WhileRuns ==
  ASSUME WellLinked, NEW f \in FunctionNodes, shape.type[f] = "While"
  PROVE  \E refs : LoopRun(f, refs)
  <1> DEFINE pairs == Straight(f)
             m == Len(pairs)
             n == shape.ins[f]
             s == [i \in 1..n |-> LoopCells(f, i-1)]
             next(x, k) == Join(x, pairs[k])
             step(g) == [k \in 0..m |-> IF k = 0 THEN s ELSE next(g[k-1], k)]
             refs == CHOOSE g : g = step(g)
             D == [1..n -> Rels]
             F == [p \in D \X (1..m) |-> next(p[1], p[2])]
  <1>0. f \in ShapeNodes
    BY DEF FunctionNodes
  <1>1. n \in Nat /\ pairs \in Seq((0..n-1) \X (0..n-1))
    BY <1>0 DEF WellLinked
  <1>2. BuildRefRelationsForWhile(f) = refs[m]
    BY DEF BuildRefRelationsForWhile
  <1> HIDE DEF pairs, n
  <1>3. m \in Nat /\ \A k \in 1..m : pairs[k] \in (0..n-1) \X (0..n-1)
    <2> DEFINE E == (0..n-1) \X (0..n-1)
    <2>1. pairs \in Seq(E)
      BY <1>1
    <2> HIDE DEF E
    <2>2. m \in Nat /\ \A k \in 1..m : pairs[k] \in E
      BY <2>1
    <2> QED
      BY <2>2 DEF E
  <1>4. s \in D
    <2>1. \A i \in 1..n : LoopCells(f, i-1) \in Rels
      <3> TAKE i \in 1..n
      <3>1. i - 1 \in Int
        BY <1>1
      <3> QED
        BY <1>0, <3>1, LoopCellsAreRels
    <2> QED
      BY <2>1
  <1> HIDE DEF m, s
  <1>5. ASSUME NEW x \in D, NEW k \in 1..m PROVE next(x, k) \in D
    <2> DEFINE a == pairs[k][1] + 1
               b == pairs[k][2] + 1
               joined == x[a] \cup x[b]
    <2>1. a \in 1..n /\ b \in 1..n
      <3> DEFINE p == pairs[k]
      <3>1. p \in (0..n-1) \X (0..n-1)
        BY <1>3
      <3> HIDE DEF p
      <3>2. p[1] \in 0..n-1 /\ p[2] \in 0..n-1
        BY <3>1
      <3>3. p[1] + 1 \in 1..n /\ p[2] + 1 \in 1..n
        BY <1>1, <3>2
      <3> QED
        BY <3>3 DEF p
    <2>2. joined \in Rels
      <3> HIDE DEF a, b
      <3>1. x[a] \in Rels /\ x[b] \in Rels
        BY <2>1
      <3> QED
        BY <3>1, JoinsAreRels
    <2>3. next(x, k) = [x EXCEPT ![a] = joined, ![b] = joined]
      BY DEF Join
    <2> HIDE DEF joined, a, b, next
    <2> QED
      BY <2>1, <2>2, <2>3
  <1>15. \A x, k : next(x, k) = Join(x, pairs[k])
    OBVIOUS
  <1> HIDE DEF next
  <1>6. \A x \in D, k \in 1..m : F[<<x, k>>] = next(x, k)
    BY DEF F
  <1> HIDE DEF D, F
  <1>7. PICK g : Solves(g, D, m, s, F)
    BY <1>3, <1>4, <1>5, <1>6, RunExists
  <1>8. g = step(g)
    <2>1. g \in [0..m -> D] /\ g[0] = s /\ \A k \in 1..m : g[k] = F[<<g[k-1], k>>]
      BY <1>7 DEF Solves
    <2>2. ASSUME NEW k \in 0..m PROVE g[k] = IF k = 0 THEN s ELSE next(g[k-1], k)
      <3>1. CASE k = 0
        BY <2>1, <3>1
      <3>2. CASE k # 0
        <4>1. k \in 1..m /\ k - 1 \in 0..m
          BY <1>3, <3>2
        <4>2. g[k-1] \in D
          BY <2>1, <4>1
        <4> QED
          BY <1>6, <2>1, <3>2, <4>1, <4>2
      <3> QED
        BY <3>1, <3>2
    <2> QED
      BY <2>1, <2>2
  <1>9. refs = step(refs)
    <2> HIDE DEF step
    <2> QED
      BY <1>8
  <1> HIDE DEF refs
  <1>10. DOMAIN refs = 0..m /\ refs = [k \in 0..m |-> refs[k]]
    BY <1>9
  <1>11. refs[0] \in D /\ \A k \in 1..m : refs[k-1] \in D => refs[k] \in D
    <2>1. \A k \in 0..m : refs[k] = IF k = 0 THEN s ELSE next(refs[k-1], k)
      BY <1>9
    <2>2. 0 \in 0..m /\ \A k \in 1..m : k \in 0..m /\ k # 0
      BY <1>3
    <2> QED
      BY <1>4, <1>5, <2>1, <2>2
  <1>12. refs \in [0..m -> D]
    BY <1>3, <1>10, <1>11, RunStays
  <1>13. refs[0] = s /\ \A k \in 1..m : refs[k] = Join(refs[k-1], pairs[k])
    <2>1. \A k \in 0..m : refs[k] = IF k = 0 THEN s ELSE next(refs[k-1], k)
      BY <1>9
    <2>2. 0 \in 0..m /\ \A k \in 1..m : k \in 0..m /\ k # 0
      BY <1>3
    <2> QED
      BY <1>15, <2>1, <2>2
  <1>14. refs \in [0..m -> [1..n -> Rels]]
    BY <1>12 DEF D
  <1>16. \E h : h \in [0..m -> [1..n -> Rels]] /\ h[0] = s /\ BuildRefRelationsForWhile(f) = h[m]
               /\ \A k \in 1..m : h[k] = Join(h[k-1], pairs[k])
    BY <1>2, <1>13, <1>14
  <1> QED
    BY ONLY <1>16 DEF LoopRun, m, s, n, pairs

LEMMA WhileIs ==
  ASSUME WellLinked, NEW f \in FunctionNodes, shape.type[f] = "While"
  PROVE  BuildRefRelationsForWhile(f) \in Seq(Rels)
  <1> DEFINE n == shape.ins[f]
             m == Len(Straight(f))
  <1>1. n \in Nat /\ Straight(f) \in Seq((0..n-1) \X (0..n-1))
    BY DEF WellLinked, FunctionNodes
  <1>2. m \in 0..m
    <2> DEFINE E == (0..n-1) \X (0..n-1)
    <2>1. Straight(f) \in Seq(E)
      BY <1>1
    <2> HIDE DEF E
    <2>2. m \in Nat
      BY <2>1
    <2> QED
      BY <2>2
  <1>3. PICK refs : LoopRun(f, refs)
    BY WhileRuns
  <1>5. refs \in [0..m -> [1..n -> Rels]] /\ BuildRefRelationsForWhile(f) = refs[m]
    BY <1>3 DEF LoopRun
  <1> HIDE DEF m, n
  <1>4. refs[m] \in [1..n -> Rels]
    BY <1>2, <1>5
  <1> QED
    BY <1>1, <1>4, <1>5

(* The relations of the nodes, one node after the other.                      *)
RelationRun(values) ==
    /\ values \in [0..Len(shape.order) -> Seq(Rels)]
    /\ values[0] = << >>
    /\ \A k \in 1..Len(shape.order) : values[k] = values[k-1] \o
          (IF shape.order[k] \in FunctionNodes THEN BuildRelationsWithFuncNodeType(shape.order[k]) ELSE << >>)
    /\ BuildRefRelations = values[Len(shape.order)]

LEMMA RelationsRun ==
  ASSUME WellLinked
  PROVE  \E values : RelationRun(values)
  <1> DEFINE o == shape.order
             m == Len(o)
             s == << >>
             next(x, k) == x \o (IF o[k] \in FunctionNodes THEN BuildRelationsWithFuncNodeType(o[k]) ELSE << >>)
             step(g) == [k \in 0..m |-> IF k = 0 THEN s ELSE next(g[k-1], k)]
             values == CHOOSE g : g = step(g)
             D == Seq(Rels)
             F == [p \in D \X (1..m) |-> next(p[1], p[2])]
  <1>1. m \in Nat /\ s \in D
    BY DEF WellLinked
  <1>2. BuildRefRelations = values[m]
    BY DEF BuildRefRelations
  <1>3. ASSUME NEW x \in D, NEW k \in 1..m PROVE next(x, k) \in D
    <2> DEFINE f == o[k]
               more == IF f \in FunctionNodes THEN BuildRelationsWithFuncNodeType(f) ELSE << >>
    <2> HIDE DEF f
    <2>1. more \in Seq(Rels)
      <3>1. CASE f \notin FunctionNodes
        BY <3>1
      <3>2. CASE f \in FunctionNodes
        <4>1. f \in ShapeNodes
          BY <3>2 DEF FunctionNodes
        <4>2. BuildRelationsWithFuncNodeType(f) \in Seq(Rels)
          BY <3>2, <4>1, WhileIs, BranchIs DEF BuildRelationsWithFuncNodeType
        <4> QED
          BY <3>2, <4>2
      <3> QED
        BY <3>1, <3>2
    <2>2. next(x, k) = x \o more
      BY DEF f
    <2> HIDE DEF more, next
    <2> QED
      BY <2>1, <2>2
  <1>13. \A x, k : next(x, k) =
            x \o (IF shape.order[k] \in FunctionNodes THEN BuildRelationsWithFuncNodeType(shape.order[k]) ELSE << >>)
    OBVIOUS
  <1> HIDE DEF next, m, s
  <1>4. \A x \in D, k \in 1..m : F[<<x, k>>] = next(x, k)
    BY DEF F
  <1> HIDE DEF D, F
  <1>5. PICK g : Solves(g, D, m, s, F)
    BY <1>1, <1>3, <1>4, RunExists
  <1>6. g = step(g)
    <2>1. g \in [0..m -> D] /\ g[0] = s /\ \A k \in 1..m : g[k] = F[<<g[k-1], k>>]
      BY <1>5 DEF Solves
    <2>2. ASSUME NEW k \in 0..m PROVE g[k] = IF k = 0 THEN s ELSE next(g[k-1], k)
      <3>1. CASE k = 0
        BY <2>1, <3>1
      <3>2. CASE k # 0
        <4>1. k \in 1..m /\ k - 1 \in 0..m
          BY <1>1, <3>2
        <4>2. g[k-1] \in D
          BY <2>1, <4>1
        <4> QED
          BY <1>4, <2>1, <3>2, <4>1, <4>2
      <3> QED
        BY <3>1, <3>2
    <2> QED
      BY <2>1, <2>2
  <1>7. values = step(values)
    <2> HIDE DEF step
    <2> QED
      BY <1>6
  <1> HIDE DEF values
  <1>8. DOMAIN values = 0..m /\ values = [k \in 0..m |-> values[k]]
    BY <1>7
  <1>9. values[0] \in D /\ \A k \in 1..m : values[k-1] \in D => values[k] \in D
    <2>1. \A k \in 0..m : values[k] = IF k = 0 THEN s ELSE next(values[k-1], k)
      BY <1>7
    <2>2. 0 \in 0..m /\ \A k \in 1..m : k \in 0..m /\ k # 0
      BY <1>1
    <2> QED
      BY <1>1, <1>3, <2>1, <2>2
  <1>10. values \in [0..m -> D]
    BY <1>1, <1>8, <1>9, RunStays
  <1>11. values[0] = s /\ \A k \in 1..m : values[k] = next(values[k-1], k)
    <2>1. \A k \in 0..m : values[k] = IF k = 0 THEN s ELSE next(values[k-1], k)
      BY <1>7
    <2>2. 0 \in 0..m /\ \A k \in 1..m : k \in 0..m /\ k # 0
      BY <1>1
    <2> QED
      BY <2>1, <2>2
  <1>12. \A k \in 1..m : values[k] = values[k-1] \o
            (IF shape.order[k] \in FunctionNodes THEN BuildRelationsWithFuncNodeType(shape.order[k]) ELSE << >>)
    BY <1>11, <1>13
  <1>14. values \in [0..m -> D] /\ values[0] = s
    BY <1>10, <1>11
  <1>15. \E h : h \in [0..m -> D] /\ h[0] = s /\ BuildRefRelations = h[m]
               /\ \A k \in 1..m : h[k] = h[k-1] \o
                     (IF shape.order[k] \in FunctionNodes THEN BuildRelationsWithFuncNodeType(shape.order[k]) ELSE << >>)
    BY <1>2, <1>12, <1>14
  <1> QED
    BY ONLY <1>15 DEF RelationRun, D, m, s

LEMMA RelationsAre ==
  ASSUME WellLinked
  PROVE  BuildRefRelations \in Seq(Rels)
  <1> DEFINE m == Len(shape.order)
             D == Seq(Rels)
  <1>1. m \in 0..m
    BY DEF WellLinked
  <1>2. PICK values : RelationRun(values)
    BY RelationsRun
  <1>4. values \in [0..m -> D] /\ BuildRefRelations = values[m]
    BY <1>2 DEF RelationRun
  <1> HIDE DEF D, m
  <1>3. values[m] \in D
    BY <1>1, <1>4
  <1> QED
    BY <1>3, <1>4 DEF D

(* A tensor is looked up with the last relation it is in.                     *)
LEMMA LookedUp ==
  ASSUME NEW values \in Seq(Rels), NEW c, NEW i \in 1..Len(values), c \in values[i]
  PROVE  \E k \in 1..Len(values) : c \in values[k] /\ LookUpRefRelations(BuildLookUpTables(values), c) = values[k]
  <1> DEFINE m == Len(values)
             t == BuildLookUpTables(values)
             S == {k \in 1..m : c \in values[k]}
             Rest == {m - k : k \in S}
             last == Max(S)
  <1>1. m \in Nat /\ i \in S
    OBVIOUS
  <1>2. t[c] = values[last] /\ c \in DOMAIN t
    <2>1. c \in UNION {values[k] : k \in 1..m}
      OBVIOUS
    <2> QED
      BY <2>1 DEF BuildLookUpTables
  <1>3. \E x \in S : \A y \in S : x >= y
    <2>1. Rest \subseteq Nat /\ Rest # {}
      BY <1>1
    <2>2. PICK r \in Rest : \A q \in Rest : r <= q
      <3> HIDE DEF Rest
      <3> QED
        BY <2>1, LeastNumber
    <2>3. PICK x \in S : r = m - x
      OBVIOUS
    <2>4. ASSUME NEW y \in S PROVE x >= y
      <3>0. m - y \in Rest
        OBVIOUS
      <3>1. m - x <= m - y
        BY <2>2, <2>3, <3>0
      <3>2. x \in 1..m /\ y \in 1..m
        OBVIOUS
      <3> HIDE DEF m
      <3> QED
        BY <1>1, <3>1, <3>2
    <2> QED
      BY <2>4
  <1>4. last \in S
    <2> HIDE DEF S
    <2> QED
      BY <1>3 DEF Max
  <1>5. last \in 1..m /\ c \in values[last]
    BY <1>4
  <1> HIDE DEF last, t
  <1>6. LookUpRefRelations(t, c) = values[last]
    BY <1>2 DEF LookUpRefRelations
  <1> QED
    BY <1>5, <1>6 DEF t

LEMMA TableIs ==
  ASSUME NEW values \in Seq(Rels)
  PROVE  TableRight(BuildLookUpTables(values))
  <1> DEFINE t == BuildLookUpTables(values)
  <1> SUFFICES ASSUME NEW c \in DOMAIN t
               PROVE  c \in t[c] /\ IsFiniteSet(t[c]) /\ \A d \in t[c] : d[1] \in ShapeNodes
    BY DEF TableRight
  <1>1. PICK i \in 1..Len(values) : c \in values[i]
    BY DEF BuildLookUpTables
  <1>2. PICK k \in 1..Len(values) : c \in values[k] /\ LookUpRefRelations(t, c) = values[k]
    BY <1>1, LookedUp
  <1>3. t[c] = values[k]
    BY <1>2 DEF LookUpRefRelations
  <1> HIDE DEF t
  <1>4. values[k] \in Rels
    BY <1>2
  <1>5. IsFiniteSet(values[k]) /\ values[k] \subseteq CellsNamed
    BY <1>4 DEF Rels
  <1>6. \A d \in CellsNamed : d[1] \in ShapeNodes
    BY DEF CellsNamed
  <1> QED
    BY <1>2, <1>3, <1>5, <1>6

LEMMA InferOrigineFormatStep ==
  ASSUME SpreadInv, InferOrigineFormat
  PROVE  SpreadInv'
  <1> DEFINE vs == {shape.value[n].format : n \in {o \in ShapeNodes : shape.value[o] # NoAttr}}
             ws == {shape.value[n].origin : n \in {o \in ShapeNodes : shape.value[o] # NoAttr}}
             more == {"ND", "NDHWC", "NCDHW"} \cup (vs \cup ws)
             fms == FmsOf \cup more
             none == << >>
             pts == GetAnchorPoints
             new == RefreshOriginFormatOfAnchor(pts.ten, pts.anchors)
             bad == "failed"
             st == "anchors"
             ta == BuildLookUpTables(BuildRefRelations)
             ru == job.runs + 1
  <1>1. WellLinked /\ WellFormatted /\ JobRight /\ shape' = shape
    BY DEF SpreadInv, InferOrigineFormat
  <1>2. /\ job = [stage |-> job.stage, todo |-> job.todo, queue |-> job.queue, datas |-> job.datas,
                  table |-> job.table, runs |-> job.runs]
        /\ job.todo \in Seq(ShapeNodes) /\ job.queue \in Seq(ShapeNodes) /\ job.datas \in Seq(ShapeNodes)
        /\ TableRight(job.table)
    BY <1>1 DEF JobRight
  <1>3. /\ ~BuildsRefRelations => tensor' = tensor /\ job' = [job EXCEPT !.stage = bad, !.runs = @ + 1]
        /\ BuildsRefRelations /\ ~pts.ok => tensor' = pts.ten /\ job' = [job EXCEPT !.stage = bad, !.runs = @ + 1]
        /\ BuildsRefRelations /\ pts.ok => /\ tensor' = new
             /\ job' = [stage |-> st, todo |-> pts.anchors, queue |-> none, datas |-> pts.datas, table |-> ta, runs |-> ru]
    BY DEF InferOrigineFormat
  <1>4. \A n \in ShapeNodes : shape.value[n] # NoAttr => RightFormat(shape.value[n])
    BY <1>1 DEF WellLinked
  <1>5. "RESERVED" \notin more /\ {"ND", "NDHWC", "NCDHW"} \subseteq more
    <2>1. "RESERVED" \notin vs
      BY <1>4 DEF RightFormat
    <2>2. "RESERVED" \notin ws
      BY <1>4 DEF RightFormat
    <2> HIDE DEF vs, ws
    <2> QED
      BY <2>1, <2>2
  <1>6. ASSUME NEW n \in ShapeNodes, shape.value[n] # NoAttr PROVE shape.value[n] \in FmPairs(more)
    <2> DEFINE v == shape.value[n]
    <2>1. v = [format |-> v.format, origin |-> v.origin] /\ (v.origin # "ND" => v.format # "ND")
      BY <1>4, <1>6 DEF RightFormat
    <2>2. v.format \in vs /\ v.origin \in ws
      BY <1>6
    <2> HIDE DEF v, vs, ws
    <2>3. v.format \in more /\ v.origin \in more
      BY <2>2
    <2> HIDE DEF more
    <2> QED
      BY <2>1, <2>3 DEF FmPairs, v
  <1> HIDE DEF more
  <1>7. tensor \in FmTensors(fms) /\ "RESERVED" \notin fms
    BY <1>1, <1>5, FormatsAre
  <1>8. AnchorFms(fms)
    <2>1. \A n \in ShapeNodes : shape.value[n] # NoAttr => shape.value[n] \in FmPairs(fms)
      BY <1>6 DEF FmPairs
    <2> QED
      BY <1>5, <1>7, <2>1 DEF AnchorFms
  <1> HIDE DEF fms
  <1>9. /\ pts \in FmPoints(fms)
        /\ pts.ok => \A n \in ShapeNodes : n \in ToSet(pts.anchors) \/ Bare(pts.ten, n)
    BY <1>1, <1>7, <1>8, GetAnchorPointsIs
  <1> HIDE DEF pts
  <1>10. pts.ten \in FmTensors(fms) /\ pts.anchors \in Seq(ShapeNodes) /\ pts.datas \in Seq(ShapeNodes)
    BY <1>9 DEF FmPoints
  <1>11. bad \notin {"anchors", "data"} /\ bad # "idle" /\ st # "idle"
    OBVIOUS
  <1> HIDE DEF bad, st
  <1>12. CASE ~BuildsRefRelations \/ ~pts.ok
    <2>1. tensor' \in FmTensors(fms) /\ job' = [job EXCEPT !.stage = bad, !.runs = @ + 1]
      BY <1>3, <1>7, <1>10, <1>12
    <2>2. job' = [stage |-> bad, todo |-> job.todo, queue |-> job.queue, datas |-> job.datas,
                  table |-> job.table, runs |-> ru]
      BY <1>2, <2>1
    <2> HIDE DEF ru
    <2> QED
      BY <1>1, <1>2, <1>7, <1>11, <2>1, <2>2, SpreadInvFrom
  <1>13. CASE BuildsRefRelations /\ pts.ok
    <2>1. new \in FmTensors(fms) /\ Behind(new, ToSet(pts.anchors))
      BY <1>1, <1>8, <1>9, <1>10, <1>13, AnchorsAhead
    <2>2. TableRight(ta)
      BY <1>1, RelationsAre, TableIs
    <2>3. none \in Seq(ShapeNodes) /\ ToSet(none) \cup ToSet(pts.anchors) = ToSet(pts.anchors)
      BY DEF ToSet
    <2>4. /\ tensor' = new
          /\ job' = [stage |-> st, todo |-> pts.anchors, queue |-> none, datas |-> pts.datas, table |-> ta, runs |-> ru]
      BY <1>3, <1>13
    <2> HIDE DEF new, none, ta, ru
    <2>5. Behind(tensor', ToSet(none) \cup ToSet(pts.anchors))
      BY <2>1, <2>3, <2>4
    <2>6. tensor' \in FmTensors(fms)
      BY <2>1, <2>4
    <2> QED
      BY <1>1, <1>7, <1>10, <1>11, <2>2, <2>3, <2>4, <2>5, <2>6, SpreadInvFrom
  <1> QED
    BY <1>12, <1>13

LEMMA SpreadInvStarts ==
  ASSUME FStart
  PROVE  SpreadInv
  <1> DEFINE none == << >>
             st == "idle"
  <1>1. WellLinked /\ WellFormatted
    BY DEF FStart
  <1>2. job = [stage |-> st, todo |-> none, queue |-> none, datas |-> none, table |-> none, runs |-> 0]
    BY DEF FStart
  <1>3. none \in Seq(ShapeNodes) /\ DOMAIN none = {} /\ st \notin {"anchors", "data"}
    OBVIOUS
  <1> HIDE DEF none, st
  <1>4. JobRight
    BY <1>2, <1>3 DEF JobRight, TableRight
  <1> QED
    BY <1>1, <1>2, <1>3, <1>4 DEF SpreadInv

LEMMA SpreadInvStutters ==
  ASSUME SpreadInv, UNCHANGED fvars
  PROVE  SpreadInv'
  <1>1. shape' = shape /\ tensor' = tensor /\ job' = job
    BY DEF fvars
  <1>2. WellLinked' /\ ShapeNodes' = ShapeNodes /\ AllCells' = AllCells
    BY <1>1, SameShape DEF SpreadInv
  <1>3. WellFormatted'
    BY <1>1, <1>2 DEF SpreadInv, WellFormatted, RightFormat
  <1>4. JobRight'
    BY <1>1, <1>2, SameShape DEF SpreadInv, JobRight
  <1> QED
    BY <1>1, <1>2, <1>3, <1>4, SameShape DEF SpreadInv

(* The worklist of the format inference leaves nothing behind: whenever an     *)
(* edge has a format at one end that its other end should have, the node at    *)
(* the end that has it still waits to be spread from.                          *)
THEOREM SpreadInvAlways == FSpec => []SpreadInv
  <1>1. FStart => SpreadInv
    BY SpreadInvStarts
  <1>2. SpreadInv /\ [FNext]_fvars => SpreadInv'
    BY InferOrigineFormatStep, AnchorProcessStep, NextAnchorStep, DataNodeStep, FinishStep, SpreadInvStutters
    DEF FNext
  <1> QED
    BY <1>1, <1>2, PTL DEF FSpec

(* An inference that succeeds leaves no edge with a format on one side only,   *)
(* scalars and nodes that change the number of dimensions apart               *)
(* (FormatRefiner::InferOrigineFormat, whatever the graph).                    *)
THEOREM FormatsSpreadAlways == FSpec => []FormatsSpread
  <1>1. SpreadInv => FormatsSpread
    <2> SUFFICES ASSUME SpreadInv, Done, NEW k \in 1..Len(shape.links)
                 PROVE  LET l == shape.links[k] IN
                        /\ tensor[l[1]].origin # "ND" => tensor[l[2]].origin # "ND" \/ Exempt(l[2])
                        /\ tensor[l[2]].origin # "ND" => tensor[l[1]].origin # "ND" \/ Exempt(l[1])
      BY DEF FormatsSpread
    <2>1. WellLinked /\ Behind(tensor, {})
      BY DEF SpreadInv, Done
    <2>2. ~Unmet(tensor, Half(k, TRUE)) /\ ~Unmet(tensor, Half(k, FALSE))
      BY <2>1 DEF Behind
    <2> QED
      BY <2>1, <2>2, HalvesAre DEF Unmet
  <1> QED
    BY <1>1, SpreadInvAlways, PTL

-----------------------------------------------------------------------------
(* The relations that are looked up.  The classes of a function node.         *)
LoopClasses(f) == {LoopCells(f, k) : k \in 0..shape.ins[f]-1}
BranchIn(f, k)  == {In(f, k)} \cup DataCells(f, k)
BranchOut(f, k) == {Out(f, k)} \cup NetCells(f, k)
BranchClasses(f) == {BranchIn(f, k) : k \in 0..MaxElem(f)-1} \cup {BranchOut(f, k) : k \in 0..MaxElem(f)-1}
Classes(f) == IF shape.type[f] = "While" THEN LoopClasses(f) ELSE BranchClasses(f)

LEMMA BaseIs ==
  /\ \A B : B \in Base <=> \E f \in FunctionNodes : B \in Classes(f)
  /\ \A f \in FunctionNodes : Classes(f) \subseteq Base
  <1>1. \A B : B \in Base <=> \E f \in FunctionNodes : B \in Classes(f)
    BY DEF Base, Classes, LoopClasses, BranchClasses, BranchIn, BranchOut
  <1> QED
    BY <1>1

(* Which function node a cell belongs to, with which number, on which side.   *)
Belongs(c, f) == c[1] = f \/ (shape.type[c[1]] \in {"Data", "NetOutput"} /\ shape.at[c[1]] \in ToSet(shape.subs[f]))
Number(c) == IF shape.type[c[1]] = "Data" THEN Index(In(c[1], 0))
             ELSE IF shape.type[c[1]] = "NetOutput" THEN Index(c) ELSE c[3]
Side(c) == IF shape.type[c[1]] = "Data" THEN "in" ELSE IF shape.type[c[1]] = "NetOutput" THEN "out" ELSE c[2]

LEMMA CellsOfClass ==
  ASSUME WellLinked, NEW f \in FunctionNodes, NEW k
  PROVE  /\ \A c \in {In(f, k)} \cup DataCells(f, k) : Belongs(c, f) /\ Number(c) = k /\ Side(c) = "in"
         /\ \A c \in {Out(f, k)} \cup NetCells(f, k) : Belongs(c, f) /\ Number(c) = k /\ Side(c) = "out"
  <1>1. shape.type[f] \notin {"Data", "NetOutput"}
    BY DEF WellLinked
  <1>2. In(f, k)[1] = f /\ In(f, k)[2] = "in" /\ In(f, k)[3] = k /\ Out(f, k)[1] = f /\ Out(f, k)[2] = "out" /\ Out(f, k)[3] = k
    BY DEF In, Out
  <1>3. \A c \in {In(f, k), Out(f, k)} : Belongs(c, f) /\ Number(c) = k /\ Side(c) = c[2]
    BY <1>1, <1>2 DEF Belongs, Number, Side
  <1>4. \A c \in DataCells(f, k) : Belongs(c, f) /\ Number(c) = k /\ Side(c) = "in"
    <2> TAKE c \in DataCells(f, k)
    <2>1. PICK d \in GetDataOfSubGraph(f) : Index(In(d, 0)) = k /\ c \in {In(d, 0), Out(d, 0)}
      BY DEF DataCells
    <2>2. shape.type[d] = "Data" /\ shape.at[d] \in ToSet(shape.subs[f]) /\ c[1] = d
      BY <2>1 DEF GetDataOfSubGraph, In, Out
    <2> QED
      BY <2>1, <2>2 DEF Belongs, Number, Side
  <1>5. \A c \in NetCells(f, k) : Belongs(c, f) /\ Number(c) = k /\ Side(c) = "out"
    <2> TAKE c \in NetCells(f, k)
    <2>1. PICK n \in GetNetoutputOfSubGraph(f) : c \in InsOf(n) /\ Index(c) = k
      BY DEF NetCells
    <2>2. shape.type[n] = "NetOutput" /\ shape.at[n] \in ToSet(shape.subs[f]) /\ c[1] = n
      BY <2>1, CellsAreOfNodes DEF GetNetoutputOfSubGraph
    <2> QED
      BY <2>1, <2>2 DEF Belongs, Number, Side
  <1> QED
    BY <1>2, <1>3, <1>4, <1>5

LEMMA BelongsToOne ==
  ASSUME WellLinked, NEW f \in FunctionNodes, NEW g \in FunctionNodes, NEW c, Belongs(c, f), Belongs(c, g)
  PROVE  f = g
  <1>1. shape.type[f] \notin {"Data", "NetOutput"} /\ shape.type[g] \notin {"Data", "NetOutput"}
    BY DEF WellLinked
  <1>2. f # g => ToSet(shape.subs[f]) \cap ToSet(shape.subs[g]) = {}
    BY DEF WellLinked
  <1> QED
    BY <1>1, <1>2 DEF Belongs

(* Every tensor is in one class at most, and every class has a tensor.        *)
LEMMA ClassesApart ==
  ASSUME WellLinked, NEW f \in FunctionNodes, NEW g \in FunctionNodes, NEW B \in Classes(f), NEW C \in Classes(g),
         NEW c, c \in B, c \in C
  PROVE  f = g /\ B = C
  <1>1. ASSUME NEW h \in FunctionNodes, NEW D \in Classes(h), c \in D
        PROVE  /\ Belongs(c, h)
               /\ shape.type[h] = "While" => D = LoopCells(h, Number(c))
               /\ shape.type[h] # "While" =>
                     D = IF Side(c) = "in" THEN BranchIn(h, Number(c)) ELSE BranchOut(h, Number(c))
    <2>1. CASE shape.type[h] = "While"
      <3>1. PICK k : D = LoopCells(h, k)
        BY <2>1 DEF Classes, LoopClasses
      <3>2. c \in {In(h, k)} \cup DataCells(h, k) \/ c \in {Out(h, k)} \cup NetCells(h, k)
        BY <1>1, <3>1 DEF LoopCells
      <3>3. Belongs(c, h) /\ Number(c) = k
        BY <3>2, CellsOfClass
      <3> QED
        BY <2>1, <3>1, <3>3
    <2>2. CASE shape.type[h] # "While"
      <3>1. PICK k : D = BranchIn(h, k) \/ D = BranchOut(h, k)
        BY <2>2 DEF Classes, BranchClasses
      <3>2. CASE D = BranchIn(h, k)
        <4>1. Belongs(c, h) /\ Number(c) = k /\ Side(c) = "in"
          BY <1>1, <3>2, CellsOfClass DEF BranchIn
        <4> QED
          BY <2>2, <3>2, <4>1
      <3>3. CASE D = BranchOut(h, k)
        <4>1. Belongs(c, h) /\ Number(c) = k /\ Side(c) = "out"
          BY <1>1, <3>3, CellsOfClass DEF BranchOut
        <4> QED
          BY <2>2, <3>3, <4>1
      <3> QED
        BY <3>1, <3>2, <3>3
    <2> QED
      BY <2>1, <2>2
  <1>2. f = g
    BY <1>1, BelongsToOne
  <1> QED
    BY <1>1, <1>2

LEMMA ClassIsNotEmpty ==
  ASSUME NEW f, NEW B \in Classes(f)
  PROVE  \E c \in B : c[1] = f
  <1>1. \A k : In(f, k) \in LoopCells(f, k) /\ In(f, k) \in BranchIn(f, k) /\ Out(f, k) \in BranchOut(f, k)
    BY DEF LoopCells, BranchIn, BranchOut
  <1>2. \A k : In(f, k)[1] = f /\ Out(f, k)[1] = f
    BY DEF In, Out
  <1> QED
    BY <1>1, <1>2 DEF Classes, LoopClasses, BranchClasses

-----------------------------------------------------------------------------
(* The classes joined with one: the least set of classes around it that no    *)
(* passage leads out of.                                                      *)
Closed(X) == \A p \in Passed : p \cap X # {} => p \subseteq X

LEMMA ReachGrows ==
  ASSUME NEW P, IsFiniteSet(P), NEW B, NEW r, r \in [0..Cardinality(P) -> SUBSET ((UNION P) \cup {B})], r[0] = {B},
         \A i \in 1..Cardinality(P) : r[i] = r[i-1] \cup UNION {p \in P : p \cap r[i-1] # {}}
  PROVE  /\ \A i \in 0..Cardinality(P) : B \in r[i]
         /\ \A p \in P : p \cap r[Cardinality(P)] # {} => p \subseteq r[Cardinality(P)]
         /\ \A X : B \in X /\ (\A p \in P : p \cap X # {} => p \subseteq X) => r[Cardinality(P)] \subseteq X
  <1> DEFINE N == Cardinality(P)
             T(i) == {p \in P : p \cap r[i] # {}}
             Stable(i) == UNION T(i) \subseteq r[i]
             A1 == {i \in 0..N : B \in r[i]}
             A2 == {i \in 0..N : Stable(i) \/ Cardinality(T(i)) >= i + 1}
  <1>1. N \in Nat
    BY FS_CardinalityType
  <1>2. \A i : T(i) \subseteq P /\ IsFiniteSet(T(i)) /\ Cardinality(T(i)) \in Nat /\ Cardinality(T(i)) <= N
    BY FS_Subset, FS_CardinalityType
  <1>3. \A i \in 1..N : r[i] = r[i-1] \cup UNION T(i-1) /\ i - 1 \in 0..N
    BY <1>1
  <1>4. \A i \in 0..N : B \in r[i]
    <2>1. 0 \in A1
      BY <1>1
    <2>2. \A i \in 1..N : i - 1 \in A1 => i \in A1
      BY <1>3
    <2> HIDE DEF A1
    <2>3. \A i \in 0..N : i \in A1
      BY <1>1, <2>1, <2>2, CountUp
    <2> QED
      BY <2>3 DEF A1
  <1>5. 0 \in A2
    <2>1. CASE Stable(0)
      BY <1>1, <2>1
    <2>2. CASE ~Stable(0)
      <3>1. T(0) # {}
        BY <2>2
      <3>2. Cardinality(T(0)) # 0
        <4> HIDE DEF T
        <4> QED
          BY <1>2, <3>1, FS_EmptySet
      <3>3. Cardinality(T(0)) >= 0 + 1
        <4> HIDE DEF T
        <4> QED
          BY <1>2, <3>2
      <3>4. 0 \in 0..N
        BY <1>1
      <3> HIDE DEF T, Stable, N
      <3> QED
        BY <3>3, <3>4
    <2> QED
      BY <2>1, <2>2
  <1>6. ASSUME NEW i \in 1..N, i - 1 \in A2 PROVE i \in A2
    <2> DEFINE j == i - 1
    <2>1. r[i] = r[j] \cup UNION T(j) /\ j \in 0..N
      BY <1>3
    <2>2. T(j) \subseteq T(i)
      BY <2>1
    <2>3. T(i) = T(j) => Stable(i)
      BY <2>1
    <2>4. Stable(j) => r[i] = r[j]
      BY <2>1
    <2>5. Stable(j) => Stable(i)
      BY <2>4
    <2>6. CASE T(i) # T(j) /\ ~Stable(j)
      <3>1. Cardinality(T(j)) >= j + 1
        BY <1>6, <2>6
      <3>2. Cardinality(T(j)) < Cardinality(T(i))
        <4> HIDE DEF T
        <4> QED
          BY <1>2, <2>2, <2>6, FS_Subset
      <3> HIDE DEF T
      <3>3. Cardinality(T(i)) >= i + 1
        BY <1>1, <1>2, <3>1, <3>2
      <3> QED
        BY <3>3
    <2> QED
      BY <2>3, <2>5, <2>6
  <1>7. N \in A2
    <2> HIDE DEF A2
    <2>1. \A i \in 0..N : i \in A2
      BY <1>1, <1>5, <1>6, CountUp
    <2> QED
      BY <1>1, <2>1
  <1>8. Stable(N)
    <2>1. ~(Cardinality(T(N)) >= N + 1)
      <3> HIDE DEF T, N
      <3> QED
        BY <1>1, <1>2
    <2> QED
      BY <1>7, <2>1
  <1>9. ASSUME NEW X, B \in X, \A p \in P : p \cap X # {} => p \subseteq X
        PROVE  r[N] \subseteq X
    <2> DEFINE A3 == {i \in 0..N : r[i] \subseteq X}
    <2>1. 0 \in A3
      BY <1>1, <1>9
    <2>2. \A i \in 1..N : i - 1 \in A3 => i \in A3
      BY <1>3, <1>9
    <2> HIDE DEF A3
    <2>3. \A i \in 0..N : i \in A3
      BY <1>1, <2>1, <2>2, CountUp
    <2>4. N \in 0..N
      BY <1>1
    <2> QED
      BY <2>3, <2>4 DEF A3
  <1> QED
    BY <1>4, <1>8, <1>9

(* What a passage joins: two classes of a loop.                               *)
LEMMA PassageIs ==
  ASSUME WellLinked, NEW p \in Passed
  PROVE  \E f \in FunctionNodes : /\ shape.type[f] = "While"
                                  /\ \E pair \in ToSet(Straight(f)) :
                                        /\ p = {LoopCells(f, pair[1]), LoopCells(f, pair[2])}
                                        /\ pair[1] \in 0..shape.ins[f]-1 /\ pair[2] \in 0..shape.ins[f]-1
  <1>0. PICK f \in FunctionNodes : /\ shape.type[f] = "While"
                                   /\ \E pair \in ToSet(Straight(f)) : p = {LoopCells(f, pair[1]), LoopCells(f, pair[2])}
    BY DEF Passed
  <1>1. PICK pair \in ToSet(Straight(f)) : p = {LoopCells(f, pair[1]), LoopCells(f, pair[2])}
    BY <1>0
  <1> DEFINE D == 0..shape.ins[f]-1
             q == Straight(f)
  <1>2. q \in Seq(D \X D)
    BY <1>0 DEF WellLinked
  <1>3. pair \in ToSet(q)
    OBVIOUS
  <1> HIDE DEF q, D
  <1>4. pair \in D \X D
    BY <1>2, <1>3 DEF ToSet
  <1>5. pair[1] \in D /\ pair[2] \in D
    BY <1>4
  <1> QED
    BY <1>0, <1>1, <1>5 DEF D

LEMMA PassedIsFinite ==
  ASSUME WellLinked
  PROVE  IsFiniteSet(Passed)
  <1> DEFINE W == {g \in FunctionNodes : shape.type[g] = "While"}
             P(f) == {{LoopCells(f, pair[1]), LoopCells(f, pair[2])} : pair \in ToSet(Straight(f))}
             h == [f \in W |-> P(f)]
             A == {h[f] : f \in W}
  <1>1. W \in SUBSET ShapeNodes
    BY DEF FunctionNodes
  <1>2. IsFiniteSet(W)
    BY <1>1, NodesAreFinite
  <1>3. Passed = UNION A
    <2>1. \A x : x \in Passed <=> \E f \in W : x \in P(f)
      BY DEF Passed
    <2>2. \A f \in W : h[f] = P(f)
      OBVIOUS
    <2> HIDE DEF h, W, P
    <2> QED
      BY <2>1, <2>2
  <1>4. ASSUME NEW f \in W PROVE IsFiniteSet(P(f))
    <2> DEFINE q == Straight(f)
               I == DOMAIN q
               e == [i \in I |-> {LoopCells(f, q[i][1]), LoopCells(f, q[i][2])}]
               D == 0..shape.ins[f]-1
    <2>1. q \in Seq(D \X D)
      BY DEF WellLinked
    <2> HIDE DEF q, D
    <2>2. IsFiniteSet(I)
      <3>1. I = 1..Len(q) /\ Len(q) \in Nat
        BY <2>1
      <3> QED
        BY <3>1, FS_Interval
    <2>3. P(f) = {e[i] : i \in I}
      BY DEF q, ToSet
    <2>4. DOMAIN e = I /\ e = [i \in I |-> e[i]]
      OBVIOUS
    <2> HIDE DEF e, I, P
    <2> QED
      BY <2>2, <2>3, <2>4, ImageIsFinite
  <1>5. DOMAIN h = W /\ h = [f \in W |-> h[f]] /\ \A f \in W : h[f] = P(f)
    OBVIOUS
  <1> HIDE DEF h, W, P
  <1>6. IsFiniteSet(A)
    BY <1>2, <1>5, ImageIsFinite
  <1>7. \A T \in A : IsFiniteSet(T)
    BY <1>4, <1>5
  <1> HIDE DEF A
  <1> QED
    BY <1>3, <1>6, <1>7, FS_UNION

(* B with the classes joined with it is closed, and the least such set.       *)
LEMMA JoinedIs ==
  ASSUME WellLinked, NEW B
  PROVE  /\ B \in JoinedWith(B) /\ Closed(JoinedWith(B)) /\ IsFiniteSet(JoinedWith(B))
         /\ \A X : B \in X /\ Closed(X) => JoinedWith(B) \subseteq X
  <1> DEFINE P == Passed
             m == Cardinality(P)
             s == {B}
             next(x, k) == x \cup UNION {p \in P : p \cap x # {}}
             step(g) == [k \in 0..m |-> IF k = 0 THEN s ELSE next(g[k-1], k)]
             r == CHOOSE g : g = step(g)
             D == SUBSET ((UNION P) \cup {B})
             F == [p \in D \X (1..m) |-> next(p[1], p[2])]
  <1>1. IsFiniteSet(P) /\ m \in Nat
    BY PassedIsFinite, FS_CardinalityType
  <1>2. JoinedWith(B) = r[m]
    BY DEF JoinedWith
  <1>3. IsFiniteSet((UNION P) \cup {B})
    <2>1. \A p \in P : IsFiniteSet(p)
      <3> TAKE p \in P
      <3>1. PICK f \in FunctionNodes : \E pair \in ToSet(Straight(f)) : p = {LoopCells(f, pair[1]), LoopCells(f, pair[2])}
        BY PassageIs
      <3>2. PICK pair \in ToSet(Straight(f)) : p = {LoopCells(f, pair[1])} \cup {LoopCells(f, pair[2])}
        BY <3>1
      <3> QED
        BY <3>2, FS_Singleton, FS_Union
    <2> HIDE DEF P
    <2>2. IsFiniteSet(UNION P)
      BY <1>1, <2>1, FS_UNION
    <2>3. IsFiniteSet({B})
      BY FS_Singleton
    <2> QED
      BY <2>2, <2>3, FS_Union
  <1>4. \A X : Closed(X) <=> \A p \in P : p \cap X # {} => p \subseteq X
    <2> HIDE DEF m, s, next, step, r, D, F
    <2> QED
      BY Zenon DEF Closed, P
  <1> HIDE DEF P
  <1>5. s \in D /\ \A x \in D, k \in 1..m : next(x, k) \in D
    OBVIOUS
  <1>6. \A x, k : next(x, k) = x \cup UNION {p \in P : p \cap x # {}}
    OBVIOUS
  <1>7. s = {B}
    OBVIOUS
  <1> HIDE DEF next, m, s
  <1>8. \A x \in D, k \in 1..m : F[<<x, k>>] = next(x, k)
    OBVIOUS
  <1>9. \A x \in D : x \subseteq (UNION P) \cup {B}
    OBVIOUS
  <1> HIDE DEF D, F
  <1>10. PICK g : Solves(g, D, m, s, F)
    <2>1. \A x \in D, k \in 1..m : F[<<x, k>>] \in D
      BY <1>5, <1>8
    <2> QED
      BY <1>1, <1>5, <2>1, RunExists
  <1>11. g = step(g)
    <2>1. g \in [0..m -> D] /\ g[0] = s /\ \A k \in 1..m : g[k] = F[<<g[k-1], k>>]
      BY <1>10 DEF Solves
    <2>2. ASSUME NEW k \in 0..m PROVE g[k] = IF k = 0 THEN s ELSE next(g[k-1], k)
      <3>1. CASE k = 0
        BY <2>1, <3>1
      <3>2. CASE k # 0
        <4>1. k \in 1..m /\ k - 1 \in 0..m
          BY <1>1, <3>2
        <4>2. g[k-1] \in D
          BY <2>1, <4>1
        <4> QED
          BY <1>8, <2>1, <3>2, <4>1, <4>2
      <3> QED
        BY <3>1, <3>2
    <2> QED
      BY <2>1, <2>2
  <1>12. r = step(r)
    <2> HIDE DEF step
    <2> QED
      BY <1>11
  <1> HIDE DEF r
  <1>13. DOMAIN r = 0..m /\ r = [k \in 0..m |-> r[k]]
    BY <1>12
  <1>14. r[0] = s /\ \A k \in 1..m : r[k] = next(r[k-1], k)
    <2>1. \A k \in 0..m : r[k] = IF k = 0 THEN s ELSE next(r[k-1], k)
      BY <1>12
    <2>2. 0 \in 0..m /\ \A k \in 1..m : k \in 0..m /\ k # 0
      BY <1>1
    <2> QED
      BY <2>1, <2>2
  <1>15. r \in [0..m -> D]
    <2>1. r[0] \in D /\ \A k \in 1..m : r[k-1] \in D => r[k] \in D
      BY <1>5, <1>14
    <2> QED
      BY <1>1, <1>13, <2>1, RunStays
  <1>16. r \in [0..m -> SUBSET ((UNION P) \cup {B})] /\ r[0] = {B}
         /\ \A k \in 1..m : r[k] = r[k-1] \cup UNION {p \in P : p \cap r[k-1] # {}}
    <2>1. r[0] = {B}
      BY <1>7, <1>14
    <2>2. \A k \in 1..m : r[k] = r[k-1] \cup UNION {p \in P : p \cap r[k-1] # {}}
      BY <1>6, <1>14
    <2>3. r \in [0..m -> SUBSET ((UNION P) \cup {B})]
      BY <1>15 DEF D
    <2> QED
      BY <2>1, <2>2, <2>3
  <1>17. /\ \A i \in 0..m : B \in r[i]
         /\ \A p \in P : p \cap r[m] # {} => p \subseteq r[m]
         /\ \A X : B \in X /\ (\A p \in P : p \cap X # {} => p \subseteq X) => r[m] \subseteq X
    BY <1>1, <1>16, ReachGrows DEF m
  <1>18. m \in 0..m
    BY <1>1
  <1>19. IsFiniteSet(r[m])
    <2>1. r[m] \subseteq (UNION P) \cup {B}
      BY <1>16, <1>18
    <2> QED
      BY <1>3, <2>1, FS_Subset
  <1> QED
    BY <1>2, <1>4, <1>17, <1>18, <1>19

Small(X) == \A x, y, z \in X : x = y \/ x = z \/ y = z

LEMMA TwoAreSmall ==
  ASSUME NEW S, IsFiniteSet(S), Cardinality(S) <= 2
  PROVE  Small(S)
  <1> SUFFICES ASSUME NEW x \in S, NEW y \in S, NEW z \in S, x # y, x # z, y # z PROVE FALSE
    BY DEF Small
  <1>1. IsFiniteSet({x}) /\ Cardinality({x}) = 1
    BY FS_Singleton
  <1>2. IsFiniteSet({x} \cup {y}) /\ Cardinality({x} \cup {y}) = 2
    <2> DEFINE Y == {x}
    <2>1. y \notin Y
      OBVIOUS
    <2>2. IsFiniteSet(Y) /\ Cardinality(Y) = 1
      BY <1>1
    <2> HIDE DEF Y
    <2>3. IsFiniteSet(Y \cup {y}) /\ Cardinality(Y \cup {y}) = 1 + 1
      BY <2>1, <2>2, FS_AddElement
    <2> QED
      BY <2>3 DEF Y
  <1>3. IsFiniteSet(({x} \cup {y}) \cup {z}) /\ Cardinality(({x} \cup {y}) \cup {z}) = 3
    <2> DEFINE Y == {x} \cup {y}
    <2>1. z \notin Y
      OBVIOUS
    <2>2. IsFiniteSet(Y) /\ Cardinality(Y) = 2
      BY <1>2
    <2> HIDE DEF Y
    <2>3. IsFiniteSet(Y \cup {z}) /\ Cardinality(Y \cup {z}) = 2 + 1
      BY <2>1, <2>2, FS_AddElement
    <2> QED
      BY <2>3 DEF Y
  <1>4. Cardinality(({x} \cup {y}) \cup {z}) <= Cardinality(S)
    <2>1. ({x} \cup {y}) \cup {z} \subseteq S
      OBVIOUS
    <2> QED
      BY <2>1, FS_Subset
  <1>5. Cardinality(S) \in Nat
    BY FS_CardinalityType
  <1> QED
    BY <1>3, <1>4, <1>5

(* A relation of the table is made of classes that are joined, and of all of  *)
(* them where no more than two are.                                           *)
Joins(K) == \A B \in K : /\ K \subseteq JoinedWith(B)
                         /\ Cardinality(JoinedWith(B)) <= 2 => JoinedWith(B) \subseteq K
Relation(R) == \E K \in SUBSET Base : R = UNION K /\ Joins(K)

LEMMA BranchRelations ==
  ASSUME WellLinked, NEW f \in FunctionNodes, shape.type[f] # "While", NEW B \in Classes(f)
  PROVE  Relation(B)
  <1>1. Closed({B})
    <2> SUFFICES ASSUME NEW p \in Passed, B \in p PROVE FALSE
      BY DEF Closed
    <2>1. PICK g \in FunctionNodes : /\ shape.type[g] = "While"
                                     /\ \E pair \in ToSet(Straight(g)) :
                                           /\ p = {LoopCells(g, pair[1]), LoopCells(g, pair[2])}
                                           /\ pair[1] \in 0..shape.ins[g]-1 /\ pair[2] \in 0..shape.ins[g]-1
      BY PassageIs
    <2>2. B \in LoopClasses(g)
      BY <2>1 DEF LoopClasses
    <2>3. B \in Classes(g)
      BY <2>1, <2>2 DEF Classes
    <2>4. PICK c : c \in B
      BY <2>3, ClassIsNotEmpty
    <2>5. f = g
      BY <2>3, <2>4, ClassesApart
    <2> QED
      BY <2>1, <2>5
  <1>2. JoinedWith(B) = {B}
    BY <1>1, JoinedIs
  <1>3. B \in Base
    BY BaseIs
  <1>4. Joins({B})
    BY <1>2 DEF Joins
  <1>5. B = UNION {B}
    OBVIOUS
  <1> QED
    BY <1>3, <1>4, <1>5 DEF Relation

(* How the relations of a loop are grouped after k of its passages.           *)
Passage(f, j) == {LoopCells(f, Straight(f)[j][1]), LoopCells(f, Straight(f)[j][2])}
Grouped(f, v, K, k) ==
    /\ K \in [1..shape.ins[f] -> SUBSET LoopClasses(f)]
    /\ \A i \in 1..shape.ins[f] : v[i] = UNION K[i] /\ LoopCells(f, i-1) \in K[i]
    /\ \A X : \A i \in 1..shape.ins[f] : Closed(X) /\ X \cap K[i] # {} => K[i] \subseteq X
    /\ \A X : \A i \in 1..shape.ins[f], j \in 1..k :
          Closed(X) /\ Small(X) /\ X \cap K[i] # {} /\ Passage(f, j) \subseteq X
            /\ LoopCells(f, Straight(f)[j][1]) # LoopCells(f, Straight(f)[j][2])
          => Passage(f, j) \subseteq K[i]

LEMMA LoopClassesDiffer ==
  ASSUME WellLinked, NEW f \in FunctionNodes, NEW i, NEW j, LoopCells(f, i) = LoopCells(f, j)
  PROVE  i = j
  <1>1. In(f, i) \in LoopCells(f, i)
    BY DEF LoopCells
  <1>2. In(f, i) \in {In(f, i)} \cup DataCells(f, i)
    OBVIOUS
  <1>3. In(f, i) \in {In(f, j)} \cup DataCells(f, j) \/ In(f, i) \in {Out(f, j)} \cup NetCells(f, j)
    BY <1>1 DEF LoopCells
  <1>4. Number(In(f, i)) = i
    BY <1>2, CellsOfClass
  <1>5. Number(In(f, i)) = j
    BY <1>3, CellsOfClass
  <1> QED
    BY <1>4, <1>5

LEMMA GroupedStarts ==
  ASSUME WellLinked, NEW f \in FunctionNodes, shape.type[f] = "While",
         NEW v, v = [i \in 1..shape.ins[f] |-> LoopCells(f, i-1)]
  PROVE  \E K : Grouped(f, v, K, 0)
  <1> DEFINE n == shape.ins[f]
             K == [i \in 1..n |-> {LoopCells(f, i-1)}]
  <1>1. n \in Nat
    BY DEF WellLinked, FunctionNodes
  <1>2. \A i \in 1..n : i-1 \in 0..n-1
    BY <1>1
  <1>3. \A i \in 1..n : LoopCells(f, i-1) \in LoopClasses(f)
    BY <1>2 DEF LoopClasses
  <1>4. K \in [1..n -> SUBSET LoopClasses(f)] /\ \A i \in 1..n : K[i] = {LoopCells(f, i-1)}
    BY <1>3
  <1>5. \A i \in 1..n : v[i] = LoopCells(f, i-1)
    OBVIOUS
  <1> HIDE DEF K
  <1>6. \A i \in 1..n : v[i] = UNION K[i] /\ LoopCells(f, i-1) \in K[i]
    BY <1>4, <1>5
  <1>7. \A X : \A i \in 1..n : X \cap K[i] # {} => K[i] \subseteq X
    BY <1>4
  <1>8. 1..0 = {}
    OBVIOUS
  <1> QED
    BY <1>4, <1>6, <1>7, <1>8 DEF Grouped

LEMMA GroupedStep ==
  ASSUME WellLinked, NEW f \in FunctionNodes, shape.type[f] = "While", NEW k \in 1..Len(Straight(f)),
         NEW v, DOMAIN v = 1..shape.ins[f], v = [i \in 1..shape.ins[f] |-> v[i]],
         NEW K, Grouped(f, v, K, k-1)
  PROVE  \E M : Grouped(f, Join(v, Straight(f)[k]), M, k)
  <1> DEFINE n == shape.ins[f]
             q == Straight(f)
             a == q[k][1] + 1
             b == q[k][2] + 1
             J == K[a] \cup K[b]
             M == [K EXCEPT ![a] = J, ![b] = J]
             w == Join(v, q[k])
             A == LoopCells(f, a-1)
             B == LoopCells(f, b-1)
  <1>1. n \in Nat /\ q \in Seq((0..n-1) \X (0..n-1))
    BY DEF WellLinked, FunctionNodes
  <1>2. q[k] \in (0..n-1) \X (0..n-1) /\ Len(q) \in Nat /\ k \in 1..Len(q) /\ k \in DOMAIN q
    <2> DEFINE D == (0..n-1) \X (0..n-1)
    <2>1. q \in Seq(D)
      BY <1>1
    <2> HIDE DEF D, q
    <2>2. k \in 1..Len(q)
      BY DEF q
    <2>3. q[k] \in D /\ Len(q) \in Nat /\ k \in DOMAIN q
      BY <2>1, <2>2
    <2> QED
      BY <2>2, <2>3 DEF D
  <1>3. q[k][1] \in 0..n-1 /\ q[k][2] \in 0..n-1
    <2> DEFINE p == q[k]
    <2>1. p \in (0..n-1) \X (0..n-1)
      BY <1>2
    <2> HIDE DEF p
    <2>2. p[1] \in 0..n-1 /\ p[2] \in 0..n-1
      BY <2>1
    <2> QED
      BY <2>2 DEF p
  <1>4. a \in 1..n /\ b \in 1..n /\ a - 1 = q[k][1] /\ b - 1 = q[k][2]
    <2> DEFINE x == q[k][1]
               y == q[k][2]
    <2>1. x \in 0..n-1 /\ y \in 0..n-1
      BY <1>3
    <2> HIDE DEF x, y, n
    <2>2. x + 1 \in 1..n /\ y + 1 \in 1..n /\ (x + 1) - 1 = x /\ (y + 1) - 1 = y
      BY <1>1, <2>1
    <2> QED
      BY <2>2 DEF x, y
  <1>5. Passage(f, k) = {A, B} /\ {A, B} \in Passed
    <2>1. q[k] \in ToSet(q)
      BY <1>2 DEF ToSet
    <2>2. A = LoopCells(f, q[k][1]) /\ B = LoopCells(f, q[k][2])
      BY <1>4
    <2>3. Passage(f, k) = {A, B}
      BY <2>2 DEF Passage
    <2>4. {LoopCells(f, q[k][1]), LoopCells(f, q[k][2])} \in Passed
      BY <2>1 DEF Passed
    <2> QED
      BY <2>2, <2>3, <2>4
  <1>6. /\ K \in [1..n -> SUBSET LoopClasses(f)]
        /\ \A i \in 1..n : v[i] = UNION K[i] /\ LoopCells(f, i-1) \in K[i]
        /\ \A X : \A i \in 1..n : Closed(X) /\ X \cap K[i] # {} => K[i] \subseteq X
        /\ \A X : \A i \in 1..n, j \in 1..k-1 :
              Closed(X) /\ Small(X) /\ X \cap K[i] # {} /\ Passage(f, j) \subseteq X
                /\ LoopCells(f, q[j][1]) # LoopCells(f, q[j][2])
              => Passage(f, j) \subseteq K[i]
    BY DEF Grouped
  <1>7. w = [v EXCEPT ![a] = v[a] \cup v[b], ![b] = v[a] \cup v[b]]
    BY DEF Join
  <1> HIDE DEF a, b, A, B, w, J, n
  <1>8. /\ M \in [1..n -> SUBSET LoopClasses(f)]
        /\ \A i \in 1..n : M[i] = IF i \in {a, b} THEN J ELSE K[i]
    <2>1. J \in SUBSET LoopClasses(f)
      BY <1>4, <1>6 DEF J
    <2> QED
      BY <1>4, <1>6, <2>1
  <1>9. \A i \in 1..n : w[i] = IF i \in {a, b} THEN v[a] \cup v[b] ELSE v[i]
    BY <1>4, <1>7 DEF n
  <1> HIDE DEF M
  <1>10. A \in K[a] /\ B \in K[b]
    BY <1>4, <1>6 DEF A, B
  <1>11. ASSUME NEW X, Closed(X), X \cap J # {} PROVE J \subseteq X
    <2>1. A \in X \/ B \in X
      <3>1. CASE X \cap K[a] # {}
        BY <1>4, <1>6, <1>10, <1>11, <3>1
      <3>2. CASE X \cap K[b] # {}
        BY <1>4, <1>6, <1>10, <1>11, <3>2
      <3> QED
        BY <1>11, <3>1, <3>2 DEF J
    <2>2. {A, B} \subseteq X
      BY <1>5, <1>11, <2>1 DEF Closed
    <2>3. X \cap K[a] # {} /\ X \cap K[b] # {}
      BY <1>10, <2>2
    <2>4. K[a] \subseteq X /\ K[b] \subseteq X
      BY <1>4, <1>6, <1>11, <2>3
    <2> QED
      BY <2>4 DEF J
  <1>12. \A i \in 1..n : w[i] = UNION M[i] /\ LoopCells(f, i-1) \in M[i]
    <2> TAKE i \in 1..n
    <2>1. CASE i \in {a, b}
      <3>1. w[i] = v[a] \cup v[b] /\ M[i] = J
        BY <1>8, <1>9, <2>1
      <3>2. v[a] = UNION K[a] /\ v[b] = UNION K[b]
        BY <1>4, <1>6
      <3>3. LoopCells(f, i-1) \in K[i] /\ K[i] \subseteq J
        BY <1>6, <2>1 DEF J
      <3> QED
        BY <3>1, <3>2, <3>3 DEF J
    <2>2. CASE i \notin {a, b}
      BY <1>6, <1>8, <1>9, <2>2
    <2> QED
      BY <2>1, <2>2
  <1>13. ASSUME NEW i \in 1..n, NEW X, Closed(X), X \cap M[i] # {} PROVE M[i] \subseteq X
    <2>1. CASE i \in {a, b}
      BY <1>8, <1>11, <1>13, <2>1
    <2>2. CASE i \notin {a, b}
      BY <1>6, <1>8, <1>13, <2>2
    <2> QED
      BY <2>1, <2>2
  <1>14. ASSUME NEW i \in 1..n, NEW j \in 1..k, NEW X, Closed(X), Small(X), X \cap M[i] # {}, Passage(f, j) \subseteq X,
                LoopCells(f, q[j][1]) # LoopCells(f, q[j][2])
         PROVE  Passage(f, j) \subseteq M[i]
    <2>1. CASE j # k
      <3>0. j \in 1..k-1
        BY <1>2, <2>1
      <3>1. CASE i \in {a, b}
        <4>1. X \cap J # {} /\ M[i] = J
          BY <1>8, <1>14, <3>1
        <4>2. CASE X \cap K[a] # {}
          <5>1. Passage(f, j) \subseteq K[a]
            BY <1>4, <1>6, <1>14, <3>0, <4>2
          <5> QED
            BY <4>1, <5>1 DEF J
        <4>3. CASE X \cap K[b] # {}
          <5>1. Passage(f, j) \subseteq K[b]
            BY <1>4, <1>6, <1>14, <3>0, <4>3
          <5> QED
            BY <4>1, <5>1 DEF J
        <4> QED
          BY <4>1, <4>2, <4>3 DEF J
      <3>2. CASE i \notin {a, b}
        <4>1. M[i] = K[i]
          BY <1>8, <3>2
        <4> QED
          BY <1>6, <1>14, <3>0, <4>1
      <3> QED
        BY <3>1, <3>2
    <2>2. CASE j = k
      <3>1. CASE i \in {a, b}
        <4>1. M[i] = J
          BY <1>8, <3>1
        <4> QED
          BY <1>5, <1>10, <2>2, <4>1 DEF J
      <3>2. CASE i \notin {a, b}
        <4>1. A \in X /\ B \in X /\ A # B
          <5>1. {A, B} \subseteq X
            BY <1>5, <1>14, <2>2
          <5>2. A = LoopCells(f, q[k][1]) /\ B = LoopCells(f, q[k][2])
            BY <1>4 DEF A, B
          <5> QED
            BY <1>14, <2>2, <5>1, <5>2
        <4>2. LoopCells(f, i-1) \in M[i] /\ M[i] \subseteq X
          BY <1>12, <1>13, <1>14
        <4>3. LoopCells(f, i-1) = A \/ LoopCells(f, i-1) = B
          BY <1>14, <4>1, <4>2 DEF Small
        <4>4. i - 1 = a - 1 \/ i - 1 = b - 1
          BY <4>3, LoopClassesDiffer DEF A, B
        <4>5. i \in Int /\ a \in Int /\ b \in Int
          BY <1>1, <1>4 DEF n
        <4>6. i = a \/ i = b
          BY <4>4, <4>5
        <4> QED
          BY <3>2, <4>6
      <3> QED
        BY <3>1, <3>2
    <2> QED
      BY <2>1, <2>2
  <1>15. Grouped(f, w, M, k)
    BY <1>8, <1>12, <1>13, <1>14 DEF Grouped, n
  <1> QED
    BY <1>15 DEF w

LEMMA WhileGroups ==
  ASSUME WellLinked, NEW f \in FunctionNodes, shape.type[f] = "While"
  PROVE  /\ BuildRefRelationsForWhile(f) \in [1..shape.ins[f] -> Rels]
         /\ \E K : Grouped(f, BuildRefRelationsForWhile(f), K, Len(Straight(f)))
  <1> DEFINE n == shape.ins[f]
             m == Len(Straight(f))
  <1>1. PICK refs : LoopRun(f, refs)
    BY WhileRuns
  <1>2. /\ refs \in [0..m -> [1..n -> Rels]] /\ refs[0] = [i \in 1..n |-> LoopCells(f, i-1)]
        /\ \A k \in 1..m : refs[k] = Join(refs[k-1], Straight(f)[k])
        /\ BuildRefRelationsForWhile(f) = refs[m]
    BY <1>1 DEF LoopRun
  <1>3. m \in Nat
    <2> DEFINE E == (0..n-1) \X (0..n-1)
    <2>1. Straight(f) \in Seq(E)
      BY DEF WellLinked
    <2> HIDE DEF E
    <2> QED
      BY <2>1
  <1> DEFINE A == {k \in 0..m : \E K : Grouped(f, refs[k], K, k)}
  <1>4. 0 \in A
    <2>1. \E K : Grouped(f, refs[0], K, 0)
      BY <1>2, GroupedStarts
    <2>2. 0 \in 0..m
      BY <1>3
    <2> HIDE DEF m
    <2> QED
      BY <2>1, <2>2
  <1>5. ASSUME NEW k \in 1..m, k - 1 \in A PROVE k \in A
    <2>1. k \in 0..m /\ k - 1 \in 0..m
      BY <1>3
    <2>2. PICK K : Grouped(f, refs[k-1], K, k-1)
      BY <1>5
    <2>3. refs[k-1] \in [1..n -> Rels]
      BY <1>2, <2>1
    <2> DEFINE v == refs[k-1]
    <2>4. DOMAIN v = 1..n /\ v = [i \in 1..n |-> v[i]]
      BY <2>3
    <2> HIDE DEF v
    <2>5. Grouped(f, v, K, k-1)
      BY <2>2 DEF v
    <2>6. k \in 1..Len(Straight(f))
      OBVIOUS
    <2>7. \E M : Grouped(f, Join(v, Straight(f)[k]), M, k)
      BY ONLY <2>4, <2>5, <2>6, GroupedStep, WellLinked, f \in FunctionNodes, shape.type[f] = "While"
    <2>8. Join(v, Straight(f)[k]) = refs[k]
      BY <1>2 DEF v
    <2>9. \E M : Grouped(f, refs[k], M, k)
      BY <2>7, <2>8
    <2> HIDE DEF m
    <2> QED
      BY <2>1, <2>9
  <1>6. m \in 0..m
    BY <1>3
  <1>7. m \in A
    <2> HIDE DEF A, m
    <2>1. \A k \in 0..m : k \in A
      BY <1>3, <1>4, <1>5, CountUp
    <2> QED
      BY <1>6, <2>1
  <1>8. \E K : Grouped(f, refs[m], K, m)
    BY <1>7
  <1>9. refs[m] \in [1..n -> Rels]
    BY <1>2, <1>6
  <1> QED
    BY <1>2, <1>8, <1>9

(* Two classes that are joined are joined by a passage of their loop.         *)
LEMMA GroupIsRelation ==
  ASSUME WellLinked, NEW f \in FunctionNodes, shape.type[f] = "While",
         NEW v, NEW K, Grouped(f, v, K, Len(Straight(f))), NEW i \in 1..shape.ins[f]
  PROVE  Relation(v[i]) /\ LoopCells(f, i-1) \subseteq v[i]
  <1>1. /\ K[i] \subseteq LoopClasses(f) /\ v[i] = UNION K[i] /\ LoopCells(f, i-1) \in K[i]
        /\ \A X : Closed(X) /\ X \cap K[i] # {} => K[i] \subseteq X
    BY DEF Grouped
  <1>2. LoopClasses(f) = Classes(f)
    BY DEF Classes
  <1>3. K[i] \subseteq Base
    BY <1>1, <1>2, BaseIs
  <1>4. ASSUME NEW B \in K[i] PROVE K[i] \subseteq JoinedWith(B)
    BY <1>1, <1>4, JoinedIs
  <1>5. ASSUME NEW B \in K[i], Cardinality(JoinedWith(B)) <= 2, NEW C \in JoinedWith(B) PROVE C \in K[i]
    <2> DEFINE X == JoinedWith(B)
    <2>1. B \in X /\ Closed(X) /\ Small(X)
      BY <1>5, JoinedIs, TwoAreSmall
    <2>2. \A Y : B \in Y /\ Closed(Y) => X \subseteq Y
      BY JoinedIs
    <2> HIDE DEF X
    <2>3. CASE C # B
      <3>1. ~Closed({B})
        BY <1>5, <2>2, <2>3 DEF X
      <3>2. PICK p \in Passed : p \cap {B} # {} /\ ~(p \subseteq {B})
        BY <3>1 DEF Closed
      <3>3. p \subseteq X
        BY <2>1, <3>2 DEF Closed
      <3>4. PICK g \in FunctionNodes : /\ shape.type[g] = "While"
                                       /\ \E pair \in ToSet(Straight(g)) :
                                             /\ p = {LoopCells(g, pair[1]), LoopCells(g, pair[2])}
                                             /\ pair[1] \in 0..shape.ins[g]-1 /\ pair[2] \in 0..shape.ins[g]-1
        BY PassageIs
      <3>5. B \in LoopClasses(g)
        BY <3>2, <3>4 DEF LoopClasses
      <3>6. B \in Classes(g) /\ B \in Classes(f)
        BY <1>1, <1>2, <3>4, <3>5 DEF Classes
      <3>7. PICK c : c \in B
        BY <3>6, ClassIsNotEmpty
      <3>8. f = g
        BY <3>6, <3>7, ClassesApart
      <3>9. PICK pair \in ToSet(Straight(f)) : p = {LoopCells(f, pair[1]), LoopCells(f, pair[2])}
        BY <3>4, <3>8
      <3>10. PICK j \in 1..Len(Straight(f)) : pair = Straight(f)[j]
        <4> DEFINE q == Straight(f)
                   E == (0..shape.ins[f]-1) \X (0..shape.ins[f]-1)
        <4>1. q \in Seq(E) /\ pair \in ToSet(q)
          BY DEF WellLinked
        <4> HIDE DEF q, E
        <4>2. \E j \in 1..Len(q) : pair = q[j]
          BY <4>1 DEF ToSet
        <4> QED
          BY <4>2 DEF q
      <3>11. p = Passage(f, j)
        BY <3>9, <3>10 DEF Passage
      <3>12. LoopCells(f, Straight(f)[j][1]) # LoopCells(f, Straight(f)[j][2])
        BY <3>2, <3>9, <3>10
      <3>13. X \cap K[i] # {}
        BY <2>1
      <3>14. Passage(f, j) \subseteq K[i]
        BY <2>1, <3>3, <3>11, <3>12, <3>13 DEF Grouped
      <3>15. PICK D \in p : D # B
        BY <3>2
      <3>16. C = D
        BY <1>5, <2>1, <2>3, <3>3, <3>15 DEF Small, X
      <3> QED
        BY <3>11, <3>14, <3>15, <3>16
    <2> QED
      BY <2>3
  <1>6. Joins(K[i])
    BY <1>4, <1>5 DEF Joins
  <1> QED
    BY <1>1, <1>3, <1>6 DEF Relation

LEMMA NodeRelations ==
  ASSUME WellLinked, NEW f \in FunctionNodes
  PROVE  LET v == BuildRelationsWithFuncNodeType(f) IN
         /\ v \in Seq(Rels) /\ \A i \in 1..Len(v) : Relation(v[i])
         /\ \A B \in Classes(f) : \E i \in 1..Len(v) : B \subseteq v[i]
  <1> DEFINE v == BuildRelationsWithFuncNodeType(f)
  <1>0. f \in ShapeNodes
    BY DEF FunctionNodes
  <1>1. CASE shape.type[f] = "While"
    <2> DEFINE n == shape.ins[f]
    <2>1. n \in Nat
      BY <1>0 DEF WellLinked
    <2>2. v = BuildRefRelationsForWhile(f)
      BY <1>1 DEF BuildRelationsWithFuncNodeType
    <2> HIDE DEF v
    <2>3. v \in [1..n -> Rels] /\ \E K : Grouped(f, v, K, Len(Straight(f)))
      BY <1>1, <2>2, WhileGroups
    <2>4. PICK K : Grouped(f, v, K, Len(Straight(f)))
      BY <2>3
    <2>5. v \in Seq(Rels) /\ Len(v) = n
      <3> HIDE DEF n
      <3> QED
        BY <2>1, <2>3
    <2>6. \A i \in 1..n : Relation(v[i]) /\ LoopCells(f, i-1) \subseteq v[i]
      BY <1>1, <2>4, GroupIsRelation
    <2>7. ASSUME NEW B \in Classes(f) PROVE \E i \in 1..n : B \subseteq v[i]
      <3>1. PICK k \in 0..n-1 : B = LoopCells(f, k)
        BY <1>1 DEF Classes, LoopClasses
      <3> HIDE DEF n
      <3>2. k + 1 \in 1..n /\ (k + 1) - 1 = k
        BY <2>1
      <3>3. B \subseteq v[k+1]
        BY <2>6, <3>1, <3>2 DEF n
      <3> QED
        BY <3>2, <3>3
    <2> QED
      BY <2>5, <2>6, <2>7 DEF v
  <1>2. CASE shape.type[f] # "While"
    <2> DEFINE m == MaxElem(f)
               a == [k \in 1..m |-> BranchIn(f, k-1)]
               b == [k \in 1..m |-> BranchOut(f, k-1)]
    <2>1. m \in Nat
      BY MaxElemIs
    <2>2. v = a \o b
      BY <1>2 DEF BuildRelationsWithFuncNodeType, BuildRefRelationsForBranch, BranchIn, BranchOut
    <2>3. v \in Seq(Rels)
      BY <1>0, <1>2, BranchIs DEF BuildRelationsWithFuncNodeType
    <2>4. \A k \in 1..m : a[k] = BranchIn(f, k-1) /\ b[k] = BranchOut(f, k-1)
      OBVIOUS
    <2>5. \A k \in 0..m-1 : BranchIn(f, k) \in Classes(f) /\ BranchOut(f, k) \in Classes(f)
      BY <1>2 DEF Classes, BranchClasses
    <2>6. \A B \in Classes(f) : \E k \in 0..m-1 : B = BranchIn(f, k) \/ B = BranchOut(f, k)
      BY <1>2 DEF Classes, BranchClasses
    <2>7. a \in [1..m -> Range(a)] /\ b \in [1..m -> Range(b)] /\ DOMAIN a = 1..m /\ DOMAIN b = 1..m
      BY DEF Range
    <2> HIDE DEF m, a, b, v
    <2>8. Len(v) = m + m /\ (\A k \in 1..m : v[k] = a[k] /\ v[m+k] = b[k])
      <3> DEFINE S == Range(a) \cup Range(b)
      <3>1. a \in [1..m -> S] /\ b \in [1..m -> S]
        BY <2>7
      <3> HIDE DEF S
      <3>2. a \in Seq(S) /\ b \in Seq(S) /\ Len(a) = m /\ Len(b) = m
        BY <2>1, <3>1
      <3>3. Len(a \o b) = m + m /\ \A k \in 1..m : (a \o b)[k] = a[k]
        BY <2>1, <3>2
      <3>4. \A k \in 1..m : (a \o b)[m+k] = b[k]
        BY <2>1, <3>2
      <3> QED
        BY <2>2, <3>3, <3>4
    <2>9. ASSUME NEW i \in 1..Len(v) PROVE v[i] \in Classes(f)
      <3>1. CASE i \in 1..m
        <4>1. i - 1 \in 0..m-1
          BY <2>1, <3>1
        <4> QED
          BY <2>4, <2>5, <2>8, <3>1, <4>1
      <3>2. CASE i \notin 1..m
        <4>1. i - m \in 1..m /\ m + (i - m) = i /\ (i - m) - 1 \in 0..m-1
          BY <2>1, <2>8, <3>2
        <4>2. v[i] = b[i-m]
          BY <2>8, <4>1
        <4> QED
          BY <2>4, <2>5, <4>1, <4>2
      <3> QED
        BY <3>1, <3>2
    <2>10. ASSUME NEW B \in Classes(f) PROVE \E i \in 1..Len(v) : B \subseteq v[i]
      <3>1. PICK k \in 0..m-1 : B = BranchIn(f, k) \/ B = BranchOut(f, k)
        BY <2>6
      <3>2. k + 1 \in 1..m /\ (k + 1) - 1 = k /\ k + 1 \in 1..Len(v) /\ m + (k + 1) \in 1..Len(v)
        BY <2>1, <2>8
      <3>3. v[k+1] = BranchIn(f, k) /\ v[m + (k+1)] = BranchOut(f, k)
        BY <2>4, <2>8, <3>2
      <3> QED
        BY <3>1, <3>2, <3>3
    <2>11. \A i \in 1..Len(v) : Relation(v[i])
      BY <1>2, <2>9, BranchRelations
    <2> QED
      BY <2>3, <2>10, <2>11 DEF v
  <1> QED
    BY <1>1, <1>2

LEMMA AllRelations ==
  ASSUME WellLinked
  PROVE  LET v == BuildRefRelations IN
         /\ v \in Seq(Rels) /\ \A i \in 1..Len(v) : Relation(v[i])
         /\ \A B \in Base : \E i \in 1..Len(v) : B \subseteq v[i]
  <1> DEFINE o == shape.order
             m == Len(o)
             Of(k) == IF o[k] \in FunctionNodes THEN BuildRelationsWithFuncNodeType(o[k]) ELSE << >>
             Fine(v) == v \in Seq(Rels) /\ \A i \in 1..Len(v) : Relation(v[i])
             Holds(v, B) == \E i \in 1..Len(v) : B \subseteq v[i]
             Reached(v, k) == \A j \in 1..k : o[j] \in FunctionNodes => \A B \in Classes(o[j]) : Holds(v, B)
  <1>1. PICK values : RelationRun(values)
    BY RelationsRun
  <1>2. /\ values[0] = << >> /\ \A k \in 1..m : values[k] = values[k-1] \o Of(k)
        /\ BuildRefRelations = values[m]
    BY <1>1 DEF RelationRun
  <1>3. m \in Nat
    BY DEF WellLinked
  <1>4. ASSUME NEW k \in 1..m
        PROVE  Fine(Of(k)) /\ (o[k] \in FunctionNodes => \A B \in Classes(o[k]) : Holds(Of(k), B))
    <2> DEFINE f == o[k]
    <2>1. CASE f \in FunctionNodes
      <3>1. Of(k) = BuildRelationsWithFuncNodeType(f)
        BY <2>1
      <3> HIDE DEF f, Of
      <3> QED
        BY <2>1, <3>1, NodeRelations DEF f
    <2>2. CASE f \notin FunctionNodes
      <3>1. Of(k) = << >>
        BY <2>2
      <3> HIDE DEF Of
      <3>2. Of(k) \in Seq(Rels) /\ Len(Of(k)) = 0
        BY <3>1
      <3>3. Fine(Of(k))
        BY <3>2
      <3> QED
        BY <2>2, <3>3
    <2> QED
      BY <2>1, <2>2
  <1> HIDE DEF Of
  <1>5. ASSUME NEW v, NEW w, Fine(v), Fine(w)
        PROVE  Fine(v \o w) /\ \A B : Holds(v, B) \/ Holds(w, B) => Holds(v \o w, B)
    <2>1. v \in Seq(Rels) /\ w \in Seq(Rels)
      BY <1>5
    <2>2. /\ v \o w \in Seq(Rels) /\ Len(v) \in Nat /\ Len(w) \in Nat /\ Len(v \o w) = Len(v) + Len(w)
          /\ \A i \in 1..Len(v) : (v \o w)[i] = v[i]
      BY <2>1
    <2>3. \A i \in 1..Len(w) : (v \o w)[Len(v) + i] = w[i]
      BY <2>1
    <2>4. ASSUME NEW i \in 1..Len(v \o w) PROVE Relation((v \o w)[i])
      <3>1. CASE i \in 1..Len(v)
        BY <1>5, <2>2, <3>1
      <3>2. CASE i \notin 1..Len(v)
        <4>1. i - Len(v) \in 1..Len(w) /\ Len(v) + (i - Len(v)) = i
          BY <2>2, <3>2
        <4> QED
          BY <1>5, <2>3, <4>1
      <3> QED
        BY <3>1, <3>2
    <2>5. ASSUME NEW B, Holds(v, B) \/ Holds(w, B) PROVE Holds(v \o w, B)
      <3>1. CASE Holds(v, B)
        BY <2>2, <3>1
      <3>2. CASE Holds(w, B)
        <4>1. PICK i \in 1..Len(w) : B \subseteq w[i]
          BY <3>2
        <4>2. Len(v) + i \in 1..Len(v \o w)
          BY <2>2
        <4> QED
          BY <2>3, <4>1, <4>2
      <3> QED
        BY <2>5, <3>1, <3>2
    <2> QED
      BY <2>2, <2>4, <2>5
  <1> DEFINE A == {k \in 0..m : Fine(values[k]) /\ Reached(values[k], k)}
  <1>6. 0 \in A
    <2> DEFINE v == values[0]
    <2>1. v = << >>
      BY <1>2
    <2> HIDE DEF v
    <2>2. v \in Seq(Rels) /\ Len(v) = 0
      BY <2>1
    <2>3. Fine(v) /\ Reached(v, 0)
      BY <2>2
    <2> HIDE DEF Fine, Reached
    <2> QED
      BY <1>3, <2>3 DEF v
  <1>7. ASSUME NEW k \in 1..m, k - 1 \in A PROVE k \in A
    <2>1. Fine(values[k-1]) /\ Reached(values[k-1], k-1) /\ k \in 0..m
      BY <1>3, <1>7
    <2>2. values[k] = values[k-1] \o Of(k)
      BY <1>2
    <2>3. Fine(Of(k)) /\ (o[k] \in FunctionNodes => \A B \in Classes(o[k]) : Holds(Of(k), B))
      BY <1>4
    <2> HIDE DEF Fine, Holds
    <2>4. Fine(values[k]) /\ \A B : Holds(values[k-1], B) \/ Holds(Of(k), B) => Holds(values[k], B)
      BY <1>5, <2>1, <2>2, <2>3
    <2>5. ASSUME NEW j \in 1..k, o[j] \in FunctionNodes, NEW B \in Classes(o[j]) PROVE Holds(values[k], B)
      <3>1. CASE j = k
        BY <2>3, <2>4, <2>5, <3>1
      <3>2. CASE j # k
        <4>1. j \in 1..(k-1)
          BY <1>3, <3>2
        <4>2. Holds(values[k-1], B)
          BY <2>1, <2>5, <4>1
        <4> QED
          BY <2>4, <4>2
      <3> QED
        BY <3>1, <3>2
    <2> QED
      BY <2>1, <2>4, <2>5
  <1>8. m \in A
    <2> HIDE DEF A, m
    <2>1. \A k \in 0..m : k \in A
      BY <1>3, <1>6, <1>7, CountUp
    <2>2. m \in 0..m
      BY <1>3
    <2> QED
      BY <2>1, <2>2
  <1>9. Fine(values[m]) /\ Reached(values[m], m)
    BY <1>8
  <1>10. ASSUME NEW B \in Base PROVE Holds(values[m], B)
    <2>1. PICK f \in FunctionNodes : B \in Classes(f)
      BY BaseIs
    <2>2. f \in ToSet(o) /\ o \in Seq(ShapeNodes)
      BY DEF FunctionNodes, ShapeNodes, WellLinked
    <2>3. PICK j \in 1..m : o[j] = f
      <3> HIDE DEF o
      <3> QED
        BY <2>2 DEF ToSet
    <2> QED
      BY <1>9, <2>1, <2>3
  <1> QED
    BY <1>2, <1>9, <1>10

(* What a tensor is looked up with, and what the table is.                    *)
TableOfClasses(table) ==
    \A B \in Base : \A c \in B :
        LET found == LookUpRefRelations(table, c) IN
        /\ B \subseteq found
        /\ \E D \in Base : c \in D /\ found \subseteq UNION JoinedWith(D)
        /\ Cardinality(JoinedWith(B)) <= 2 => UNION JoinedWith(B) \subseteq found

LEMMA TableHasClasses ==
  ASSUME WellLinked
  PROVE  TableOfClasses(BuildLookUpTables(BuildRefRelations))
  <1> DEFINE v == BuildRefRelations
             t == BuildLookUpTables(v)
  <1>1. /\ v \in Seq(Rels) /\ \A i \in 1..Len(v) : Relation(v[i])
        /\ \A B \in Base : \E i \in 1..Len(v) : B \subseteq v[i]
    BY AllRelations
  <1> HIDE DEF v
  <1> SUFFICES ASSUME NEW B \in Base, NEW c \in B
               PROVE  LET found == LookUpRefRelations(t, c) IN
                      /\ B \subseteq found
                      /\ \E D \in Base : c \in D /\ found \subseteq UNION JoinedWith(D)
                      /\ Cardinality(JoinedWith(B)) <= 2 => UNION JoinedWith(B) \subseteq found
    BY DEF TableOfClasses, v
  <1>2. PICK i \in 1..Len(v) : c \in v[i]
    BY <1>1
  <1>3. PICK last \in 1..Len(v) : c \in v[last] /\ LookUpRefRelations(t, c) = v[last]
    BY <1>1, <1>2, LookedUp
  <1>4. PICK K \in SUBSET Base : v[last] = UNION K /\ Joins(K)
    BY <1>1 DEF Relation
  <1>5. PICK C \in K : c \in C
    BY <1>3, <1>4
  <1>6. C = B
    <2>1. PICK f \in FunctionNodes : B \in Classes(f)
      BY BaseIs
    <2>2. PICK g \in FunctionNodes : C \in Classes(g)
      BY BaseIs
    <2> QED
      BY <1>5, <2>1, <2>2, ClassesApart
  <1>7. B \in K /\ K \subseteq JoinedWith(B) /\ (Cardinality(JoinedWith(B)) <= 2 => JoinedWith(B) \subseteq K)
    BY <1>4, <1>5, <1>6 DEF Joins
  <1>8. B \subseteq v[last] /\ v[last] \subseteq UNION JoinedWith(B)
    BY <1>4, <1>7
  <1>9. Cardinality(JoinedWith(B)) <= 2 => UNION JoinedWith(B) \subseteq v[last]
    BY <1>4, <1>7
  <1> QED
    BY <1>3, <1>8, <1>9

LEMMA SameClasses ==
  ASSUME shape' = shape
  PROVE  TableOfClasses(job.table)' <=> TableOfClasses(job'.table)
  <1>1. Base' = Base
    BY DEF Base, LoopCells, DataCells, NetCells, MaxElem, GetDataOfSubGraph, GetNetoutputOfSubGraph, Skipped, Index,
           InsOf, ShapeNodes, FunctionNodes, In, Out
  <1>2. Passed' = Passed
    <2>1. \A f : Straight(f)' = Straight(f)
      BY SameStraight
    <2>2. \A f, k : LoopCells(f, k)' = LoopCells(f, k)
      BY DEF LoopCells, DataCells, NetCells, GetDataOfSubGraph, GetNetoutputOfSubGraph, Skipped, Index, InsOf,
             ShapeNodes, In, Out
    <2>3. FunctionNodes' = FunctionNodes
      BY DEF FunctionNodes, ShapeNodes
    <2>4. \A p : p \in Passed <=> \E f \in FunctionNodes : shape.type[f] = "While" /\
                    \E pair \in ToSet(Straight(f)) : p = {LoopCells(f, pair[1]), LoopCells(f, pair[2])}
      BY DEF Passed
    <2>5. \A p : p \in Passed' <=> \E f \in FunctionNodes' : shape'.type[f] = "While" /\
                    \E pair \in ToSet(Straight(f)') : p = {LoopCells(f, pair[1])', LoopCells(f, pair[2])'}
      BY DEF Passed
    <2>6. \A p : p \in Passed' <=> p \in Passed
      BY <2>1, <2>2, <2>3, <2>4, <2>5
    <2> QED
      BY <2>6
  <1>3. \A B : JoinedWith(B)' = JoinedWith(B)
    BY <1>2 DEF JoinedWith
  <1> QED
    BY <1>1, <1>3 DEF TableOfClasses, LookUpRefRelations

LookUpInv == SpreadInv /\ (job.stage \in {"anchors", "data"} => TableOfClasses(job.table))

(* Only the start of an inference builds the table.                           *)
LEMMA TableStays ==
  ASSUME SpreadInv, AnchorProcess \/ NextAnchor \/ DataNodeFormatProcess \/ Finish \/ UNCHANGED fvars
  PROVE  /\ shape' = shape /\ job'.table = job.table
         /\ job'.stage \in {"anchors", "data"} => job.stage \in {"anchors", "data"}
  <1>1. job = [stage |-> job.stage, todo |-> job.todo, queue |-> job.queue, datas |-> job.datas,
               table |-> job.table, runs |-> job.runs]
    BY DEF SpreadInv, JobRight
  <1>2. CASE AnchorProcess
    <2>1. /\ shape' = shape /\ job.stage \in {"anchors", "data"}
          /\ \E s : job' = [job EXCEPT !.queue = s.queue] \/ job' = [job EXCEPT !.stage = "failed"]
      BY <1>2 DEF AnchorProcess, Fail
    <2> QED
      BY <1>1, <2>1
  <1>3. CASE NextAnchor
    BY <1>1, <1>3 DEF NextAnchor
  <1>4. CASE DataNodeFormatProcess
    <2>1. shape' = shape /\ job.stage = "anchors" /\ \E left : job' = [job EXCEPT !.stage = "data", !.todo = left]
      BY <1>4 DEF DataNodeFormatProcess
    <2> QED
      BY <1>1, <2>1
  <1>5. CASE Finish
    <2>1. shape' = shape /\ job' = [job EXCEPT !.stage = "idle"]
      BY <1>5 DEF Finish
    <2> QED
      BY <1>1, <2>1
  <1>6. CASE UNCHANGED fvars
    BY <1>6 DEF fvars
  <1> QED
    BY <1>2, <1>3, <1>4, <1>5, <1>6

LEMMA TableStarts ==
  ASSUME SpreadInv, InferOrigineFormat
  PROVE  /\ shape' = shape
         /\ job'.stage \in {"anchors", "data"} => job'.table = BuildLookUpTables(BuildRefRelations)
  <1>1. job = [stage |-> job.stage, todo |-> job.todo, queue |-> job.queue, datas |-> job.datas,
               table |-> job.table, runs |-> job.runs]
    BY DEF SpreadInv, JobRight
  <1> DEFINE ta == BuildLookUpTables(BuildRefRelations)
             bad == "failed"
  <1>2. /\ shape' = shape
        /\ \/ job' = [job EXCEPT !.stage = bad, !.runs = @ + 1]
           \/ \E to, da : job' = [stage |-> "anchors", todo |-> to, queue |-> << >>, datas |-> da, table |-> ta, runs |-> job.runs + 1]
    BY DEF InferOrigineFormat
  <1>3. bad \notin {"anchors", "data"}
    OBVIOUS
  <1> HIDE DEF ta, bad
  <1>4. job' = [job EXCEPT !.stage = bad, !.runs = @ + 1] => job'.stage = bad
    BY <1>1
  <1>5. (\E to, da : job' = [stage |-> "anchors", todo |-> to, queue |-> << >>, datas |-> da, table |-> ta, runs |-> job.runs + 1])
          => job'.table = ta
    OBVIOUS
  <1> QED
    BY <1>2, <1>3, <1>4, <1>5 DEF ta

LEMMA LookUpInvStep ==
  ASSUME LookUpInv, [FNext]_fvars, SpreadInv'
  PROVE  LookUpInv'
  <1>1. CASE InferOrigineFormat
    <2>1. shape' = shape /\ (job'.stage \in {"anchors", "data"} => job'.table = BuildLookUpTables(BuildRefRelations))
      BY <1>1, TableStarts DEF LookUpInv
    <2>2. TableOfClasses(BuildLookUpTables(BuildRefRelations))
      BY TableHasClasses DEF LookUpInv, SpreadInv
    <2>3. job'.stage \in {"anchors", "data"} => TableOfClasses(job'.table)
      BY <2>1, <2>2
    <2> QED
      BY <2>1, <2>3, SameClasses DEF LookUpInv
  <1>2. CASE ~InferOrigineFormat
    <2>1. /\ shape' = shape /\ job'.table = job.table
          /\ job'.stage \in {"anchors", "data"} => job.stage \in {"anchors", "data"}
      BY <1>2, TableStays DEF LookUpInv, FNext
    <2>2. job'.stage \in {"anchors", "data"} => TableOfClasses(job'.table)
      BY <2>1 DEF LookUpInv
    <2> QED
      BY <2>1, <2>2, SameClasses DEF LookUpInv
  <1> QED
    BY <1>1, <1>2

(* Each tensor is looked up with all that share its index, with none that no   *)
(* passage of a loop joins to it, and with all of those where two are joined   *)
(* (RefRelations::Impl::BuildRefRelations, BuildLookUpTables, whatever the     *)
(* graph and its subgraphs).                                                   *)
THEOREM LookUpsAreClassesAlways == FSpec => []LookUpsAreClasses
  <1>1. FStart /\ SpreadInv => LookUpInv
    BY DEF FStart, LookUpInv
  <1>2. LookUpInv /\ [FNext]_fvars /\ SpreadInv' => LookUpInv'
    BY LookUpInvStep
  <1>3. LookUpInv => LookUpsAreClasses
    <2> SUFFICES ASSUME TableOfClasses(job.table) PROVE LookUpsAreClasses
      BY DEF LookUpInv, LookUpsAreClasses
    <2> QED
      BY DEF LookUpsAreClasses, TableOfClasses
  <1> QED
    BY <1>1, <1>2, <1>3, SpreadInvAlways, PTL DEF FSpec
=============================================================================

----------------------------- MODULE InferTrans -----------------------------
(* OpDesc::CallInferFunc: an operator's infer function thinks in the origin    *)
(* formats, so NodeShapeTransUtils puts these in place of the formats before   *)
(* it is called, and transfers formats and shapes back after.                  *)
EXTENDS Integers, Sequences

CONSTANTS Formats,          \* among them "ND"; "RESERVED" is the code's "none"
          MaxCalls          \* bound: how often the operator is inferred

ASSUME InferAssumption == {"RESERVED", "same"} \cap Formats = {}

VARIABLES ports,            \* the descriptions: [dir, format, origin, shape, oshape]
          saved,            \* map_format_..., map_ori_format_...: [format, origin]
          call              \* [at, done, result, left]: the call that runs, the calls so
                            \* far, what the last one returned and the outputs it left out
ivars == <<ports, saved, call>>
(* A shape is <<layout, size>>: the format it is written in, and what it says. *)

(* External: GetShapeAccordingToFormat writes a shape in another format.       *)
Transfer(sh, from, to) == IF sh[1] = from THEN <<to, sh[2]>> ELSE sh

Kept(p) == p.format = p.origin
CatchFormatAndShape ==
    /\ call.at = "idle" /\ call.done < MaxCalls
    /\ saved' = [i \in DOMAIN ports |-> IF Kept(ports[i]) THEN [format |-> "RESERVED", origin |-> "RESERVED"]
                                        ELSE [format |-> ports[i].format, origin |-> ports[i].origin]]
    /\ ports' = [i \in DOMAIN ports |-> LET p == ports[i] IN
          IF Kept(p) THEN p
          ELSE IF p.dir = "in" THEN [p EXCEPT !.format = p.origin, !.shape = p.oshape]
          ELSE [p EXCEPT !.format = p.origin]]
    /\ call' = [call EXCEPT !.at = "func", !.done = @ + 1]

(* The operator's function: new shapes for the outputs, in the format it sees, *)
(* which it may change too, or a failure.                                      *)
InferFunc ==
    /\ call.at = "func"
    /\ saved' = saved
    /\ \/ /\ call' = [call EXCEPT !.at = "idle", !.result = "failed"]
          /\ ports' = ports
       \/ \E size \in {1, 2}, fm \in Formats \cup {"same"} :
          /\ ports' = [i \in DOMAIN ports |-> LET p == ports[i]
                                                  to == IF fm = "same" THEN p.format ELSE fm
                        IN IF p.dir = "in" THEN p ELSE [p EXCEPT !.format = to, !.shape = <<to, size>>]]
          /\ call' = [call EXCEPT !.at = "update"]

UpdateInput(p, s) ==
    CASE s.format = "RESERVED" -> [p EXCEPT !.origin = p.format, !.oshape = p.shape]
      [] p.format = s.format   -> p
      [] OTHER -> [p EXCEPT !.format = s.format, !.shape = Transfer(p.shape, p.format, s.format)]
(* Mutant: the shape is transferred, the format not put back.                  *)
UpdateOutputHalf(p, s) ==
    CASE s.origin = "RESERVED" -> [p EXCEPT !.origin = p.format, !.oshape = p.shape]
      [] p.format = s.format   -> [p EXCEPT !.oshape = p.shape]
      [] OTHER -> [p EXCEPT !.oshape = p.shape, !.shape = Transfer(p.shape, p.format, s.format)]
UpdateOutput(p, s) ==
    CASE s.origin = "RESERVED" -> [p EXCEPT !.origin = p.format, !.oshape = p.shape]
      [] p.format = s.format   -> [p EXCEPT !.oshape = p.shape]
      [] OTHER -> [p EXCEPT !.oshape = p.shape, !.format = s.format, !.shape = Transfer(p.shape, p.format, s.format)]
(* The inputs first; the first output whose format is no more the origin       *)
(* format ends the update, with what is done so far.  GRAPH_FAILED, which is   *)
(* not 0, is true for the caller: CallInferFunc succeeds.                      *)
Stray(i) == ports[i].dir = "out" /\ saved[i].origin # "RESERVED" /\ ports[i].format # saved[i].origin
UpdateFormatAndShape ==
    /\ call.at = "update"
    /\ LET early(i) == \A j \in 1..i : ~Stray(j)
       IN  /\ ports' = [i \in DOMAIN ports |->
                IF ports[i].dir = "in" THEN UpdateInput(ports[i], saved[i])
                ELSE IF early(i) THEN UpdateOutput(ports[i], saved[i])
                ELSE ports[i]]
           /\ call' = [call EXCEPT !.at = "idle", !.result = "success",
                                   !.left = {i \in DOMAIN ports : ports[i].dir = "out" /\ ~early(i)}]
    /\ saved' = saved

IInit(p) ==
    /\ ports = p
    /\ saved = [i \in DOMAIN p |-> [format |-> "RESERVED", origin |-> "RESERVED"]]
    /\ call = [at |-> "idle", done |-> 0, result |-> "none", left |-> {}]
INext == CatchFormatAndShape \/ InferFunc \/ UpdateFormatAndShape

(* Any operator whose shapes are written in their formats, whatever they say.  *)
PortType == [dir : {"in", "out"}, format : Formats, origin : Formats,
             shape : Formats \X Nat, oshape : Formats \X Nat]
LaidOut(p) == p.shape[1] = p.format /\ p.oshape[1] = p.origin
InferSpec == (\E p \in Seq(PortType) : (\A i \in DOMAIN p : LaidOut(p[i])) /\ IInit(p)) /\ [][INext]_ivars

-----------------------------------------------------------------------------
(* Both shapes say the same, and the formats are two where they were two.      *)
Agree(p, s) == /\ p.shape[2] = p.oshape[2]
               /\ s.format # "RESERVED" => p.format = s.format /\ p.origin = s.origin
(* When CallInferFunc succeeded, whatever became of earlier calls: a tensor's  *)
(* shape is written in its format and its origin shape in its origin format,   *)
(* and, but for the outputs that the update did not come to, both say the same *)
(* and the formats are two where they were two.                                *)
ShapesFitFormats ==
    call.at = "idle" /\ call.result = "success" => \A i \in DOMAIN ports :
        LaidOut(ports[i]) /\ (i \notin call.left => Agree(ports[i], saved[i]))

(* A mismatch of formats ends CallInferFunc with "catch format and shape info  *)
(* failed!" (op_desc.cc:1348): one that succeeds left no output half updated.  *)
SuccessIsComplete ==
    call.at = "idle" /\ call.result = "success" => \A i \in DOMAIN ports : Agree(ports[i], saved[i])
=============================================================================

------------------------------- MODULE PortsSpec -------------------------------
(* What an operator description promises about its inputs, and about its      *)
(* outputs, whatever the order in which ports are registered and dynamic      *)
(* ports are created: every port has one name and one tensor description, a   *)
(* new port never changes what an existing one has or the order of those      *)
(* already there, and ports do not disappear.                                 *)
EXTENDS Integers, Sequences

CONSTANTS Owners,      \* one for the inputs, one for the outputs of an operator
          Mapped       \* the owners that a parser maps from another framework

VARIABLE ports         \* owner -> sequence of [name, desc]

Names(s)     == {s[i].name : i \in DOMAIN s}
Where(s, n)  == CHOOSE i \in DOMAIN s : s[i].name = n
Distinct(s)  == \A i, j \in DOMAIN s : s[i].name = s[j].name => i = j

PortsInit == \A o \in Owners : Distinct(ports[o])

(* New ports go in anywhere; the old ones keep their order and, but for those *)
(* of an owner that is mapped, their descriptions.                            *)
Extend(s, t) ==
    /\ Distinct(t)
    /\ Names(s) \subseteq Names(t)
    /\ \A i \in DOMAIN s : \A j \in 1..i-1 : Where(t, s[j].name) < Where(t, s[i].name)
Keep(s, t) == \A i \in DOMAIN s : t[Where(t, s[i].name)].desc = s[i].desc

(* The descriptions of existing ports are set; the names stay where they are. *)
Describe(s, t) ==
    /\ Len(t) = Len(s)
    /\ \A i \in DOMAIN s : t[i].name = s[i].name

(* The ports get other names; the descriptions stay where they are.           *)
Rename(s, t) ==
    /\ Len(t) = Len(s)
    /\ Distinct(t)
    /\ \A i \in DOMAIN s : t[i].desc = s[i].desc

PortsNext == \A o \in Owners :
    \/ Extend(ports[o], ports'[o]) /\ (o \in Mapped \/ Keep(ports[o], ports'[o]))
    \/ Describe(ports[o], ports'[o])
    \/ Rename(ports[o], ports'[o])

PortsSpec == PortsInit /\ [][PortsNext]_ports
=============================================================================

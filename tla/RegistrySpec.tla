------------------------------ MODULE RegistrySpec ------------------------------
(* What every registry of metadef promises to the code that looks things up:  *)
(* an entry comes from one registration; where the first registration wins,   *)
(* the answer to a lookup never changes again; an entry disappears only where *)
(* the registry has a way to remove it.  One call may enter several keys.     *)
CONSTANTS Keys,        \* what can be looked up
          FirstWins,   \* the keys where a later registration is refused
          Removable,   \* the keys that can be taken out again
          Registrants, \* who may have registered
          Nobody       \* the answer when nothing is registered

VARIABLE entry         \* the registrant a lookup of a key finds

RegInit == entry = [k \in Keys |-> Nobody]

Stays(k)   == entry'[k] = entry[k]
Enters(k)  == entry[k] = Nobody /\ entry'[k] \in Registrants
Renews(k)  == k \notin FirstWins /\ entry'[k] \in Registrants
Leaves(k)  == k \in Removable /\ entry'[k] = Nobody

RegNext == \A k \in Keys : Stays(k) \/ Enters(k) \/ Renews(k) \/ Leaves(k)

RegSpec == RegInit /\ [][RegNext]_entry
=============================================================================

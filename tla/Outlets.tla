------------------------------ MODULE Outlets ------------------------------
(***************************************************************************)
(* The switched outlets as the controllers see them: a command that is     *)
(* published is executed, overtaken by the next one or lost; the outlet    *)
(* reports its state, also when nothing changed, and may be switched by    *)
(* hand.  All of this happens outside the program; of commands under way   *)
(* to one outlet only the last one is kept.                                *)
(***************************************************************************)
EXTENDS Naturals

CONSTANTS Units,   \* everything that is switched
          None     \* no value

Commands == {"on", "off"}
Command(on) == IF on THEN "on" ELSE "off"

ASSUME OutletsAssumption == None \notin Commands

VARIABLES
  device,   \* the state of each outlet
  wire,     \* the command on its way to it
  actual    \* what its status topic last said, in the cache

outletVars == <<device, wire, actual>>

OutletsTypeOK ==
  /\ device \in [Units -> Commands]
  /\ wire \in [Units -> Commands \cup {None}]
  /\ actual \in [Units -> Commands \cup {None}]

OutletsInit ==
  /\ device \in [Units -> Commands]
  /\ wire = [u \in Units |-> None]
  /\ actual = [u \in Units |-> None]

(* mqttClient.publish of `sent`, a command or None for each unit.          *)
Publish(sent) == wire' = [u \in Units |-> IF sent[u] = None THEN wire[u] ELSE sent[u]]

Execute(u) ==
  /\ wire[u] # None
  /\ device' = [device EXCEPT ![u] = wire[u]]
  /\ wire' = [wire EXCEPT ![u] = None]
  /\ UNCHANGED actual

Lose(u) ==
  /\ wire[u] # None
  /\ wire' = [wire EXCEPT ![u] = None]
  /\ UNCHANGED <<device, actual>>

Report(u) ==
  /\ actual' = [actual EXCEPT ![u] = device[u]]
  /\ UNCHANGED <<device, wire>>

ByHand(u) ==
  /\ device' = [device EXCEPT ![u] = Command(device[u] = "off")]
  /\ UNCHANGED <<wire, actual>>
=============================================================================

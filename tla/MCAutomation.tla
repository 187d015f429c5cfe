---------------------------- MODULE MCAutomation ----------------------------
(* Instances of Automation for TLC.                                        *)
EXTENDS Automation

Limit(sets, drops, defs, conditionEdits, rulesEdits) ==
  [sets |-> sets, drops |-> drops, defs |-> defs, edits |-> conditionEdits,
   ruleEdits |-> rulesEdits]

(* Several small instances: each makes one thing meet another.             *)
BusLimits ==
  {Limit(2, 1, 1, 0, 0),   \* the connection, and what is defined
   Limit(1, 1, 0, 1, 0),   \* the connection and an edit
   Limit(1, 1, 0, 0, 1),
   Limit(3, 0, 0, 0, 1),   \* a value missed in a reload
   Limit(0, 0, 0, 0, 2),   \* two edits at the same time
   Limit(0, 0, 0, 2, 0),
   Limit(0, 0, 0, 1, 1)}

BranchLimits == {Limit(2, 0, 0, 1, 0)}

RadioLimits == {Limit(1, 0, 0, 1, 0)}
=============================================================================

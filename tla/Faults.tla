-------------------------------- MODULE Faults --------------------------------
(***************************************************************************)
(* The one bound on whatever goes wrong in the bot and around it: requests *)
(* without an answer, replies that fail, stops and crashes.                *)
(***************************************************************************)
EXTENDS Naturals

CONSTANT MaxFaults

ASSUME FaultsAssumption == MaxFaults \in Nat

VARIABLE faults   \* what has gone wrong so far

Fault ==
  /\ faults < MaxFaults
  /\ faults' = faults + 1
==============================================================================

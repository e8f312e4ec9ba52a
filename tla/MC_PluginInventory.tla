------------------------ MODULE MC_PluginInventory ------------------------
(* Model values and the environment of the inventory's run. *)
EXTENDS PluginInventory, TLC

CONSTANTS p, q, v1, v2, fact

Allow(c, u, f, t) == [change |-> c, upload |-> u, fault |-> f, time |-> t]

InventoryBudgets == {Allow(3, 0, 0, 0), Allow(2, 0, 1, 0), Allow(2, 1, 0, 2)}
=============================================================================

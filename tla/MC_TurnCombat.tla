--------------------------- MODULE MC_TurnCombat ---------------------------
(* The turn-combat lab with two health points per damage roll scale.      *)
EXTENDS TurnCombat

=============================================================================

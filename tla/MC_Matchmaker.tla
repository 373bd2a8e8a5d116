----------------------------- MODULE MC_Matchmaker -----------------------------
(* Matchmaker with three players, MMRs scaled by 1/100 (MMR_TOLERANCE 200   *)
(* becomes 2); room ids and restarts are set in each cfg.                  *)
EXTENDS Matchmaker
=============================================================================

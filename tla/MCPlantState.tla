----------------------------- MODULE MCPlantState -----------------------------
(* PlantState for TLC.  No symmetry, since the run checks liveness. *)
EXTENDS PlantState
===============================================================================

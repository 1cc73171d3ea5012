----------------------------- MODULE MCStage2Runner -----------------------------
(* The runner alone, for the calls after a warmup.                            *)
EXTENDS Stage2Runner
=================================================================================

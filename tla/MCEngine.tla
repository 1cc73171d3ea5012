-------------------------------- MODULE MCEngine --------------------------------
(* What of the Engine outlives a request, two parts with no state in common: *)
(* the session map, which the statements of two requests take turns at, and  *)
(* the Stage-2 runner.  A behaviour chooses one; the other stays as it is.   *)
(*                                                                           *)
(* Two threads, two values, two categories: enough for two threads to meet   *)
(* on the same value and on the same counter.  No bound is needed: a counter *)
(* moves only for a value that is not yet known, once per thread at most.    *)
(* Four calls of the runner are enough for a call to meet what a late or     *)
(* failed call, a restarted worker and a warmup have left behind.            *)
EXTENDS SharedSession, Stage2Runner

VARIABLE part

engineVars == <<part, sharedVars, runnerVars>>

EngineInit ==
    /\ part \in {"session", "runner"}
    /\ SharedInit /\ RunnerInit
    /\ part = "session" => ~ slow

EngineNext ==
    /\ UNCHANGED part
    /\ \/ part = "session" /\ SharedNext /\ UNCHANGED runnerVars
       \/ part = "runner" /\ RunnerNext /\ UNCHANGED sharedVars

EngineSpec == EngineInit /\ [][EngineNext]_engineVars /\ WF_runnerVars(part = "runner" /\ CallerStep /\ UNCHANGED sharedVars)
=================================================================================

------------------------------ MODULE Stage2Runner ------------------------------
(***************************************************************************)
(* stage2.runner.Stage2NERRunner and its worker process                    *)
(* (_workers.default_ner_worker_loop): one request queue and one response  *)
(* queue of length one, a timeout on every answer, and a worker that loads *)
(* its model on the first request, exits after a minute without one, and   *)
(* may fail, hang or be killed.  Calls come one after another, under the   *)
(* engine lock of the proxy.                                               *)
(***************************************************************************)
EXTENDS Naturals

CONSTANTS MaxCalls      \* bound: calls of warmup and scan; a call's number is its text

ASSUME RunnerAssumption == MaxCalls \in Nat

VARIABLES phase,        \* of the caller: "idle", "send", "wait", "reset"
          kind,         \* of its call: "warmup" or "scan"
          calls,        \* calls so far
          result,       \* of the last call: "none", "ok", "gap"
          answered,     \* the text its answer was for
          worker,       \* "none", "cold", "warm", "dead"
          hand,         \* the text the worker is at, 0 for none
          reqQ, respQ,  \* 0, or the text; and respOk, what is said of it
          respOk,
          slow,         \* the model takes longer to load than scan waits
          warmed,       \* a warmup has succeeded
          idled,        \* a worker has exited for want of requests since
          fault         \* something has failed: a start, the model, the process

caller == <<phase, kind, calls, result, answered>>
workerVars == <<worker, hand, reqQ, respQ, respOk>>
history == <<slow, warmed, idled, fault>>
runnerVars == <<caller, workerVars, history>>

Alive == worker \in {"cold", "warm"}

RunnerInit ==
    /\ phase = "idle" /\ kind = "scan" /\ calls = 0 /\ result = "none" /\ answered = 0
    /\ worker = "none" /\ hand = 0 /\ reqQ = 0 /\ respQ = 0 /\ respOk = FALSE
    /\ slow \in BOOLEAN /\ warmed = FALSE /\ idled = FALSE /\ fault = FALSE

-----------------------------------------------------------------------------
(* The caller.  A worker that does not live is replaced, queues and all.     *)
FreshQueues == hand' = 0 /\ reqQ' = 0 /\ respQ' = 0 /\ respOk' = FALSE
EnsureWorkerAlive ==
    IF Alive THEN UNCHANGED workerVars ELSE worker' = "cold" /\ FreshQueues

Call(k) ==
    /\ phase = "idle" /\ calls < MaxCalls
    /\ phase' = "send" /\ kind' = k /\ calls' = calls + 1
    /\ EnsureWorkerAlive
    /\ UNCHANGED <<result, answered, history>>

(* The process cannot be started: the call gives up at once. *)
StartFails ==
    /\ phase = "idle" /\ calls < MaxCalls /\ ~ Alive
    /\ calls' = calls + 1 /\ result' = "gap" /\ answered' = 0
    /\ fault' = TRUE
    /\ UNCHANGED <<phase, kind, workerVars, slow, warmed, idled>>

Send ==
    /\ phase = "send" /\ reqQ = 0
    /\ phase' = "wait" /\ reqQ' = calls
    /\ UNCHANGED <<kind, calls, result, answered, worker, hand, respQ, respOk, history>>

(* The text cannot be put in the queue.  (That the queue is full, the code   *)
(* guards against too; NothingLeftOver says that it never is.)               *)
SendFails ==
    /\ phase = "send" /\ phase' = "reset"
    /\ fault' = TRUE
    /\ UNCHANGED <<kind, calls, result, answered, workerVars, slow, warmed, idled>>

(* An answer, of success or of an error the worker caught.                   *)
Receive ==
    /\ phase = "wait" /\ respQ # 0
    /\ phase' = "idle"
    /\ result' = IF respOk THEN "ok" ELSE "gap"
    /\ answered' = respQ
    /\ respQ' = 0
    /\ warmed' = (warmed \/ (kind = "warmup" /\ respOk))
    /\ UNCHANGED <<kind, calls, worker, hand, reqQ, respOk, slow, idled, fault>>

(* No answer in time, or the pipe breaks.  A worker that has its model and   *)
(* does not answer hangs; one that still loads it may just be slow.          *)
WaitForever == phase = "wait" /\ UNCHANGED runnerVars
WaitFails ==
    /\ phase = "wait" /\ respQ = 0
    /\ phase' = "reset"
    /\ fault' = (fault \/ worker = "warm" \/ (worker = "cold" /\ ~ (slow /\ kind = "scan")))
    /\ UNCHANGED <<kind, calls, result, answered, workerVars, slow, warmed, idled>>

(* _reset_worker, whatever the worker has done since.                        *)
ResetLeavesWorker ==
    /\ phase = "reset" /\ phase' = "idle"
    /\ result' = "gap" /\ answered' = 0
    /\ UNCHANGED <<kind, calls, workerVars, history>>
ResetWorker ==
    /\ phase = "reset" /\ phase' = "idle"
    /\ result' = "gap" /\ answered' = 0
    /\ worker' = "none" /\ FreshQueues
    /\ UNCHANGED <<kind, calls, history>>

(* close(); a later call starts over. *)
Close ==
    /\ phase = "idle" /\ worker # "none"
    /\ worker' = "none" /\ FreshQueues
    /\ warmed' = FALSE
    /\ UNCHANGED <<caller, slow, idled, fault>>

-----------------------------------------------------------------------------
(* The worker. *)
Take ==
    /\ Alive /\ hand = 0 /\ reqQ # 0
    /\ hand' = reqQ /\ reqQ' = 0
    /\ UNCHANGED <<caller, worker, respQ, respOk, history>>

(* The first request loads the model, which may outlast the caller. *)
LoadModel ==
    /\ worker = "cold" /\ hand # 0
    /\ ~ (slow /\ kind = "scan" /\ phase = "wait")
    /\ worker' = "warm"
    /\ UNCHANGED <<caller, hand, reqQ, respQ, respOk, history>>

RespondUnloads(ok) ==
    /\ respQ = 0
    /\ respQ' = hand /\ respOk' = ok /\ hand' = 0 /\ worker' = "cold"
    /\ UNCHANGED <<caller, reqQ, slow, warmed, idled>>
Respond(ok) ==
    /\ respQ = 0
    /\ respQ' = hand /\ respOk' = ok /\ hand' = 0
    /\ UNCHANGED <<caller, worker, reqQ, slow, warmed, idled>>
Answer == worker = "warm" /\ hand # 0 /\ Respond(TRUE) /\ UNCHANGED fault
AnswerError == Alive /\ hand # 0 /\ Respond(FALSE) /\ fault' = TRUE

(* A minute without a request; one still in the sender's buffer is no help.  *)
IdleExit ==
    /\ Alive /\ hand = 0
    /\ worker' = "dead" /\ idled' = TRUE
    /\ UNCHANGED <<caller, hand, reqQ, respQ, respOk, slow, warmed, fault>>

Killed ==
    /\ Alive
    /\ worker' = "dead" /\ hand' = 0 /\ fault' = TRUE
    /\ UNCHANGED <<caller, reqQ, respQ, respOk, slow, warmed, idled>>

CallerStep == Send \/ SendFails \/ Receive \/ WaitFails \/ ResetWorker

RunnerNext ==
    \/ \E k \in {"warmup", "scan"} : Call(k)
    \/ StartFails \/ Send \/ SendFails \/ Receive \/ WaitFails \/ ResetWorker \/ Close
    \/ Take \/ LoadModel \/ Answer \/ AnswerError \/ IdleExit \/ Killed

(* The caller's waits have timeouts; the worker is owed nothing. *)
RunnerSpec == RunnerInit /\ [][RunnerNext]_runnerVars /\ WF_runnerVars(CallerStep)

-----------------------------------------------------------------------------

(* A call that succeeds has the answer to its own text: one that came too    *)
(* late for an earlier call is never taken for it, also across a restart of  *)
(* the worker, and its spans are never laid over another text.               *)
OwnAnswer == phase = "idle" /\ result = "ok" => answered = calls

(* The queue is free for every call: nothing of an earlier one is left in    *)
(* it, in the response queue or with the worker, whatever became of it.      *)
NothingLeftOver ==
    phase = "send" => reqQ = 0 /\ respQ = 0 /\ hand = 0

(* Stage 2 never holds up the forwarding of a request: every call returns,   *)
(* whether its worker answers, fails, hangs or is gone.                      *)
EveryCallReturns == phase # "idle" ~> phase = "idle"

(* After a warmup, and until a worker has exited for idleness, no call goes  *)
(* without Stage 2 unless something fails; in particular, not the next after *)
(* an answer, and whatever the model's loading time.                         *)
WarmUntilIdle == warmed /\ ~ idled /\ ~ fault => result # "gap"

(* After a warmup, and while nothing fails, no call times out on the loading *)
(* of the model, as the docstring of warmup has it.                          *)
NoColdTimeout == warmed /\ ~ fault => ~ (phase = "reset" /\ worker = "cold")
===============================================================================

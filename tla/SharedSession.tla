----------------------------- MODULE SharedSession -----------------------------
(***************************************************************************)
(* One Engine, hence one SessionMap, used by several threads.  Each thread *)
(* masks the values of a request one after the other (masker.              *)
(* apply_redactions calls session_map.encode per detection) and later      *)
(* restores the reply from the map.  PIIGuardProxy brackets the masking    *)
(* with _engine_lock (UseLock = TRUE); the Streamlit page of ui/app.py     *)
(* shares a cached Engine between the script threads of its visitors       *)
(* without any lock (UseLock = FALSE).                                     *)
(*                                                                         *)
(* encode is taken apart at the reads and writes of the three              *)
(* dictionaries; the interpreters the package supports (3.9 and later) may *)
(* switch threads between any two of them.                                 *)
(***************************************************************************)
EXTENDS SessionMap

CONSTANTS Threads,      \* request threads (proxy) or page sessions (UI)
          UseLock,      \* TRUE: the masking of a request holds _engine_lock
          NoThread      \* the lock is free

ASSUME SharedAssumption ==
    /\ UseLock \in BOOLEAN
    /\ NoThread \notin Threads

VARIABLES lock,         \* the thread that holds _engine_lock
          pc,           \* where each thread is
          arg,          \* arguments of the encode call in progress
          tmp,          \* the counter value loaded, then the index taken
          got           \* the pairs <<value, token>> the request obtained

sharedVars == <<v2p, p2v, counters, lock, pc, arg, tmp, got>>
locals == <<lock, pc, arg, tmp, got>>

Arg == [value : Values, category : Categories, blocked : BOOLEAN]

TokenFor(th) == TokenOf(arg[th].category, tmp[th], arg[th].blocked)

Goto(th, l) == pc' = [pc EXCEPT ![th] = l]
Return(th, t) ==
    /\ got' = [got EXCEPT ![th] = @ \cup {<<arg[th].value, t>>}]
    /\ Goto(th, "masking")

SharedInit ==
    /\ Init
    /\ lock = NoThread
    /\ pc = [th \in Threads |-> "idle"]
    /\ arg \in [Threads -> {CHOOSE a \in Arg : TRUE}]
    /\ tmp = [th \in Threads |-> 0]
    /\ got = [th \in Threads |-> {}]

-----------------------------------------------------------------------------
(* with self._engine_lock: ... the UI has no such statement. *)
BeginUnlocked(th) ==
    /\ pc[th] = "idle"
    /\ lock' = lock
    /\ Goto(th, "masking")
    /\ UNCHANGED <<vars, arg, tmp, got>>
Begin(th) ==
    /\ pc[th] = "idle"
    /\ UseLock => lock = NoThread
    /\ lock' = IF UseLock THEN th ELSE lock
    /\ Goto(th, "masking")
    /\ UNCHANGED <<vars, arg, tmp, got>>

(* The next detection of the text is handed to encode. *)
CallEncode(th) ==
    /\ pc[th] = "masking"
    /\ \E a \in Arg : arg' = [arg EXCEPT ![th] = a]
    /\ Goto(th, "lookup")
    /\ UNCHANGED <<vars, lock, tmp, got>>

(* existing = self._value_to_placeholder.get(value) *)
Lookup(th) ==
    /\ pc[th] = "lookup"
    /\ IF arg[th].value \in DOMAIN v2p
       THEN Return(th, v2p[arg[th].value])
       ELSE Goto(th, "load") /\ UNCHANGED got
    /\ UNCHANGED <<vars, lock, arg, tmp>>

(* self._counters[category] += 1, its load and its store *)
LoadNothing(th) ==
    /\ pc[th] = "load"
    /\ tmp' = [tmp EXCEPT ![th] = 0]
    /\ Goto(th, "store")
    /\ UNCHANGED <<vars, lock, arg, got>>
LoadCounter(th) ==
    /\ pc[th] = "load"
    /\ tmp' = [tmp EXCEPT ![th] = counters[arg[th].category]]
    /\ Goto(th, "store")
    /\ UNCHANGED <<vars, lock, arg, got>>

StoreCounter(th) ==
    /\ pc[th] = "store"
    /\ counters' = [counters EXCEPT ![arg[th].category] = tmp[th] + 1]
    /\ Goto(th, "index")
    /\ UNCHANGED <<v2p, p2v, lock, arg, tmp, got>>

(* idx = self._counters[category] *)
TakeIndex(th) ==
    /\ pc[th] = "index"
    /\ tmp' = [tmp EXCEPT ![th] = counters[arg[th].category]]
    /\ Goto(th, "forward")
    /\ UNCHANGED <<vars, lock, arg, got>>

(* self._value_to_placeholder[value] = token *)
PutForward(th) ==
    /\ pc[th] = "forward"
    /\ v2p' = Put(v2p, arg[th].value, TokenFor(th))
    /\ Goto(th, "reverse")
    /\ UNCHANGED <<p2v, counters, lock, arg, tmp, got>>

(* self._placeholder_to_value[token] = value; return token *)
PutReverse(th) ==
    /\ pc[th] = "reverse"
    /\ p2v' = Put(p2v, TokenFor(th), arg[th].value)
    /\ Return(th, TokenFor(th))
    /\ UNCHANGED <<v2p, counters, lock, arg, tmp>>

(* The masked text is complete; the lock is released. *)
Release(th) ==
    /\ pc[th] = "masking"
    /\ lock' = IF UseLock THEN NoThread ELSE lock
    /\ Goto(th, "masked")
    /\ UNCHANGED <<vars, arg, tmp, got>>

(* The reply has been restored from the map and handed over. *)
Finish(th) ==
    /\ pc[th] = "masked"
    /\ got' = [got EXCEPT ![th] = {}]
    /\ Goto(th, "idle")
    /\ UNCHANGED <<vars, lock, arg, tmp>>

Step(th) ==
    \/ Begin(th) \/ CallEncode(th) \/ Lookup(th) \/ LoadCounter(th)
    \/ StoreCounter(th) \/ TakeIndex(th) \/ PutForward(th) \/ PutReverse(th)
    \/ Release(th) \/ Finish(th)

SharedNext == \E th \in Threads : Step(th)

SharedSpec == SharedInit /\ [][SharedNext]_sharedVars

-----------------------------------------------------------------------------

(* A token a request has obtained decodes to the value that request put in,  *)
(* until its reply is restored: another thread's encode never takes it over. *)
OwnTokenDecodes ==
    \A th \in Threads : \A n \in got[th] :
        n[2] \in DOMAIN p2v /\ p2v[n[2]] = n[1]

(* The separate reads and writes of encode add up to atomic registrations of *)
(* the abstract store: seen from outside, the threads use one SessionMap.    *)
StepsAtomic == Abstract!Spec
=============================================================================

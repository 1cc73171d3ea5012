-------------------------------- MODULE Launcher --------------------------------
(***************************************************************************)
(* The process launcher: env_patch points the environment of this process  *)
(* to the proxy for the length of a with block, ProcessLauncher.run and its *)
(* kin do so for one child.  Every variable is treated alike and apart: one *)
(* is modelled.  The blocks may belong to different threads.                *)
(***************************************************************************)
EXTENDS Sequences, SequencesExt, FiniteSets

CONSTANTS Blocks,       \* with blocks, each entered once
          Overriding    \* those of launchers with allow_override

ASSUME LauncherAssumption == IsFiniteSet(Blocks) /\ Overriding \subseteq Blocks

Unset == "unset"        \* the variable; a client then goes to the provider
Custom == "custom"      \* the user's own value
Proxy == "proxy"

VARIABLES before, env,  \* os.environ at first and now
          open,         \* the blocks that saved it, in that order
          patched,      \* those of them whose body runs
          saved,        \* block -> the value it saved
          done,         \* the blocks that were left
          tangled,      \* whether blocks ever overlapped without nesting
          children      \* [by |-> , base |-> , got |-> , tangled |-> ]

launcherVars == <<before, env, open, patched, saved, done, tangled, children>>

LauncherInit ==
    /\ before \in {Unset, Custom} /\ env = before
    /\ open = <<>> /\ patched = {} /\ saved = [b \in Blocks |-> Unset] /\ done = {}
    /\ tangled = FALSE /\ children = {}

(* build_proxy_env, and the loop of env_patch. *)
Injected(value, override) == IF override \/ value = Unset THEN Proxy ELSE value

(* s but for b, which is in it once, because a block is entered once.        *)
Without(s, b) == RemoveAt(s, CHOOSE i \in DOMAIN s : s[i] = b)

SaveEnv(b) ==
    /\ b \notin done /\ ~ Contains(open, b)
    /\ open' = Append(open, b) /\ saved' = [saved EXCEPT ![b] = env]
    /\ tangled' = (tangled \/ ToSet(open) # patched)
    /\ UNCHANGED <<before, env, patched, done, children>>
PatchEnv(b) ==
    /\ Contains(open, b) /\ b \notin patched
    /\ patched' = patched \cup {b} /\ env' = Injected(env, b \in Overriding)
    /\ UNCHANGED <<before, open, saved, done, tangled, children>>
RestoreEnvToUnset(b) ==
    /\ b \in patched
    /\ env' = Unset
    /\ open' = Without(open, b) /\ patched' = patched \ {b} /\ done' = done \cup {b}
    /\ tangled' = (tangled \/ Last(open) # b)
    /\ UNCHANGED <<before, saved, children>>
RestoreEnv(b) ==
    /\ b \in patched
    /\ env' = saved[b]
    /\ open' = Without(open, b) /\ patched' = patched \ {b} /\ done' = done \cup {b}
    /\ tangled' = (tangled \/ Last(open) # b)
    /\ UNCHANGED <<before, saved, children>>

(* A child started in a block inherits the environment; one started by the   *)
(* launcher gets what is injected into it, or into the env it was given.     *)
StartInBlock(b) ==
    /\ b \in patched
    /\ children' = children \cup {[by |-> "block", base |-> before, got |-> env, tangled |-> tangled]}
    /\ UNCHANGED <<before, env, open, patched, saved, done, tangled>>
Launch(given, override) ==
    /\ children' = children \cup {[by |-> "launcher", base |-> given,
                                   got |-> Injected(given, override), tangled |-> FALSE]}
    /\ UNCHANGED <<before, env, open, patched, saved, done, tangled>>

LauncherNext ==
    \/ \E b \in Blocks : SaveEnv(b) \/ PatchEnv(b) \/ RestoreEnv(b) \/ StartInBlock(b)
    \/ \E given \in {env, Unset, Custom}, override \in BOOLEAN : Launch(given, override)

LauncherSpec == LauncherInit /\ [][LauncherNext]_launcherVars

-----------------------------------------------------------------------------
(* As long as blocks nest, and none is entered while another one is being    *)
(* entered, the last one leaves the environment as it was before the first,  *)
(* and no child that was started in a block or by the launcher goes to the   *)
(* provider directly unless the user had set the variable.                   *)
EnvRestored ==
    /\ open = <<>> /\ ~ tangled => env = before
    /\ \A c \in children : c.got = Unset => c.tangled
    /\ \A c \in children : c.got = Custom => c.base = Custom \/ c.tangled
=============================================================================

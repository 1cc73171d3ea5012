-------------------------------- MODULE MCTools --------------------------------
(* The files and tools beside the proxy, four parts with no state in common:  *)
(* the audit ledger, the firewall, the launcher and the signed updates.  A    *)
(* behaviour chooses one of the parts; the others stay as they are.           *)
EXTENDS Ledger, Lockdown, Launcher, Updates

VARIABLE part

toolsVars == <<part, vars, lockdownVars, launcherVars, updatesVars>>

ToolsInit ==
    /\ part \in {"ledger", "lockdown", "launcher", "updates"}
    /\ LedgerInit /\ LockdownInit /\ LauncherInit /\ UpdatesInit
    /\ part # "launcher" => before = Unset

ToolsNext ==
    /\ UNCHANGED part
    /\ \/ part = "ledger" /\ LedgerNext /\ UNCHANGED <<lockdownVars, launcherVars, updatesVars>>
       \/ part = "lockdown" /\ LockdownNext /\ UNCHANGED <<vars, launcherVars, updatesVars>>
       \/ part = "launcher" /\ LauncherNext /\ UNCHANGED <<vars, lockdownVars, updatesVars>>
       \/ part = "updates" /\ UpdatesNext /\ UNCHANGED <<vars, lockdownVars, launcherVars>>

ToolsSpec == ToolsInit /\ [][ToolsNext]_toolsVars
================================================================================

-------------------------------- MODULE MCProxy --------------------------------
(* The requests through the proxy and the loading of the policy, two parts    *)
(* with no state in common: at this commit nothing wires the loader into the  *)
(* proxy.  A behaviour chooses one of the parts; the other stays as it is.    *)
EXTENDS MCProxyPipeline, MCPolicyControl

VARIABLE part

proxyVars == <<part, pipelineVars, policyVars>>

ProxyInit ==
    /\ part \in {"pipeline", "policy"}
    /\ PipelineInit /\ PolicyInit
    /\ part # "policy" => mtime = 0

ProxyNext ==
    /\ UNCHANGED part
    /\ \/ part = "pipeline" /\ PipelineNext /\ UNCHANGED policyVars
       \/ part = "policy" /\ PolicyNext /\ UNCHANGED pipelineVars

(* The fairness of each part, as its module states it. *)
ProxyFairness ==
    /\ WF_pipelineVars(part = "pipeline" /\ ProxyStep)
    /\ \A t \in Threads : WF_policyVars(part = "policy" /\ Load(t))
    /\ WF_policyVars(part = "policy" /\ Watch) /\ SF_policyVars(part = "policy" /\ Settle)

ProxySpec == ProxyInit /\ [][ProxyNext]_proxyVars /\ ProxyFairness
================================================================================

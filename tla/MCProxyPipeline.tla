---------------------------- MODULE MCProxyPipeline ----------------------------
(* The pipeline on one or two values of each kind: requests of one place, of  *)
(* every provider and place, and requests of two places, one of each          *)
(* treatment, so that one of them fails when the other is done.               *)
EXTENDS ProxyPipeline
AllPlaces == UNION {Places(p) : p \in Providers} \cup {"body"}
OneOrTwo == <<AllPlaces, {"content.text", "content block", "image"}>>
Content == <<{"content.text"}>>
===============================================================================

-------------------------- MODULE MCPolicyControl --------------------------
(* One value pinned under two actions, one other setting; the user saves a *)
(* policy with no pins, one with an approved pin, ones with a pin it does  *)
(* not approve or says nothing of, and files that cannot be loaded.        *)
EXTENDS PolicyControl

Pin(action) == {[hash |-> "h1", action |-> action]}
MCPinLists == {{}, Pin("allow"), Pin("block")}

Policy(settings, pins, approval) ==
  [form |-> "valid", settings |-> settings, pins |-> pins, approval |-> approval]
MCSaved == {Policy("strict", {}, "no"), Policy("builtin", Pin("block"), "yes"),
            Policy("strict", Pin("allow"), "no"), Policy("strict", Pin("allow"), "absent"),
            [Policy("strict", Pin("allow"), "no") EXCEPT !.form = "invalid"],
            [EmptyPolicy EXCEPT !.form = "unreadable"]}
=============================================================================

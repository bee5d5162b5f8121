----------------------------- MODULE ToolPolicy -----------------------------
(***************************************************************************)
(* ToolPolicy of src/policy.rs: which tools of a built-in server exist for *)
(* its client.  A selector is a capability or the id of a tool; a spec is  *)
(* a tool with the capability that covers it.                              *)
(***************************************************************************)

\* The selectors that mean something to a server, and the error for others.
Selectors(specs) == {spec.id : spec \in specs} \cup {spec.capability : spec \in specs}
Parses(values, specs) == values \subseteq Selectors(specs)

\* No allow selector at all leaves the policy open.
FromSelectors(allow, deny) == [open |-> allow = {}, allow |-> allow, deny |-> deny]

Allows(policy, spec) ==
    /\ spec.capability \notin policy.deny
    /\ spec.id \notin policy.deny
    /\ policy.open \/ spec.capability \in policy.allow \/ spec.id \in policy.allow

AllowsCapability(policy, capability) ==
    /\ capability \notin policy.deny
    /\ policy.open \/ capability \in policy.allow

\* Prompts and resources show what a tool shows.
AllowsAuxiliarySurface(policy, capability, tool) ==
    /\ AllowsCapability(policy, capability)
    /\ tool.id \notin policy.deny
=============================================================================

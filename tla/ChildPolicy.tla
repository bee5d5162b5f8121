----------------------------- MODULE ChildPolicy -----------------------------
(***************************************************************************)
(* Which tools of which child servers an agent may use: ChildToolPolicy of *)
(* src/agents/definition.rs.  A selector is a server and one of its tools, *)
(* or all of them; the text it is parsed from is left out.                 *)
(***************************************************************************)
CONSTANTS Servers, Tools, AllTools

Selector == Servers \X (Tools \cup {AllTools})
Policy == [allow : SUBSET Selector, deny : SUBSET Selector]

AllowFirst(p, s, t) ==     \* mutant: an exact grant overrides a denial
    \/ <<s, t>> \in p.allow
    \/ <<s, AllTools>> \in p.allow /\ {<<s, t>>, <<s, AllTools>>} \cap p.deny = {}
\* A denial, of the tool or of its server, wins over every grant.
Allows(p, s, t) ==
    /\ {<<s, t>>, <<s, AllTools>>} \cap p.deny = {}
    /\ {<<s, t>>, <<s, AllTools>>} \cap p.allow # {}

\* Some grant names the server, whatever is denied.
MayAllowServer(p, s) == \E selector \in p.allow : selector[1] = s

\* What the constructor accepts: no denial without a grant for its server.
ValidPolicy(p) == \A selector \in p.deny : MayAllowServer(p, selector[1])

\* validate_catalog: every selector of the server names a tool it has.
FitsCatalog(p, s, tools) ==
    \A selector \in p.allow \cup p.deny :
        selector[1] = s => selector[2] = AllTools \/ selector[2] \in tools
=============================================================================

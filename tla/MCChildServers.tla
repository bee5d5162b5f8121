--------------------------- MODULE MCChildServers ---------------------------
(* ChildServers with three servers of two tools, whose safe names collide. *)
EXTENDS ChildServers

MCTools == {1, 2}
MCPolicies ==
    {p \in [allow : SUBSET {<<1, 0>>, <<2, 1>>, <<3, 0>>},
            deny : SUBSET {<<1, 2>>, <<2, 1>>, <<3, 0>>}] : ValidPolicy(p)}
MCListings == {<<>>, <<1>>, <<1, 2>>, <<2, 2>>, <<1, 2, 1, 2>>}
\* The first server's second tool is called like a suffixed first one.
MCBaseName == [s \in 1..3 |-> [t \in MCTools |-> IF s = 1 /\ t = 2 THEN <<1, 2>> ELSE <<1>>]]
=============================================================================

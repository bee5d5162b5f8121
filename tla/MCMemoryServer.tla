--------------------------- MODULE MCMemoryServer ---------------------------
(* MemoryServer on two names, one text and calls from a small menu. *)
EXTENDS MemoryServer

CONSTANTS a, b, t, r1, r2, s1

MCNames == {a, b}
MCTexts == {t}
MCServers == {s1}
MCRequests == {r1, r2}
MCHome == [r \in Requests |-> s1]

Ask(tool, names, observations, relations) ==
    [tool |-> tool, names |-> names, observations |-> observations, relations |-> relations]
MCMenu == {
    Ask("create_entities", {a}, {<<a, t>>}, {}),
    Ask("create_relations", {}, {}, {<<a, b>>}),
    Ask("add_observations", {a}, {<<a, t>>}, {}),
    Ask("add_observations", {a}, {}, {}),
    Ask("delete_entities", {a}, {}, {}),
    Ask("delete_observations", {}, {<<a, t>>}, {}),
    Ask("delete_relations", {}, {}, {<<a, b>>}),
    Ask("search_nodes", {}, {<<a, t>>}, {}),
    Ask("open_nodes", {a}, {}, {}),
    Ask("read_graph", {}, {}, {})}
=============================================================================

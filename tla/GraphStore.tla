----------------------------- MODULE GraphStore -----------------------------
(***************************************************************************)
(* What the memory server promises, whatever its gate, its temporary files *)
(* and its renames do: each request takes effect on the whole graph at one *)
(* instant or not at all; a request that is answered with success took     *)
(* effect, and what it changed survives a crash.  MemoryServer implements  *)
(* it when it is the only server of its file.                              *)
(***************************************************************************)
EXTENDS GraphOps

CONSTANT Requests

VARIABLES
    graph,      \* the graph every request sees
    saved,      \* the graph that a crash cannot undo
    request,    \* what each request asks
    effect,     \* "none", "taken" or "saved"
    told,       \* what it learned when it took effect
    reply       \* "none", "ok", "error", or "lost" in a crash

storeVars == <<graph, saved, request, effect, told, reply>>

Nothing == [changed |-> FALSE, graph |-> EmptyGraph]

StoreInit ==
    /\ graph = EmptyGraph
    /\ saved = EmptyGraph
    /\ request \in [Requests -> Request]
    /\ effect = [r \in Requests |-> "none"]
    /\ told = [r \in Requests |-> Nothing]
    /\ reply = [r \in Requests |-> "none"]

Open(r) == reply[r] = "none" /\ effect[r] = "none"

\* A change is seen at once and may still be undone by a crash; a request that
\* changes nothing has nothing to lose.
Take(r) ==
    /\ Open(r)
    /\ Applicable(graph, request[r])
    /\ graph' = Mutated(graph, request[r])
    /\ told' = [told EXCEPT ![r] = Told(graph, request[r])]
    /\ effect' = [effect EXCEPT ![r] = IF graph' = graph THEN "saved" ELSE "taken"]
    /\ UNCHANGED <<saved, request, reply>>

Save ==
    /\ saved' = graph
    /\ effect' = [r \in Requests |-> IF effect[r] = "taken" THEN "saved" ELSE effect[r]]
    /\ UNCHANGED <<graph, request, told, reply>>

Succeed(r) ==
    /\ reply[r] = "none"
    /\ effect[r] = "saved"
    /\ reply' = [reply EXCEPT ![r] = "ok"]
    /\ UNCHANGED <<graph, saved, request, effect, told>>

\* An error promises nothing about the effect.
Fail(r) ==
    /\ reply[r] = "none"
    /\ reply' = [reply EXCEPT ![r] = "error"]
    /\ UNCHANGED <<graph, saved, request, effect, told>>

\* Requests in progress are lost, and with them any change that was not saved.
StoreCrash ==
    /\ graph' \in {graph, saved}
    /\ saved' = graph'
    /\ \E gone \in SUBSET {r \in Requests : reply[r] = "none"} :
          /\ \A r \in Requests : reply[r] = "none" /\ effect[r] = "taken" => r \in gone
          /\ reply' = [r \in Requests |-> IF r \in gone THEN "lost" ELSE reply[r]]
    /\ UNCHANGED <<request, told>>
    /\ effect' = [r \in Requests |-> IF effect[r] = "taken" THEN "saved" ELSE effect[r]]

\* A server that is killed loses its requests; what they changed stays to be saved.
StoreKill ==
    /\ \E gone \in SUBSET {r \in Requests : reply[r] = "none"} :
          reply' = [r \in Requests |-> IF r \in gone THEN "lost" ELSE reply[r]]
    /\ UNCHANGED <<graph, saved, request, effect, told>>

StoreNext ==
    \/ \E r \in Requests : Take(r) \/ Succeed(r) \/ Fail(r)
    \/ Save \/ StoreCrash \/ StoreKill
StoreSpec == StoreInit /\ [][StoreNext]_storeVars
=============================================================================

------------------------------ MODULE GraphOps ------------------------------
(***************************************************************************)
(* The knowledge graph and what each memory tool does to it or reads from  *)
(* it: src/memory/graph.rs.  A graph is its sets of entity names, of       *)
(* observations of an entity and of relations; the order of the lines in   *)
(* the file, entity types and relation types are left out.  A request is a *)
(* batch, also a set: a repeated item counts once, as in the code.         *)
(***************************************************************************)
EXTENDS FiniteSets, Integers

CONSTANTS Names, Texts, MaxSize

ASSUME SizeAssumption == MaxSize \in Nat

Graph == [entities : SUBSET Names, observations : SUBSET (Names \X Texts),
          relations : SUBSET (Names \X Names)]
EmptyGraph == [entities |-> {}, observations |-> {}, relations |-> {}]

Mutations == {"create_entities", "create_relations", "add_observations",
              "delete_entities", "delete_observations", "delete_relations"}
Queries == {"read_graph", "search_nodes", "open_nodes"}

\* A request: its tool and the items it names.
Request == [tool : Mutations \cup Queries, names : SUBSET Names,
            observations : SUBSET (Names \X Texts), relations : SUBSET (Names \X Names)]

-----------------------------------------------------------------------------
(* Mutations *)

Subjects(observations) == {o[1] : o \in observations}

\* Names that exist already are skipped, with their initial observations.
CreateEntities(g, req) ==
    LET new == req.names \ g.entities
    IN  [g EXCEPT !.entities = @ \cup new,
                  !.observations = @ \cup {o \in req.observations : o[1] \in new}]

\* Relations may name entities that do not exist.
CreateRelations(g, req) == [g EXCEPT !.relations = @ \cup req.relations]

AddObservations(g, req) == [g EXCEPT !.observations = @ \cup req.observations]

DeleteEntities(g, req) ==
    [entities |-> g.entities \ req.names,
     observations |-> {o \in g.observations : o[1] \notin req.names},
     relations |-> {r \in g.relations : r[1] \notin req.names /\ r[2] \notin req.names}]

DeleteObservations(g, req) == [g EXCEPT !.observations = @ \ req.observations]

DeleteRelations(g, req) == [g EXCEPT !.relations = @ \ req.relations]

Mutated(g, req) ==
    CASE req.tool = "create_entities"     -> CreateEntities(g, req)
      [] req.tool = "create_relations"    -> CreateRelations(g, req)
      [] req.tool = "add_observations"    -> AddObservations(g, req)
      [] req.tool = "delete_entities"     -> DeleteEntities(g, req)
      [] req.tool = "delete_observations" -> DeleteObservations(g, req)
      [] req.tool = "delete_relations"    -> DeleteRelations(g, req)
      [] OTHER                            -> g

-----------------------------------------------------------------------------
(* What is refused *)

\* One missing entity fails the whole batch of add_observations, also one that is named
\* without any text to add.
Applicable(g, req) ==
    req.tool = "add_observations" =>
        req.names \cup Subjects(req.observations) \subseteq g.entities

\* The limits of validate_graph and save on counts and bytes, as one size.
Size(g) == Cardinality(g.entities) + Cardinality(g.observations) + Cardinality(g.relations)
WithinLimits(g) == Size(g) <= MaxSize

\* What validate_graph accepts: an observation belongs to an entity's record.
ValidGraph(g) ==
    /\ g \in Graph
    /\ Subjects(g.observations) \subseteq g.entities
    /\ WithinLimits(g)

-----------------------------------------------------------------------------
(* Queries *)

\* Relations with one endpoint among the chosen entities come along.
Around(g, chosen) ==
    [entities |-> chosen,
     observations |-> {o \in g.observations : o[1] \in chosen},
     relations |-> {r \in g.relations : r[1] \in chosen \/ r[2] \in chosen}]

\* search_nodes matches a name, or a text among the entity's observations.
Matching(g, req) ==
    {n \in g.entities : n \in req.names \/ \E o \in req.observations : <<n, o[2]>> \in g.observations}

Queried(g, req) ==
    CASE req.tool = "search_nodes" -> Around(g, Matching(g, req))
      [] req.tool = "open_nodes"   -> Around(g, g.entities \cap req.names)
      [] OTHER                     -> g

\* What the caller is told: whether anything changed, or the graph read.
Told(g, req) ==
    IF req.tool \in Queries THEN [changed |-> FALSE, graph |-> Queried(g, req)]
    ELSE [changed |-> Mutated(g, req) # g, graph |-> EmptyGraph]
=============================================================================

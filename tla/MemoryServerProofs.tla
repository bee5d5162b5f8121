------------------------- MODULE MemoryServerProofs -------------------------
(***************************************************************************)
(* The safety of MemoryServer.  That the file always loads holds for any   *)
(* number of servers of one file; that a listening client misses nothing,  *)
(* and that the server implements GraphStore, where there is only one.     *)
(***************************************************************************)
EXTENDS MemoryServer, FiniteSetTheorems, TLAPS

USE MemoryAssumption

-----------------------------------------------------------------------------
(* What the tools make of a graph *)

LEMMA EmptyIsValid == EmptyGraph \in Graph /\ ValidGraph(EmptyGraph)
<1>1. EmptyGraph \in Graph
  BY DEF EmptyGraph, Graph
<1>2. Size(EmptyGraph) = 0
  <2>1. Cardinality({}) = 0
    BY FS_EmptySet
  <2> QED
    BY <2>1 DEF Size, EmptyGraph
<1>3. WithinLimits(EmptyGraph)
  BY <1>2, SizeAssumption DEF WithinLimits
<1>4. Subjects(EmptyGraph.observations) \subseteq EmptyGraph.entities
  BY DEF Subjects, EmptyGraph
<1> QED
  BY <1>1, <1>3, <1>4 DEF ValidGraph

\* A tool that changes the graph makes a graph of it, and keeps every observation
\* with an entity.
LEMMA MutatedIsGraph ==
    ASSUME NEW g \in Graph, NEW req \in Request
    PROVE  /\ Mutated(g, req) \in Graph
           /\ Applicable(g, req) /\ Subjects(g.observations) \subseteq g.entities =>
                Subjects(Mutated(g, req).observations) \subseteq Mutated(g, req).entities
<1>1. CASE req.tool = "create_entities"
  BY <1>1 DEF Mutated, CreateEntities, Graph, Request, Subjects
<1>2. CASE req.tool = "create_relations"
  BY <1>2 DEF Mutated, CreateRelations, Graph, Request, Subjects
<1>3. CASE req.tool = "add_observations"
  BY <1>3 DEF Mutated, AddObservations, Applicable, Graph, Request, Subjects
<1>4. CASE req.tool = "delete_entities"
  BY <1>4 DEF Mutated, DeleteEntities, Graph, Request, Subjects
<1>5. CASE req.tool = "delete_observations"
  BY <1>5 DEF Mutated, DeleteObservations, Graph, Request, Subjects
<1>6. CASE req.tool = "delete_relations"
  BY <1>6 DEF Mutated, DeleteRelations, Graph, Request, Subjects
<1>7. CASE req.tool \notin Mutations
  BY <1>7 DEF Mutated, Mutations
<1> QED
  BY <1>1, <1>2, <1>3, <1>4, <1>5, <1>6, <1>7 DEF Mutations

LEMMA ToldIsAnswer ==
    ASSUME NEW g \in Graph, NEW req \in Request
    PROVE  /\ Told(g, req) \in Answer
           /\ Mutated(g, req) # g => Told(g, req).changed
<1>1. CASE req.tool \in Queries
  <2>1. Queried(g, req) \in Graph
    BY DEF Queried, Around, Matching, Graph, Request
  <2>2. Mutated(g, req) = g
    BY <1>1 DEF Mutated, Queries
  <2> QED
    BY <1>1, <2>1, <2>2 DEF Told, Answer
<1>2. CASE req.tool \notin Queries
  BY <1>2, EmptyIsValid DEF Told, Answer
<1> QED
  BY <1>1, <1>2

-----------------------------------------------------------------------------
(* The file, whoever writes it *)

Writing == {"create", "write", "flush", "rename"}

\* What is about to replace the file is whole, and flushed by then.
WholeWrites ==
    \A r \in Requests : /\ pc[r] \in Writing => ValidGraph(next[r]) /\ answer[r].changed
                        /\ At(r, "rename") => temp[r] = "flushed"

FileInv == TypeOK /\ WholeWrites /\ ~rough /\ FileAlwaysLoads

LEMMA FileInvInit == Init => FileInv
<1> SUFFICES ASSUME Init PROVE FileInv
  OBVIOUS
<1>1. TypeOK
  <2>1. request \in [Requests -> Request] /\ crashes \in 0..MaxCrashes
    BY DEF Init
  <2>2. Silence \in Answer
    BY EmptyIsValid DEF Silence, Answer
  <2>3. /\ pc \in [Requests -> PC] /\ reply \in [Requests -> Replies]
        /\ next \in [Requests -> Graph] /\ answer \in [Requests -> Answer]
        /\ temp \in [Requests -> {"none", "partial", "whole", "flushed"}]
    BY <2>2, EmptyIsValid DEF Init, PC, Replies
  <2>4. /\ backlog \in [Servers -> 0..Backlog] /\ seen \in [Servers -> Graph]
        /\ listening \in [Servers -> BOOLEAN] /\ notified \in [Servers -> BOOLEAN]
    BY EmptyIsValid DEF Init
  <2>5. /\ file \in Graph /\ durable \in Graph /\ torn \in BOOLEAN /\ rough \in BOOLEAN
        /\ applied \in SUBSET Requests /\ unsynced \in SUBSET Requests
    BY EmptyIsValid DEF Init
  <2> QED
    BY <2>1, <2>3, <2>4, <2>5 DEF TypeOK
<1>2. WholeWrites
  BY DEF Init, WholeWrites, Writing, At
<1>3. ~rough /\ FileAlwaysLoads
  BY EmptyIsValid DEF Init, FileAlwaysLoads
<1> QED
  BY <1>1, <1>2, <1>3 DEF FileInv

LEMMA ArriveTypes ==
    ASSUME TypeOK, NEW r \in Requests, Arrive(r) \/ TakeGate(r) \/ LoadFails(r)
    PROVE  TypeOK'
BY DEF TypeOK, Arrive, TakeGate, LoadFails, Goto, Reply, PC, GatedPC, Replies,
       diskVars, clientVars

LEMMA LoadTypes ==
    ASSUME TypeOK, NEW r \in Requests, Load(r)
    PROVE  TypeOK'
<1>1. /\ request[r] \in Request
      /\ Mutated(file, request[r]) \in Graph
      /\ Told(file, request[r]) \in Answer
  BY MutatedIsGraph, ToldIsAnswer DEF TypeOK
<1>2. /\ pc' \in [Requests -> PC]
      /\ next' \in [Requests -> Graph]
      /\ answer' \in [Requests -> Answer]
      /\ reply' \in [Requests -> Replies]
      /\ applied' \in SUBSET Requests
  BY <1>1 DEF TypeOK, Load, Goto, Reply, PC, GatedPC, Replies
<1>3. UNCHANGED <<request, diskVars, temp, clientVars, crashes>>
  BY DEF Load
<1> QED
  BY <1>2, <1>3 DEF TypeOK, diskVars, clientVars

LEMMA WriteTypes ==
    ASSUME TypeOK, NEW r \in Requests, AtomicWrite(r) \/ Notify(r) \/ Respond(r)
    PROVE  TypeOK'
<1>1. CASE CreateFails(r) \/ CreateTemp(r) \/ WriteTemp(r) \/ FlushTemp(r) \/ WriteFails(r)
  BY <1>1 DEF TypeOK, CreateFails, CreateTemp, WriteTemp, FlushTemp, WriteFails, Goto, Reply,
              PC, GatedPC, Replies, diskVars, clientVars
<1>2. CASE Rename(r)
  BY <1>2 DEF TypeOK, Rename, Goto, PC, GatedPC, clientVars
<1>3. CASE SyncDirectory(r)
  BY <1>3 DEF TypeOK, SyncDirectory, Goto, PC, clientVars
<1>4. CASE Cleanup(r)
  <2>1. temp' \in [Requests -> {"none", "partial", "whole", "flushed"}]
    BY <1>4 DEF TypeOK, Cleanup
  <2>2. pc' \in [Requests -> PC] /\ reply' \in [Requests -> Replies]
    BY <1>4 DEF TypeOK, Cleanup, Reply, Goto, PC, Replies
  <2> QED
    BY <1>4, <2>1, <2>2 DEF TypeOK, Cleanup, diskVars, clientVars
<1>5. CASE Notify(r) \/ Respond(r)
  BY <1>5 DEF TypeOK, Notify, Respond, Goto, Reply, PC, GatedPC, Replies, diskVars, clientVars
<1> QED
  BY <1>1, <1>2, <1>3, <1>4, <1>5 DEF AtomicWrite

LEMMA ServerTypes ==
    ASSUME TypeOK, NEW s \in Servers, Listen(s) \/ Client(s) \/ Kill(s)
    PROVE  TypeOK'
<1>1. CASE Forward(s)
  BY <1>1 DEF TypeOK, Forward, callVars, diskVars
<1>6. CASE ForwardFails(s)
  <2>1. backlog' \in [Servers -> 0..Backlog]
    BY <1>6 DEF TypeOK, ForwardFails
  <2> QED
    BY <1>6, <2>1 DEF TypeOK, ForwardFails, callVars, diskVars
<1>2. CASE ReadResource(s)
  <2>1. file \in Graph /\ seen \in [Servers -> Graph] /\ notified \in [Servers -> BOOLEAN]
    BY DEF TypeOK
  <2>2. CASE /\ seen' = [seen EXCEPT ![s] = file]
             /\ notified' = [notified EXCEPT ![s] = FALSE]
    BY <1>2, <2>1, <2>2 DEF TypeOK, ReadResource, callVars, diskVars
  <2>3. CASE UNCHANGED <<seen, notified>>
    BY <1>2, <2>3 DEF TypeOK, ReadResource, callVars, diskVars
  <2> QED
    BY <1>2, <2>2, <2>3 DEF ReadResource
<1>3. CASE Subscribe(s)
  BY <1>3 DEF TypeOK, Subscribe, callVars, diskVars
<1>5. CASE Unsubscribe(s)
  <2>1. backlog' \in [Servers -> 0..Backlog]
    BY <1>5 DEF TypeOK, Unsubscribe
  <2> QED
    BY <1>5, <2>1 DEF TypeOK, Unsubscribe, callVars, diskVars
<1>4. CASE Kill(s)
  BY <1>4 DEF TypeOK, Kill, Lose, PC, Replies, diskVars
<1> QED
  BY <1>1, <1>2, <1>3, <1>4, <1>5, <1>6 DEF Listen, Client

LEMMA PowerLossTypes ==
    ASSUME TypeOK, PowerLoss
    PROVE  TypeOK'
<1>1. pc' \in [Requests -> PC] /\ reply' \in [Requests -> Replies]
  BY DEF TypeOK, PowerLoss, Lose, PC, Replies
<1>2. file' \in Graph /\ durable' \in Graph /\ torn' \in BOOLEAN /\ rough' \in BOOLEAN
  BY DEF TypeOK, PowerLoss
<1>3. /\ listening' \in [Servers -> BOOLEAN] /\ backlog' \in [Servers -> 0..Backlog]
      /\ notified' \in [Servers -> BOOLEAN] /\ unsynced' \in SUBSET Requests
  BY DEF PowerLoss
<1>4. crashes' \in 0..MaxCrashes
  BY DEF TypeOK, PowerLoss
<1> QED
  BY <1>1, <1>2, <1>3, <1>4 DEF TypeOK, PowerLoss

LEMMA FileInvStep == FileInv /\ [Next]_vars => FileInv'
<1> SUFFICES ASSUME FileInv, [Next]_vars PROVE FileInv'
  OBVIOUS
<1> USE DEF FileInv
<1>1. ASSUME NEW r \in Requests, Arrive(r) \/ TakeGate(r) \/ LoadFails(r)
      PROVE  FileInv'
  <2>1. TypeOK'
    BY <1>1, ArriveTypes
  <2>2. (WholeWrites /\ ~rough /\ FileAlwaysLoads)'
    BY <1>1 DEF WholeWrites, Writing, TypeOK, FileAlwaysLoads, Arrive, TakeGate, LoadFails,
                At, Goto, Reply, diskVars
  <2> QED
    BY <2>1, <2>2
<1>2. ASSUME NEW r \in Requests, Load(r)
      PROVE  FileInv'
  <2> DEFINE g == Mutated(file, request[r])
  <2>1. TypeOK'
    BY <1>2, LoadTypes
  <2>2. /\ request[r] \in Request
        /\ file \in Graph
        /\ Subjects(file.observations) \subseteq file.entities
    BY DEF TypeOK, FileAlwaysLoads, ValidGraph
  <2>3. Applicable(file, request[r]) /\ g # file /\ Savable(g) =>
          ValidGraph(g) /\ Told(file, request[r]).changed
    BY <2>2, MutatedIsGraph, ToldIsAnswer DEF ValidGraph, Savable
  <2>4. pc'[r] = "create" =>
          /\ Applicable(file, request[r]) /\ g # file /\ Savable(g)
          /\ next'[r] = g /\ answer'[r] = Told(file, request[r])
    BY <1>2 DEF Load, Goto, Reply, TypeOK
  <2>5. pc'[r] \in {"create", "respond", "done"}
    BY <1>2 DEF Load, Goto, Reply, TypeOK
  <2>6. \A q \in Requests \ {r} :
          pc'[q] = pc[q] /\ next'[q] = next[q] /\ answer'[q] = answer[q]
    BY <1>2 DEF Load, Goto, Reply, TypeOK
  <2>7. UNCHANGED <<diskVars, temp>>
    BY <1>2 DEF Load
  <2>8. WholeWrites'
    BY <2>3, <2>4, <2>5, <2>6, <2>7 DEF WholeWrites, Writing, At
  <2>9. ~rough' /\ FileAlwaysLoads'
    BY <2>7 DEF FileAlwaysLoads, diskVars
  <2> QED
    BY <2>1, <2>8, <2>9
<1>3. ASSUME NEW r \in Requests, AtomicWrite(r) \/ Notify(r) \/ Respond(r)
      PROVE  FileInv'
  <2>1. TypeOK'
    BY <1>3, WriteTypes
  <2>2. CASE Rename(r)
    <3>1. temp[r] = "flushed" /\ ValidGraph(next[r])
      BY <2>2 DEF WholeWrites, Writing, Rename, At
    <3>2. /\ file' = next[r] /\ ~torn' /\ ~rough' /\ UNCHANGED durable
          /\ UNCHANGED <<next, answer>> /\ pc' = [pc EXCEPT ![r] = "sync"]
          /\ \A q \in Requests \ {r} : temp'[q] = temp[q]
      BY <2>2, <3>1 DEF Rename, Goto, TypeOK
    <3>3. WholeWrites'
      BY <3>2 DEF WholeWrites, Writing, At, TypeOK
    <3> QED
      BY <2>1, <3>1, <3>2, <3>3 DEF FileAlwaysLoads
  <2>3. CASE SyncDirectory(r)
    BY <2>1, <2>3 DEF SyncDirectory, Goto, WholeWrites, Writing, At, TypeOK, FileAlwaysLoads
  <2>4. CASE CreateFails(r) \/ CreateTemp(r) \/ WriteTemp(r) \/ FlushTemp(r) \/ WriteFails(r)
             \/ Cleanup(r) \/ Notify(r) \/ Respond(r)
    <3>1. UNCHANGED <<next, answer, diskVars>>
      BY <2>4 DEF CreateFails, CreateTemp, WriteTemp, FlushTemp, WriteFails, Cleanup, Notify,
                  Respond
    <3>2. WholeWrites'
      BY <2>4, <3>1 DEF CreateFails, CreateTemp, WriteTemp, FlushTemp, WriteFails, Cleanup,
                        Notify, Respond, Goto, Reply, WholeWrites, Writing, At, TypeOK
    <3> QED
      BY <2>1, <3>1, <3>2 DEF FileAlwaysLoads, diskVars
  <2> QED
    BY <1>3, <2>2, <2>3, <2>4 DEF AtomicWrite
<1>4. ASSUME NEW s \in Servers, Listen(s) \/ Client(s) \/ Kill(s)
      PROVE  FileInv'
  <2>1. TypeOK'
    BY <1>4, ServerTypes
  <2>2. UNCHANGED <<next, answer, diskVars, temp>>
        /\ \A r \in Requests : pc'[r] \in {pc[r], "done"}
    BY <1>4 DEF Listen, Client, Kill, Forward, ForwardFails, ReadResource, Subscribe, Unsubscribe, Lose,
                callVars
  <2>3. WholeWrites'
    BY <2>2 DEF WholeWrites, Writing, At
  <2> QED
    BY <2>1, <2>2, <2>3 DEF FileAlwaysLoads, diskVars
<1>5. ASSUME PowerLoss
      PROVE  FileInv'
  <2>1. TypeOK'
    BY <1>5, PowerLossTypes
  <2>2. WholeWrites'
    BY <1>5 DEF WholeWrites, Writing, At, PowerLoss, Lose
  <2> QED
    BY <1>5, <2>1, <2>2 DEF PowerLoss, FileAlwaysLoads
<1>6. CASE UNCHANGED vars
  BY <1>6 DEF TypeOK, WholeWrites, Writing, At, FileAlwaysLoads, vars, callVars, diskVars,
              clientVars
<1> QED
  BY <1>1, <1>2, <1>3, <1>4, <1>5, <1>6 DEF Next, Serve, AllDone

\* Every variable keeps its type.
THEOREM TypesHold == Spec => []TypeOK
<1>1. FileInv => TypeOK
  BY DEF FileInv
<1> QED
  BY <1>1, FileInvInit, FileInvStep, PTL DEF Spec

\* Whatever is interrupted, and however many servers there are: the file of
\* src/memory/graph.rs always holds a graph that loads, after a power loss too.
THEOREM AlwaysLoads == Spec => []FileAlwaysLoads
<1>1. FileInv => FileAlwaysLoads
  BY DEF FileInv
<1> QED
  BY <1>1, FileInvInit, FileInvStep, PTL DEF Spec

-----------------------------------------------------------------------------
(* The gate *)

\* The gate of a server is held by one call at a time.
GateIsHeldOnce ==
    \A r, q \in Requests :
        pc[r] \in GatedPC /\ pc[q] \in GatedPC /\ Home[r] = Home[q] => r = q

LEMMA GateInit == Init => GateIsHeldOnce
BY DEF Init, GateIsHeldOnce, GatedPC

LEMMA GateStep ==
    ASSUME TypeOK, GateIsHeldOnce, [Next]_vars
    PROVE  GateIsHeldOnce'
<1>1. ASSUME NEW r \in Requests, TakeGate(r)
      PROVE  GateIsHeldOnce'
  BY <1>1 DEF TakeGate, GateFree, At, Goto, TypeOK, GateIsHeldOnce, GatedPC
<1>2. ASSUME \A q \in Requests : pc'[q] \in GatedPC => pc[q] \in GatedPC
      PROVE  GateIsHeldOnce'
  BY <1>2 DEF GateIsHeldOnce
<1>3. ASSUME NEW r \in Requests, Arrive(r) \/ LoadFails(r) \/ Load(r) \/ Notify(r) \/ Respond(r)
      PROVE  GateIsHeldOnce'
  BY <1>2, <1>3 DEF Arrive, LoadFails, Load, Notify, Respond, At, Goto, Reply, TypeOK, GatedPC
<1>4. ASSUME NEW r \in Requests, AtomicWrite(r)
      PROVE  GateIsHeldOnce'
  BY <1>2, <1>4 DEF AtomicWrite, CreateFails, CreateTemp, WriteTemp, FlushTemp, Rename,
                    SyncDirectory, WriteFails, Cleanup, At, Goto, Reply, TypeOK, GatedPC
<1>5. ASSUME NEW s \in Servers, Listen(s) \/ Client(s) \/ Kill(s)
      PROVE  GateIsHeldOnce'
  BY <1>2, <1>5 DEF Listen, Client, Kill, Forward, ForwardFails, ReadResource, Subscribe,
                    Unsubscribe, Lose, callVars, GatedPC
<1>6. CASE PowerLoss
  BY <1>2, <1>6 DEF PowerLoss, Lose, GatedPC
<1>7. CASE UNCHANGED vars
  BY <1>2, <1>7 DEF vars, callVars
<1> QED
  BY <1>1, <1>3, <1>4, <1>5, <1>6, <1>7 DEF Next, Serve, AllDone

-----------------------------------------------------------------------------
(* The only server of its file *)

OneServer == \A s, t \in Servers : s = t

\* What has happened to a call that is at a label.
Progress ==
    \A r \in Requests :
        /\ (reply[r] = "none") = (pc[r] # "done")
        /\ pc[r] \in {"new", "gate", "load"} \cup Writing => r \notin applied
        /\ pc[r] \in {"sync", "notify", "respond"} => r \in applied
        /\ pc[r] \in {"notify", "respond"} => r \notin unsynced
        /\ pc[r] \in {"sync", "notify", "cleanup"} => answer[r].changed

\* What a call is about to write follows from what the file still holds.
WritesFollow ==
    \A r \in Requests :
        pc[r] \in Writing =>
            /\ next[r] = Mutated(file, request[r])
            /\ next[r] # file
            /\ Applicable(file, request[r])
            /\ answer[r] = Told(file, request[r])

ServerInv ==
    /\ FileInv /\ GateIsHeldOnce /\ Progress /\ WritesFollow
    /\ unsynced \subseteq applied /\ NoMissedChange

LEMMA ServerInvInit == Init => ServerInv
<1> SUFFICES ASSUME Init PROVE ServerInv
  OBVIOUS
<1>1. Progress /\ WritesFollow /\ unsynced \subseteq applied
  BY DEF Init, Progress, WritesFollow, Writing
<1>2. NoMissedChange
  BY DEF Init, NoMissedChange, Stale
<1> QED
  BY <1>1, <1>2, FileInvInit, GateInit DEF ServerInv

\* With one server no two calls are under the gate.
LEMMA Alone ==
    ASSUME OneServer, GateIsHeldOnce, NEW r \in Requests, NEW q \in Requests,
           pc[r] \in GatedPC, pc[q] \in GatedPC
    PROVE  r = q
BY DEF OneServer, GateIsHeldOnce

LEMMA ProgressStep ==
    ASSUME TypeOK, WholeWrites, Progress, unsynced \subseteq applied, [Next]_vars
    PROVE  Progress' /\ (unsynced \subseteq applied)'
<1> USE DEF Progress, Writing
<1>1. ASSUME NEW r \in Requests, Arrive(r) \/ TakeGate(r) \/ LoadFails(r)
      PROVE  Progress' /\ (unsynced \subseteq applied)'
  BY <1>1 DEF Arrive, TakeGate, LoadFails, At, Goto, Reply, TypeOK, diskVars
<1>2. ASSUME NEW r \in Requests, Load(r)
      PROVE  Progress' /\ (unsynced \subseteq applied)'
  <2>1. /\ r \notin applied /\ r \notin unsynced /\ reply[r] = "none"
        /\ UNCHANGED unsynced
    BY <1>2 DEF Load, At, diskVars
  <2>2. /\ \/ pc'[r] = "done" /\ reply'[r] = "error" /\ UNCHANGED applied
           \/ pc'[r] = "respond" /\ UNCHANGED reply /\ applied' = applied \cup {r}
           \/ pc'[r] = "create" /\ UNCHANGED <<reply, applied>>
        /\ \A q \in Requests \ {r} :
             pc'[q] = pc[q] /\ reply'[q] = reply[q] /\ answer'[q] = answer[q]
    BY <1>2 DEF Load, Goto, Reply, TypeOK
  <2> QED
    BY <2>1, <2>2
<1>3. ASSUME NEW r \in Requests, CreateFails(r) \/ CreateTemp(r) \/ WriteTemp(r) \/ FlushTemp(r)
      PROVE  Progress' /\ (unsynced \subseteq applied)'
  BY <1>3 DEF CreateFails, CreateTemp, WriteTemp, FlushTemp, At, Goto, Reply, TypeOK, diskVars
<1>4. ASSUME NEW r \in Requests, Rename(r)
      PROVE  Progress' /\ (unsynced \subseteq applied)'
  BY <1>4 DEF Rename, WholeWrites, At, Goto, TypeOK
<1>5. ASSUME NEW r \in Requests, SyncDirectory(r)
      PROVE  Progress' /\ (unsynced \subseteq applied)'
  BY <1>5 DEF SyncDirectory, At, Goto, TypeOK
<1>6. ASSUME NEW r \in Requests, WriteFails(r) \/ Cleanup(r)
      PROVE  Progress' /\ (unsynced \subseteq applied)'
  BY <1>6 DEF WriteFails, Cleanup, WholeWrites, At, Goto, Reply, TypeOK, diskVars
<1>7. ASSUME NEW r \in Requests, Notify(r) \/ Respond(r)
      PROVE  Progress' /\ (unsynced \subseteq applied)'
  BY <1>7 DEF Notify, Respond, At, Goto, Reply, TypeOK, diskVars
<1>8. ASSUME NEW s \in Servers, Listen(s) \/ Client(s)
      PROVE  Progress' /\ (unsynced \subseteq applied)'
  BY <1>8 DEF Listen, Client, Forward, ForwardFails, ReadResource, Subscribe, Unsubscribe, callVars, diskVars
<1>9. ASSUME NEW s \in Servers, Kill(s)
      PROVE  Progress' /\ (unsynced \subseteq applied)'
  BY <1>9 DEF Kill, Lose, InProgress, diskVars
<1>10. CASE PowerLoss
  BY <1>10 DEF PowerLoss, Lose, InProgress
<1>11. CASE UNCHANGED vars
  BY <1>11 DEF vars, callVars, diskVars
<1> QED
  BY <1>1, <1>2, <1>3, <1>4, <1>5, <1>6, <1>7, <1>8, <1>9, <1>10, <1>11
     DEF Next, Serve, AtomicWrite, AllDone

LEMMA FollowStep ==
    ASSUME OneServer, TypeOK, GateIsHeldOnce, WritesFollow, [Next]_vars
    PROVE  WritesFollow'
<1> USE DEF WritesFollow, Writing
<1>1. ASSUME NEW r \in Requests, Rename(r)
      PROVE  WritesFollow'
  <2>1. \A q \in Requests : pc'[q] \notin Writing
    BY <1>1, Alone DEF Rename, At, Goto, TypeOK, GatedPC
  <2> QED
    BY <2>1
<1>2. ASSUME NEW r \in Requests, Load(r)
      PROVE  WritesFollow'
  <2>1. pc'[r] = "create" =>
          /\ Applicable(file, request[r]) /\ Mutated(file, request[r]) # file
          /\ next'[r] = Mutated(file, request[r]) /\ answer'[r] = Told(file, request[r])
    BY <1>2 DEF Load, Goto, Reply, TypeOK
  <2>2. pc'[r] \in {"create", "respond", "done"}
    BY <1>2 DEF Load, Goto, Reply, TypeOK
  <2>3. \A q \in Requests \ {r} :
          pc'[q] = pc[q] /\ next'[q] = next[q] /\ answer'[q] = answer[q]
    BY <1>2 DEF Load, Goto, Reply, TypeOK
  <2>4. UNCHANGED <<file, request>>
    BY <1>2 DEF Load, diskVars
  <2> QED
    BY <2>1, <2>2, <2>3, <2>4
<1>3. ASSUME \A q \in Requests : pc'[q] \in Writing => pc[q] \in Writing,
             UNCHANGED <<file, request, next, answer>>
      PROVE  WritesFollow'
  BY <1>3
<1>4. ASSUME NEW r \in Requests, Arrive(r) \/ TakeGate(r) \/ LoadFails(r)
      PROVE  WritesFollow'
  BY <1>3, <1>4 DEF Arrive, TakeGate, LoadFails, At, Goto, Reply, TypeOK, diskVars
<1>5. ASSUME NEW r \in Requests, CreateFails(r) \/ CreateTemp(r) \/ WriteTemp(r) \/ FlushTemp(r)
                                  \/ SyncDirectory(r) \/ WriteFails(r) \/ Cleanup(r)
      PROVE  WritesFollow'
  BY <1>3, <1>5 DEF CreateFails, CreateTemp, WriteTemp, FlushTemp, SyncDirectory, WriteFails,
                    Cleanup, At, Goto, Reply, TypeOK, diskVars
<1>6. ASSUME NEW r \in Requests, Notify(r) \/ Respond(r)
      PROVE  WritesFollow'
  BY <1>3, <1>6 DEF Notify, Respond, At, Goto, Reply, TypeOK, diskVars
<1>7. ASSUME NEW s \in Servers, Listen(s) \/ Client(s) \/ Kill(s)
      PROVE  WritesFollow'
  BY <1>3, <1>7 DEF Listen, Client, Kill, Forward, ForwardFails, ReadResource, Subscribe, Unsubscribe, Lose,
                    callVars, diskVars
<1>8. CASE PowerLoss
  <2>1. \A q \in Requests : pc'[q] \notin Writing
    BY <1>8 DEF PowerLoss, Lose, InProgress
  <2> QED
    BY <2>1
<1>9. CASE UNCHANGED vars
  BY <1>3, <1>9 DEF vars, callVars, diskVars
<1> QED
  BY <1>1, <1>2, <1>4, <1>5, <1>6, <1>7, <1>8, <1>9 DEF Next, Serve, AtomicWrite, AllDone

\* A listener that is out of date is told by the call that renamed the file, by the
\* channel, or by nobody, after a failed sync.
LEMMA MissedStep ==
    ASSUME OneServer, TypeOK, WholeWrites, Progress, NoMissedChange, [Next]_vars
    PROVE  NoMissedChange'
<1> USE DEF NoMissedChange, Stale, WillBeTold, Hushed, At
<1>1. ASSUME NEW r \in Requests, pc[r] \notin {"sync", "notify", "cleanup", "done"},
             \A q \in Requests \ {r} :
                 pc'[q] = pc[q] /\ reply'[q] = reply[q] /\ answer'[q] = answer[q],
             applied \subseteq applied', UNCHANGED <<file, clientVars>>
      PROVE  NoMissedChange'
  <2>1. ~Hushed(r)
    BY <1>1 DEF Progress
  <2>2. \A q \in Requests : Hushed(q) => Hushed(q)'
    BY <1>1, <2>1
  <2>3. \A s \in Servers : WillBeTold(s) => WillBeTold(s)'
    BY <1>1 DEF clientVars
  <2>4. \A s \in Servers : Stale(s)' => Stale(s)
    BY <1>1 DEF clientVars
  <2> HIDE DEF Hushed, WillBeTold, Stale
  <2> QED
    BY <2>2, <2>3, <2>4
<1>2. ASSUME NEW r \in Requests, Arrive(r) \/ TakeGate(r) \/ LoadFails(r) \/ Respond(r)
      PROVE  NoMissedChange'
  BY <1>1, <1>2 DEF Arrive, TakeGate, LoadFails, Respond, Goto, Reply, TypeOK, diskVars
<1>3. ASSUME NEW r \in Requests, Load(r)
      PROVE  NoMissedChange'
  <2>1. \A q \in Requests \ {r} :
          pc'[q] = pc[q] /\ reply'[q] = reply[q] /\ answer'[q] = answer[q]
    BY <1>3 DEF Load, Goto, Reply, TypeOK
  <2>2. pc[r] = "load" /\ applied \subseteq applied' /\ UNCHANGED <<file, clientVars>>
    BY <1>3 DEF Load, diskVars
  <2> QED
    BY <1>1, <2>1, <2>2
<1>4. ASSUME NEW r \in Requests, CreateFails(r) \/ CreateTemp(r) \/ WriteTemp(r) \/ FlushTemp(r)
      PROVE  NoMissedChange'
  BY <1>1, <1>4 DEF CreateFails, CreateTemp, WriteTemp, FlushTemp, Goto, Reply, TypeOK, diskVars
<1>5. ASSUME NEW r \in Requests, Rename(r) \/ SyncDirectory(r)
      PROVE  NoMissedChange'
  <2>1. pc'[r] \in {"sync", "notify"}
    BY <1>5 DEF Rename, SyncDirectory, Goto, TypeOK
  <2> QED
    BY <2>1
<1>6. ASSUME NEW r \in Requests, WriteFails(r)
      PROVE  NoMissedChange'
  <2>1. CASE pc[r] = "sync"
    <3>1. r \in applied /\ answer[r].changed
      BY <2>1 DEF Progress
    <3>2. Hushed(r)'
      BY <1>6, <3>1 DEF WriteFails, Goto, TypeOK
    <3> QED
      BY <3>2
  <2>2. CASE pc[r] # "sync"
    BY <1>1, <1>6, <2>2 DEF WriteFails, Goto, TypeOK, diskVars
  <2> QED
    BY <2>1, <2>2
<1>7. ASSUME NEW r \in Requests, Cleanup(r)
      PROVE  NoMissedChange'
  <2>1. /\ pc[r] = "cleanup" /\ reply'[r] = "error"
        /\ \A q \in Requests \ {r} : pc'[q] = pc[q] /\ reply'[q] = reply[q]
        /\ UNCHANGED <<answer, applied, file, clientVars>>
    BY <1>7 DEF Cleanup, Reply, Goto, TypeOK, diskVars
  <2>2. \A q \in Requests : Hushed(q) => Hushed(q)'
    BY <2>1
  <2>3. \A s \in Servers : WillBeTold(s) => WillBeTold(s)'
    BY <2>1 DEF clientVars
  <2>4. \A s \in Servers : Stale(s)' => Stale(s)
    BY <2>1 DEF clientVars
  <2> HIDE DEF Hushed, WillBeTold, Stale
  <2> QED
    BY <2>2, <2>3, <2>4
<1>8. ASSUME NEW r \in Requests, Notify(r)
      PROVE  NoMissedChange'
  <2>1. Home[r] \in Servers /\ \A s \in Servers : s = Home[r]
    BY DEF OneServer
  <2>2. listening[Home[r]] => backlog'[Home[r]] > 0
    BY <1>8, <2>1 DEF Notify, TypeOK
  <2>3. UNCHANGED listening
    BY <1>8 DEF Notify
  <2> QED
    BY <2>1, <2>2, <2>3
<1>9. ASSUME NEW s \in Servers, Listen(s)
      PROVE  NoMissedChange'
  <2>1. notified'[s] \/ ~listening'[s]
    BY <1>9 DEF Listen, Forward, ForwardFails, TypeOK, diskVars
  <2> QED
    BY <2>1 DEF OneServer
<1>10. ASSUME NEW s \in Servers, Client(s) \/ Kill(s)
       PROVE  NoMissedChange'
  <2>1. CASE ReadResource(s)
    <3>1. \/ seen'[s] = file'
          \/ UNCHANGED <<seen, notified, listening, backlog, callVars, diskVars>>
      BY <2>1 DEF ReadResource, TypeOK, diskVars
    <3> QED
      BY <3>1 DEF OneServer, callVars, diskVars
  <2>2. CASE Subscribe(s) \/ Unsubscribe(s) \/ Kill(s)
    <3>1. notified'[s] \/ ~listening'[s]
      BY <2>2 DEF Subscribe, Unsubscribe, Kill, TypeOK
    <3> QED
      BY <3>1 DEF OneServer
  <2> QED
    BY <1>10, <2>1, <2>2 DEF Client
<1>11. CASE PowerLoss
  BY <1>11 DEF PowerLoss
<1>12. CASE UNCHANGED vars
  BY <1>12 DEF vars, callVars, diskVars, clientVars
<1> QED
  BY <1>2, <1>3, <1>4, <1>5, <1>6, <1>7, <1>8, <1>9, <1>10, <1>11, <1>12
     DEF Next, Serve, AtomicWrite, AllDone

LEMMA ServerInvStep ==
    ASSUME OneServer
    PROVE  ServerInv /\ [Next]_vars => ServerInv'
<1> SUFFICES ASSUME ServerInv, [Next]_vars PROVE ServerInv'
  OBVIOUS
<1>1. FileInv /\ TypeOK /\ WholeWrites
  BY DEF ServerInv, FileInv
<1>2. FileInv'
  BY <1>1, FileInvStep
<1>3. GateIsHeldOnce' /\ WritesFollow'
  BY <1>1, GateStep, FollowStep DEF ServerInv
<1>4. Progress' /\ (unsynced \subseteq applied)'
  BY <1>1, ProgressStep DEF ServerInv
<1>5. NoMissedChange'
  BY <1>1, MissedStep DEF ServerInv
<1> QED
  BY <1>2, <1>3, <1>4, <1>5 DEF ServerInv

\* While one server owns the file, a client that listens and whose last read is out
\* of date is told, whatever is lost between the broadcast of src/memory/mod.rs
\* and its listen loop; a failed sync is the one exception.
THEOREM ListenersMissNothing ==
    ASSUME OneServer
    PROVE  Spec => []NoMissedChange
<1>1. ServerInv /\ [Next]_vars => ServerInv'
  BY ServerInvStep
<1>2. ServerInv => NoMissedChange
  BY DEF ServerInv
<1> QED
  BY <1>1, <1>2, ServerInvInit, PTL DEF Spec

-----------------------------------------------------------------------------
(* GraphStore *)

\* The store's instance speaks of the same graphs and requests.
LEMMA StoreIsOurs ==
    /\ Store!Nothing = Silence /\ Store!EmptyGraph = EmptyGraph /\ Store!Request = Request
    /\ \A g, req : /\ Store!Mutated(g, req) = Mutated(g, req)
                   /\ Store!Applicable(g, req) = Applicable(g, req)
                   /\ Store!Told(g, req) = Told(g, req)
<1>1. /\ Store!EmptyGraph = EmptyGraph /\ Store!Request = Request
      /\ Store!Queries = Queries /\ \A o : Store!Subjects(o) = Subjects(o)
  BY DEF Store!EmptyGraph, EmptyGraph, Store!Request, Request, Store!Mutations, Mutations,
         Store!Queries, Queries, Store!Subjects, Subjects
<1>2. \A g, req : Store!Mutated(g, req) = Mutated(g, req)
  BY DEF Store!Mutated, Mutated, Store!CreateEntities, CreateEntities, Store!CreateRelations,
         CreateRelations, Store!AddObservations, AddObservations, Store!DeleteEntities,
         DeleteEntities, Store!DeleteObservations, DeleteObservations, Store!DeleteRelations,
         DeleteRelations
<1>3. \A g, req : Store!Queried(g, req) = Queried(g, req)
  BY DEF Store!Queried, Queried, Store!Around, Around, Store!Matching, Matching
<1>4. \A g, req : Store!Told(g, req) = Told(g, req)
  BY <1>1, <1>2, <1>3 DEF Store!Told, Told
<1>5. \A g, req : Store!Applicable(g, req) = Applicable(g, req)
  BY <1>1 DEF Store!Applicable, Applicable
<1> QED
  BY <1>1, <1>2, <1>4, <1>5 DEF Store!Nothing, Silence

\* What the store sees of a call.
Effect(r) == IF r \notin applied THEN "none" ELSE IF r \in unsynced THEN "taken" ELSE "saved"
Learned(r) == IF r \in applied THEN answer[r] ELSE Silence
Heard(r) == IF reply[r] = "oversize" THEN "error" ELSE reply[r]
EffectOf == [r \in Requests |-> Effect(r)]
LearnedOf == [r \in Requests |-> Learned(r)]
HeardOf == [r \in Requests |-> Heard(r)]

LEMMA StartsAsStore == Init => Store!StoreInit
<1> SUFFICES ASSUME Init PROVE Store!StoreInit
  OBVIOUS
<1>1. request \in [Requests -> Request]
  BY DEF Init
<1> QED
  BY <1>1, StoreIsOurs DEF Init, Store!StoreInit

\* A step the store does not see.
LEMMA Unseen ==
    ASSUME UNCHANGED <<file, durable, request>>,
           \A r \in Requests : Effect(r)' = Effect(r) /\ Learned(r)' = Learned(r) /\ Heard(r)' = Heard(r)
    PROVE  UNCHANGED Store!storeVars
<1>1. EffectOf' = EffectOf /\ LearnedOf' = LearnedOf /\ HeardOf' = HeardOf
  BY DEF EffectOf, LearnedOf, HeardOf
<1> QED
  BY <1>1 DEF Store!storeVars, EffectOf, LearnedOf, HeardOf, Effect, Learned, Heard

LEMMA FailsAsStore ==
    ASSUME NEW r \in Requests, reply[r] = "none", reply'[r] \in {"error", "oversize"},
           \A q \in Requests \ {r} : reply'[q] = reply[q],
           UNCHANGED <<file, durable, request, applied, unsynced, answer>>
    PROVE  Store!Fail(r)
<1>1. EffectOf' = EffectOf /\ LearnedOf' = LearnedOf
  BY DEF EffectOf, LearnedOf, Effect, Learned
<1>2. HeardOf[r] = "none" /\ HeardOf' = [HeardOf EXCEPT ![r] = "error"]
  BY DEF HeardOf, Heard
<1> QED
  BY <1>1, <1>2 DEF Store!Fail, EffectOf, LearnedOf, HeardOf, Effect, Learned, Heard

LEMMA TakesAsStore ==
    ASSUME NEW r \in Requests, reply[r] = "none", r \notin applied, r \notin unsynced,
           Applicable(file, request[r]), file' = Mutated(file, request[r]),
           applied' = applied \cup {r},
           unsynced' = IF file' = file THEN unsynced ELSE unsynced \cup {r},
           answer'[r] = Told(file, request[r]),
           \A q \in Requests \ {r} : answer'[q] = answer[q],
           UNCHANGED <<durable, request, reply>>
    PROVE  Store!Take(r)
<1>1. HeardOf' = HeardOf /\ HeardOf[r] = "none" /\ EffectOf[r] = "none"
  BY DEF HeardOf, Heard, EffectOf, Effect
<1>2. LearnedOf' = [LearnedOf EXCEPT ![r] = Told(file, request[r])]
  BY DEF LearnedOf, Learned
<1>3. EffectOf' = [EffectOf EXCEPT ![r] = IF file' = file THEN "saved" ELSE "taken"]
  BY DEF EffectOf, Effect
<1> QED
  BY <1>1, <1>2, <1>3, StoreIsOurs
     DEF Store!Take, Store!Open, EffectOf, LearnedOf, HeardOf, Effect, Learned, Heard

LEMMA StoreStep ==
    ASSUME OneServer, ServerInv, [Next]_vars
    PROVE  [Store!StoreNext]_(Store!storeVars)
<1> USE DEF At
<1>0. TypeOK /\ Progress /\ WritesFollow /\ GateIsHeldOnce /\ unsynced \subseteq applied
  BY DEF ServerInv, FileInv
<1>1. ASSUME NEW r \in Requests, LoadFails(r) \/ CreateFails(r) \/ Cleanup(r)
      PROVE  Store!Fail(r)
  <2>1. reply[r] = "none"
    BY <1>0, <1>1 DEF Progress, LoadFails, CreateFails, Cleanup
  <2> QED
    BY <1>0, <1>1, <2>1, FailsAsStore DEF LoadFails, CreateFails, Cleanup, Reply, TypeOK, diskVars
<1>2. ASSUME NEW r \in Requests, Load(r)
      PROVE  [Store!StoreNext]_(Store!storeVars)
  <2> DEFINE g == Mutated(file, request[r])
  <2>1. /\ reply[r] = "none" /\ r \notin applied /\ r \notin unsynced
        /\ UNCHANGED <<file, durable, unsynced, request>>
    BY <1>0, <1>2 DEF Progress, Load, diskVars
  <2>2. CASE ~Applicable(file, request[r]) \/ (g # file /\ ~Savable(g))
    <3>1. /\ reply'[r] = "error" /\ \A q \in Requests \ {r} : reply'[q] = reply[q]
          /\ UNCHANGED <<applied, answer>>
      BY <1>0, <1>2, <2>2 DEF Load, Reply, TypeOK
    <3> QED
      BY <2>1, <3>1, FailsAsStore DEF Store!StoreNext
  <2>3. CASE /\ ~(~Applicable(file, request[r]) \/ (g # file /\ ~Savable(g)))
             /\ g = file
    <3>1. /\ answer'[r] = Told(file, request[r])
          /\ \A q \in Requests \ {r} : answer'[q] = answer[q]
          /\ applied' = applied \cup {r} /\ UNCHANGED reply
      BY <1>0, <1>2, <2>3 DEF Load, TypeOK
    <3> QED
      BY <2>1, <2>3, <3>1, TakesAsStore DEF Store!StoreNext
  <2>4. CASE /\ ~(~Applicable(file, request[r]) \/ (g # file /\ ~Savable(g)))
             /\ g # file
    <3>1. /\ \A q \in Requests \ {r} : answer'[q] = answer[q]
          /\ UNCHANGED <<applied, reply>>
      BY <1>0, <1>2, <2>4 DEF Load, TypeOK
    <3>2. \A q \in Requests :
            Effect(q)' = Effect(q) /\ Learned(q)' = Learned(q) /\ Heard(q)' = Heard(q)
      BY <2>1, <3>1 DEF Effect, Learned, Heard
    <3> QED
      BY <2>1, <3>2, Unseen
  <2> QED
    BY <2>2, <2>3, <2>4
<1>3. ASSUME NEW r \in Requests, Rename(r)
      PROVE  Store!Take(r)
  <2>1. pc[r] \in Writing
    BY <1>3 DEF Rename, Writing
  <2>2. /\ reply[r] = "none" /\ r \notin applied /\ r \notin unsynced
        /\ next[r] = Mutated(file, request[r]) /\ next[r] # file
        /\ Applicable(file, request[r]) /\ answer[r] = Told(file, request[r])
    BY <1>0, <2>1 DEF Progress, WritesFollow, Writing
  <2>3. /\ file' = next[r] /\ applied' = applied \cup {r} /\ unsynced' = unsynced \cup {r}
        /\ UNCHANGED <<request, durable, reply, answer>>
    BY <1>3 DEF Rename
  <2> QED
    BY <2>2, <2>3, TakesAsStore
<1>4. ASSUME NEW r \in Requests, SyncDirectory(r)
      PROVE  Store!Save
  <2>1. LearnedOf' = LearnedOf /\ HeardOf' = HeardOf
    BY <1>4 DEF SyncDirectory, LearnedOf, Learned, HeardOf, Heard
  <2>2. EffectOf' = [q \in Requests |-> IF EffectOf[q] = "taken" THEN "saved" ELSE EffectOf[q]]
    BY <1>4 DEF SyncDirectory, EffectOf, Effect
  <2> QED
    BY <1>4, <2>1, <2>2 DEF SyncDirectory, Store!Save, EffectOf, LearnedOf, HeardOf, Effect,
                            Learned, Heard
<1>5. ASSUME NEW r \in Requests, Respond(r)
      PROVE  Store!Fail(r) \/ Store!Succeed(r)
  <2>1. /\ reply[r] = "none" /\ r \in applied /\ r \notin unsynced
    BY <1>0, <1>5 DEF Progress, Respond
  <2>2. /\ reply' \in {[reply EXCEPT ![r] = "ok"], [reply EXCEPT ![r] = "oversize"]}
        /\ UNCHANGED <<request, file, durable, unsynced, applied, answer>>
    BY <1>5 DEF Respond, Reply, diskVars
  <2>3. CASE reply' = [reply EXCEPT ![r] = "oversize"]
    BY <1>0, <2>1, <2>2, <2>3, FailsAsStore DEF TypeOK
  <2>4. CASE reply' = [reply EXCEPT ![r] = "ok"]
    <3>1. EffectOf' = EffectOf /\ LearnedOf' = LearnedOf /\ EffectOf[r] = "saved"
      BY <2>1, <2>2 DEF EffectOf, LearnedOf, Effect, Learned
    <3>2. HeardOf[r] = "none" /\ HeardOf' = [HeardOf EXCEPT ![r] = "ok"]
      BY <1>0, <2>1, <2>4 DEF HeardOf, Heard, TypeOK
    <3> QED
      BY <2>2, <3>1, <3>2 DEF Store!Succeed, EffectOf, LearnedOf, HeardOf, Effect, Learned, Heard
  <2> QED
    BY <2>2, <2>3, <2>4
<1>6. ASSUME UNCHANGED <<file, durable, request, applied, unsynced, answer, reply>>
      PROVE  UNCHANGED Store!storeVars
  BY <1>6, Unseen DEF Effect, Learned, Heard
<1>7. ASSUME NEW r \in Requests, Arrive(r) \/ TakeGate(r) \/ CreateTemp(r) \/ WriteTemp(r)
                                  \/ FlushTemp(r) \/ WriteFails(r) \/ Notify(r)
      PROVE  UNCHANGED Store!storeVars
  BY <1>6, <1>7 DEF Arrive, TakeGate, CreateTemp, WriteTemp, FlushTemp, WriteFails, Notify, diskVars
<1>8. ASSUME NEW s \in Servers, Listen(s) \/ Client(s)
      PROVE  UNCHANGED Store!storeVars
  BY <1>6, <1>8 DEF Listen, Client, Forward, ForwardFails, ReadResource, Subscribe, Unsubscribe, callVars, diskVars
<1>9. ASSUME NEW s \in Servers, Kill(s)
      PROVE  Store!StoreKill
  <2> DEFINE gone == {r \in Requests : Home[r] = s /\ InProgress(r)}
  <2>1. gone \subseteq {r \in Requests : HeardOf[r] = "none"}
    BY <1>0 DEF Progress, InProgress, HeardOf, Heard
  <2>2. HeardOf' = [r \in Requests |-> IF r \in gone THEN "lost" ELSE HeardOf[r]]
    BY <1>9 DEF Kill, Lose, HeardOf, Heard
  <2>3. EffectOf' = EffectOf /\ LearnedOf' = LearnedOf /\ UNCHANGED <<file, durable, request>>
    BY <1>9 DEF Kill, EffectOf, Effect, LearnedOf, Learned, diskVars
  <2> HIDE DEF gone
  <2> QED
    BY <2>1, <2>2, <2>3 DEF Store!StoreKill, EffectOf, LearnedOf, HeardOf, Effect, Learned, Heard
<1>10. ASSUME PowerLoss
       PROVE  Store!StoreCrash
  <2> DEFINE gone == {r \in Requests : InProgress(r)}
  <2>1. gone \subseteq {r \in Requests : HeardOf[r] = "none"}
    BY <1>0 DEF Progress, InProgress, HeardOf, Heard
  <2>2. \A r \in Requests : HeardOf[r] = "none" /\ EffectOf[r] = "taken" => r \in gone
    BY <1>0 DEF Progress, InProgress, HeardOf, Heard, EffectOf, Effect
  <2>3. HeardOf' = [r \in Requests |-> IF r \in gone THEN "lost" ELSE HeardOf[r]]
    BY <1>10 DEF PowerLoss, Lose, HeardOf, Heard
  <2>4. EffectOf' = [r \in Requests |-> IF EffectOf[r] = "taken" THEN "saved" ELSE EffectOf[r]]
    BY <1>10 DEF PowerLoss, EffectOf, Effect
  <2>5. LearnedOf' = LearnedOf /\ UNCHANGED request
        /\ file' \in {file, durable} /\ durable' = file'
    BY <1>10 DEF PowerLoss, LearnedOf, Learned
  <2> HIDE DEF gone
  <2> QED
    BY <2>1, <2>2, <2>3, <2>4, <2>5
       DEF Store!StoreCrash, EffectOf, LearnedOf, HeardOf, Effect, Learned, Heard
<1>11. CASE UNCHANGED vars
  BY <1>6, <1>11 DEF vars, callVars, diskVars
<1> QED
  BY <1>1, <1>2, <1>3, <1>4, <1>5, <1>7, <1>8, <1>9, <1>10, <1>11
     DEF Next, Serve, AtomicWrite, AllDone, Store!StoreNext

\* The only server of its file implements GraphStore: its mutations are atomic, and
\* what it acknowledged survives crashes (src/memory/graph.rs, atomic_write).
THEOREM ImplementsStore ==
    ASSUME OneServer
    PROVE  Spec => KeepsStore
<1>1. ServerInv /\ [Next]_vars => ServerInv'
  BY ServerInvStep
<1>2. ServerInv /\ [Next]_vars => [Store!StoreNext]_(Store!storeVars)
  BY StoreStep
<1> QED
  BY <1>1, <1>2, ServerInvInit, StartsAsStore, PTL DEF Spec, KeepsStore, Store!StoreSpec
=============================================================================

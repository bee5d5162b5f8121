---------------------------- MODULE MemoryServer ----------------------------
(***************************************************************************)
(* The memory server: the gate, loads and saves of src/memory/graph.rs,    *)
(* atomic_write of src/support/mod.rs under them, and the notifications of *)
(* src/memory/mod.rs to a client that listens.                             *)
(*                                                                         *)
(* Every await between taking the gate and answering is a step; a crash or *)
(* another server of the same file may come in between any two.  The gate  *)
(* of a server is taken exactly while one of its requests is at a label of *)
(* GatedPC.  `durable' is what the directory entry leads to after a power  *)
(* loss; a rename reaches it when the directory is synced.                 *)
(***************************************************************************)
EXTENDS GraphOps

CONSTANTS
    Servers,    \* processes that serve the file
    Requests,   \* the tool calls ever made
    Home,       \* the server each one is made to
    Menu,       \* bound: what a request may ask
    Backlog,    \* capacity of the broadcast channel
    MaxCrashes  \* bound: kills and power losses

ASSUME MemoryAssumption ==
    /\ Menu \subseteq Request
    /\ Home \in [Requests -> Servers]
    /\ Backlog \in Nat \ {0}
    /\ MaxCrashes \in Nat

VARIABLES
    request,    \* what each call asks
    pc,         \* where each call is
    next,       \* the graph it is about to write
    answer,     \* what it will tell its caller
    reply,      \* what it told: "none", "ok", "error", "oversize", "lost" in a crash
    applied,    \* calls whose effect every later load sees
    file,       \* the graph in the file
    torn,       \* the file holds no graph at all
    rough,      \* the file's data were never flushed
    durable,    \* the graph a power loss falls back to
    unsynced,   \* calls whose rename the directory was not synced for
    temp,       \* each call's temporary file
    listening,  \* servers whose client holds a subscription
    backlog,    \* broadcast messages its listen loop has not received
    notified,   \* the client was told and has not read since
    seen,       \* the graph the client's last read was about
    crashes

callVars == <<pc, next, answer, reply, applied>>
diskVars == <<file, torn, rough, durable, unsynced>>
clientVars == <<listening, backlog, notified, seen>>
vars == <<request, callVars, diskVars, temp, clientVars, crashes>>

GatedPC == {"load", "create", "write", "flush", "rename", "sync", "cleanup"}
PC == GatedPC \cup {"new", "gate", "notify", "respond", "done"}
Replies == {"none", "ok", "error", "oversize", "lost"}
Answer == [changed : BOOLEAN, graph : Graph]
Silence == [changed |-> FALSE, graph |-> EmptyGraph]

TypeOK ==
    /\ request \in [Requests -> Request]
    /\ pc \in [Requests -> PC]
    /\ next \in [Requests -> Graph]
    /\ answer \in [Requests -> Answer]
    /\ reply \in [Requests -> Replies]
    /\ applied \in SUBSET Requests
    /\ file \in Graph
    /\ torn \in BOOLEAN
    /\ rough \in BOOLEAN
    /\ durable \in Graph
    /\ unsynced \in SUBSET Requests
    /\ temp \in [Requests -> {"none", "partial", "whole", "flushed"}]
    /\ listening \in [Servers -> BOOLEAN]
    /\ backlog \in [Servers -> 0..Backlog]
    /\ notified \in [Servers -> BOOLEAN]
    /\ seen \in [Servers -> Graph]
    /\ crashes \in 0..MaxCrashes

Init ==
    /\ request \in [Requests -> Menu]
    /\ pc = [r \in Requests |-> "new"]
    /\ next = [r \in Requests |-> EmptyGraph]
    /\ answer = [r \in Requests |-> Silence]
    /\ reply = [r \in Requests |-> "none"]
    /\ applied = {}
    /\ file = EmptyGraph
    /\ torn = FALSE
    /\ rough = FALSE
    /\ durable = EmptyGraph
    /\ unsynced = {}
    /\ temp = [r \in Requests |-> "none"]
    /\ listening = [s \in Servers |-> FALSE]
    /\ backlog = [s \in Servers |-> 0]
    /\ notified = [s \in Servers |-> FALSE]
    /\ seen = [s \in Servers |-> EmptyGraph]
    /\ crashes = 0

-----------------------------------------------------------------------------
(* Helpers *)

At(r, label) == pc[r] = label
Goto(r, label) == pc' = [pc EXCEPT ![r] = label]
Reply(r, how) == Goto(r, "done") /\ reply' = [reply EXCEPT ![r] = how]

GateIgnored(s) == TRUE     \* mutant
GateFree(s) == \A r \in Requests : Home[r] = s => pc[r] \notin GatedPC

-----------------------------------------------------------------------------
(* A tool call, under the gate *)

Arrive(r) ==
    /\ At(r, "new")
    /\ Goto(r, "gate")
    /\ UNCHANGED <<request, next, answer, reply, applied, diskVars, temp, clientVars, crashes>>

TakeGate(r) ==
    /\ At(r, "gate")
    /\ GateFree(Home[r])
    /\ Goto(r, "load")
    /\ UNCHANGED <<request, next, answer, reply, applied, diskVars, temp, clientVars, crashes>>

\* The file cannot be read, or holds no graph.
LoadFails(r) ==
    /\ At(r, "load")
    /\ Reply(r, "error")
    /\ UNCHANGED <<request, next, answer, applied, diskVars, temp, clientVars, crashes>>

Savable(g) == WithinLimits(g)

\* load, the change in memory, save_if_changed: a call that changes nothing, a query
\* too, has its answer; one that cannot be saved, or names no entity, its error.
Load(r) ==
    /\ At(r, "load")
    /\ ~torn
    /\ LET req == request[r]
           g == Mutated(file, req)
       IN  IF ~Applicable(file, req) \/ (g # file /\ ~Savable(g))
           THEN Reply(r, "error") /\ UNCHANGED <<next, answer, applied>>
           ELSE /\ next' = [next EXCEPT ![r] = g]
                /\ answer' = [answer EXCEPT ![r] = Told(file, req)]
                /\ IF g = file THEN Goto(r, "respond") /\ applied' = applied \cup {r}
                   ELSE Goto(r, "create") /\ UNCHANGED applied
                /\ UNCHANGED reply
    /\ UNCHANGED <<request, diskVars, temp, clientVars, crashes>>

-----------------------------------------------------------------------------
(* atomic_write *)

CreateFails(r) ==
    /\ At(r, "create")
    /\ Reply(r, "error")
    /\ UNCHANGED <<request, next, answer, applied, diskVars, temp, clientVars, crashes>>

CreateTemp(r) ==
    /\ At(r, "create")
    /\ temp' = [temp EXCEPT ![r] = "partial"]
    /\ Goto(r, "write")
    /\ UNCHANGED <<request, next, answer, reply, applied, diskVars, clientVars, crashes>>

WriteTemp(r) ==
    /\ At(r, "write")
    /\ temp' = [temp EXCEPT ![r] = "whole"]
    /\ Goto(r, "flush")
    /\ UNCHANGED <<request, next, answer, reply, applied, diskVars, clientVars, crashes>>

FlushSkipped(r) ==     \* mutant: no sync_all before the rename
    /\ At(r, "flush")
    /\ Goto(r, "rename")
    /\ UNCHANGED <<request, next, answer, reply, applied, diskVars, temp, clientVars, crashes>>
FlushTemp(r) ==
    /\ At(r, "flush")
    /\ temp' = [temp EXCEPT ![r] = "flushed"]
    /\ Goto(r, "rename")
    /\ UNCHANGED <<request, next, answer, reply, applied, diskVars, clientVars, crashes>>

Rename(r) ==
    /\ At(r, "rename")
    /\ file' = next[r]
    /\ torn' = FALSE
    /\ rough' = (temp[r] # "flushed")
    /\ unsynced' = unsynced \cup {r}
    /\ applied' = applied \cup {r}
    /\ temp' = [temp EXCEPT ![r] = "none"]
    /\ Goto(r, "sync")
    /\ UNCHANGED <<request, next, answer, reply, durable, clientVars, crashes>>

SyncDirectory(r) ==
    /\ At(r, "sync")
    /\ durable' = file
    /\ unsynced' = {}
    /\ Goto(r, "notify")
    /\ UNCHANGED <<request, next, answer, reply, applied, file, torn, rough, temp,
                   clientVars, crashes>>

RetryForever(r) ==     \* mutant: a failed write starts again, under the gate
    /\ pc[r] \in {"write", "flush", "rename", "sync"}
    /\ Goto(r, "create")
    /\ UNCHANGED <<request, next, answer, reply, applied, diskVars, temp, clientVars, crashes>>
\* Any step of the write, the last included, may fail ...
WriteFails(r) ==
    /\ pc[r] \in {"write", "flush", "rename", "sync"}
    /\ Goto(r, "cleanup")
    /\ UNCHANGED <<request, next, answer, reply, applied, diskVars, temp, clientVars, crashes>>

\* ... and the temporary file is removed, if it can be.
Cleanup(r) ==
    /\ At(r, "cleanup")
    /\ \E left \in {"none", temp[r]} : temp' = [temp EXCEPT ![r] = left]
    /\ Reply(r, "error")
    /\ UNCHANGED <<request, next, answer, applied, diskVars, clientVars, crashes>>

-----------------------------------------------------------------------------
(* The answer, after the gate is released *)

NeverTells(r) ==     \* mutant: the broadcast is forgotten
    /\ At(r, "notify")
    /\ Goto(r, "respond")
    /\ UNCHANGED <<request, next, answer, reply, applied, diskVars, temp, clientVars, crashes>>
NotifyUnbounded(r) ==     \* mutant: the channel has no capacity
    LET s == Home[r]
    IN  /\ At(r, "notify")
        /\ Goto(r, "respond")
        /\ backlog' = IF listening[s] THEN [backlog EXCEPT ![s] = @ + 1] ELSE backlog
        /\ UNCHANGED <<request, next, answer, reply, applied, diskVars, temp,
                       listening, notified, seen, crashes>>
\* notify_graph_updated: a full channel drops its oldest message, which the listen
\* loop learns of as a lag.
Notify(r) ==
    LET s == Home[r]
    IN  /\ At(r, "notify")
        /\ Goto(r, "respond")
        /\ backlog' = IF listening[s] /\ backlog[s] < Backlog
                      THEN [backlog EXCEPT ![s] = @ + 1] ELSE backlog
        /\ UNCHANGED <<request, next, answer, reply, applied, diskVars, temp,
                       listening, notified, seen, crashes>>

\* A result that is too large is reported as a tool error.
Respond(r) ==
    /\ At(r, "respond")
    /\ \E how \in {"ok", "oversize"} : Reply(r, how)
    /\ UNCHANGED <<request, next, answer, applied, diskVars, temp, clientVars, crashes>>

-----------------------------------------------------------------------------
(* listen, and the client, which reads the resource some time after it was told to *)

Subscribe(s) ==
    /\ ~listening[s]
    /\ listening' = [listening EXCEPT ![s] = TRUE]
    /\ notified' = [notified EXCEPT ![s] = TRUE]
    /\ UNCHANGED <<request, callVars, diskVars, temp, backlog, seen, crashes>>

Unsubscribe(s) ==
    /\ listening[s]
    /\ listening' = [listening EXCEPT ![s] = FALSE]
    /\ backlog' = [backlog EXCEPT ![s] = 0]
    /\ UNCHANGED <<request, callVars, diskVars, temp, notified, seen, crashes>>

ForwardNoLag(s) ==     \* mutant: the loop waits for a message, and ignores a lag
    /\ listening[s]
    /\ backlog[s] > 0
    /\ backlog' = [backlog EXCEPT ![s] = @ - 1]
    /\ notified' = IF backlog[s] = Backlog THEN notified ELSE [notified EXCEPT ![s] = TRUE]
    /\ UNCHANGED <<request, callVars, diskVars, temp, listening, seen, crashes>>
Forward(s) ==
    /\ listening[s]
    /\ backlog[s] > 0
    /\ backlog' = [backlog EXCEPT ![s] = @ - 1]
    /\ notified' = [notified EXCEPT ![s] = TRUE]
    /\ UNCHANGED <<request, callVars, diskVars, temp, listening, seen, crashes>>

\* The sink takes no message any more: the loop returns the error.
ForwardFails(s) ==
    /\ listening[s]
    /\ backlog[s] > 0
    /\ listening' = [listening EXCEPT ![s] = FALSE]
    /\ backlog' = [backlog EXCEPT ![s] = 0]
    /\ UNCHANGED <<request, callVars, diskVars, temp, notified, seen, crashes>>

\* The client asks for the resource.  It is sent the text of the graph, or told that the
\* text is too long to be sent, and that until the graph is smaller: either way this graph
\* was answered about.  When the load fails it knows no more than before.
ReadResource(s) ==
    /\ notified[s]
    /\ GateFree(s)
    /\ \/ /\ ~torn
          /\ seen' = [seen EXCEPT ![s] = file]
          /\ notified' = [notified EXCEPT ![s] = FALSE]
       \/ UNCHANGED <<seen, notified>>
    /\ UNCHANGED <<request, callVars, diskVars, temp, listening, backlog, crashes>>

-----------------------------------------------------------------------------
(* Crashes *)

InProgress(r) == pc[r] \notin {"new", "done"}
Lose(calls) ==
    /\ pc' = [r \in Requests |-> IF r \in calls THEN "done" ELSE pc[r]]
    /\ reply' = [r \in Requests |-> IF r \in calls THEN "lost" ELSE reply[r]]

\* The process dies; its files stay as they are.
Kill(s) ==
    /\ crashes < MaxCrashes
    /\ crashes' = crashes + 1
    /\ Lose({r \in Requests : Home[r] = s /\ InProgress(r)})
    /\ listening' = [listening EXCEPT ![s] = FALSE]
    /\ backlog' = [backlog EXCEPT ![s] = 0]
    /\ notified' = [notified EXCEPT ![s] = FALSE]
    /\ UNCHANGED <<request, next, answer, applied, diskVars, temp, seen>>

\* The machine stops: a rename that was not synced may be undone, data that were
\* not flushed may be missing.
PowerLoss ==
    /\ crashes < MaxCrashes
    /\ crashes' = crashes + 1
    /\ Lose({r \in Requests : InProgress(r)})
    /\ file' \in {file, durable}
    /\ durable' = file'
    /\ torn' = (torn \/ rough)
    /\ rough' = FALSE
    /\ unsynced' = {}
    /\ listening' = [s \in Servers |-> FALSE]
    /\ backlog' = [s \in Servers |-> 0]
    /\ notified' = [s \in Servers |-> FALSE]
    /\ UNCHANGED <<request, next, answer, applied, temp, seen>>

-----------------------------------------------------------------------------

AtomicWrite(r) ==
    \/ CreateFails(r) \/ CreateTemp(r) \/ WriteTemp(r) \/ FlushTemp(r) \/ Rename(r)
    \/ SyncDirectory(r) \/ WriteFails(r) \/ Cleanup(r)
Serve(r) ==
    \/ TakeGate(r) \/ LoadFails(r) \/ Load(r) \/ AtomicWrite(r) \/ Notify(r) \/ Respond(r)
Listen(s) == Forward(s) \/ ForwardFails(s)
Client(s) == Subscribe(s) \/ Unsubscribe(s) \/ ReadResource(s)

AllDone == (\A r \in Requests : At(r, "done")) /\ UNCHANGED vars

Next ==
    \/ \E r \in Requests : Arrive(r) \/ Serve(r)
    \/ \E s \in Servers : Listen(s) \/ Client(s) \/ Kill(s)
    \/ PowerLoss \/ AllDone

Spec == Init /\ [][Next]_vars

\* Tokio runs every task that is ready, and the gate is fair: its waiters queue.  Nothing
\* is assumed of the client; what the listen loop sends is taken, or sending it fails.
Fairness ==
    /\ \A r \in Requests : SF_vars(TakeGate(r)) /\ WF_vars(Serve(r))
    /\ \A s \in Servers : WF_vars(Listen(s))
FairSpec == Spec /\ Fairness

-----------------------------------------------------------------------------
(* Properties *)

\* Whatever is interrupted, by any number of servers: the file holds a graph that
\* the next load accepts, now and after a power loss.
FileAlwaysLoads == ~torn /\ ValidGraph(file) /\ ValidGraph(durable)

\* A client that listens and whose last read was about another graph is about to be told,
\* however full the channel is.  The one exception is a call that renamed the file
\* and then failed to sync the directory: see ChangesAreNotified.
Hushed(r) == r \in applied /\ answer[r].changed /\ (At(r, "cleanup") \/ reply[r] = "error")
Stale(s) == listening[s] /\ seen[s] # file
WillBeTold(s) ==
    notified[s] \/ backlog[s] > 0 \/ \E r \in Requests : pc[r] \in {"sync", "notify"}
NoMissedChange == \A s \in Servers : Stale(s) => WillBeTold(s) \/ \E r \in Requests : Hushed(r)

\* Requests take effect one at a time on the whole graph, and what was acknowledged
\* survives: the server implements GraphStore.
Store == INSTANCE GraphStore WITH
    graph <- file,
    saved <- durable,
    effect <- [r \in Requests |-> IF r \notin applied THEN "none"
                                  ELSE IF r \in unsynced THEN "taken" ELSE "saved"],
    told <- [r \in Requests |-> IF r \in applied THEN answer[r] ELSE Silence],
    reply <- [r \in Requests |-> IF reply[r] = "oversize" THEN "error" ELSE reply[r]]
KeepsStore == Store!StoreSpec

\* Every call is answered or lost in a crash: no path keeps the gate.
EveryCallEnds == \A r \in Requests : At(r, "gate") ~> At(r, "done")

\* A client that listens and is out of date is told so in the end, whatever it does itself
\* and however far the listen loop is behind, unless sending to it fails: it listens no more.
ListenerIsTold ==
    \A s \in Servers : Stale(s) ~> notified[s] \/ ~Stale(s) \/ \E r \in Requests : Hushed(r)

-----------------------------------------------------------------------------
(* What the comments say, and the code does not keep *)

\* src/memory/mod.rs:574, "forward graph-change notifications to the client whenever
\* a mutation tool modifies the graph".
ChangesAreNotified == \A s \in Servers : Stale(s) => WillBeTold(s)
=============================================================================

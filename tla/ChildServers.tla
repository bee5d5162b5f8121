---------------------------- MODULE ChildServers ----------------------------
(***************************************************************************)
(* The child MCP servers of one agent turn: ChildMcpManager in             *)
(* src/agents/child_mcp.rs.  They are connected one after the other, their *)
(* permitted tools get names the provider may use, and every way out ends  *)
(* with the connections closed or dropped.  What a child answers is free.  *)
(***************************************************************************)
EXTENDS Integers, SequencesExt, TLC

CONSTANTS
    NumServers,     \* the configured servers, in the order of their names
    Tools,          \* what a server calls its tools
    AllTools,       \* the selector of a whole server
    Policies,       \* bound: the agent definitions tried
    Listings,       \* bound: tool lists a server may answer with
    BaseName,       \* qualified_name: the name of a server's tool, made safe
    MaxTools,       \* MAX_CHILD_TOOLS
    MaxName         \* length of the longest name

Servers == 1..NumServers
INSTANCE ChildPolicy

ASSUME ChildAssumption ==
    /\ NumServers \in Nat
    /\ Tools \subseteq Nat /\ AllTools \notin Tools
    /\ MaxTools \in Nat
    /\ MaxName \in Nat \ {0}
    /\ \A p \in Policies : p \in Policy /\ ValidPolicy(p)
    /\ \A listed \in Listings : listed \in Seq(Tools)
    /\ \A s \in Servers, t \in Tools : BaseName[s][t] \in Seq(Nat) /\ Len(BaseName[s][t]) <= MaxName

VARIABLES
    policy,         \* definition.tool_policy
    pc,             \* where the turn is
    at,             \* the server whose turn it is to be connected
    child,          \* what became of each server; "late": the time to close it was over
    connections,    \* the connected servers
    offered,        \* the tools each of them listed
    catalog,        \* permitted tools, with the index of their connection
    routes,         \* provider_name -> connection and tool
    toClose,        \* connections still to be closed
    cancelled       \* the turn's CancellationToken

vars == <<policy, pc, at, child, connections, offered, catalog, routes, toClose, cancelled>>
known == <<offered, catalog, routes>>

PC == {"next", "list", "ready", "closing", "failing", "done", "failed", "lost"}
Entry == [base : Seq(Nat), index : 1..NumServers, tool : Tools]

TypeOK ==
    /\ policy \in Policies
    /\ pc \in PC
    /\ at \in 1..NumServers + 1
    /\ child \in [Servers -> {"none", "live", "closed", "late", "dropped"}]
    /\ connections \in Seq(Servers)
    /\ offered \in [Servers -> SUBSET Tools]
    /\ catalog \in Seq(Entry) /\ Len(catalog) <= MaxTools
    /\ \A name \in DOMAIN routes : Len(name) <= MaxName /\ routes[name] \in Entry
    /\ toClose \in Seq(Servers)
    /\ cancelled \in BOOLEAN

Init ==
    /\ policy \in Policies
    /\ pc = "next"
    /\ at = 1
    /\ child = [s \in Servers |-> "none"]
    /\ connections = <<>>
    /\ offered = [s \in Servers |-> {}]
    /\ catalog = <<>>
    /\ routes = <<>>
    /\ toClose = <<>>
    /\ cancelled = FALSE

-----------------------------------------------------------------------------
(* Names *)

\* A suffix, on a name shortened to make room for it.
Suffixed(base, n) == Append(SubSeq(base, 1, IF Len(base) < MaxName THEN Len(base) ELSE MaxName - 1), n)

FreeSuffixes(base, used) == {n \in 2..MaxTools + 1 : Suffixed(base, n) \notin used}
ReuseName(base, used) == base     \* mutant: two tools may share a name
\* unique_name: the base, or the first suffix that makes it one nobody has.  A catalog
\* has at most MaxTools names, so one is free: the error for none is not modelled.
UniqueName(base, used) ==
    IF base \notin used THEN base
    ELSE Suffixed(base, CHOOSE n \in FreeSuffixes(base, used) :
                            \A k \in FreeSuffixes(base, used) : n <= k)

\* The names of a sorted catalog, given out in its order.
NamesOf(sorted) ==
    LET names[i \in 0..Len(sorted)] ==
            IF i = 0 THEN <<>>
            ELSE Append(names[i - 1], UniqueName(sorted[i].base, Range(names[i - 1])))
    IN  names[Len(sorted)]

\* By base name, tool and index; bases are compared like strings.
BaseBefore(b, c) ==
    \/ \E n \in DOMAIN b \cap DOMAIN c : b[n] < c[n] /\ \A k \in 1..n - 1 : b[k] = c[k]
    \/ IsStrictPrefix(b, c)
Before(e, f) ==
    \/ BaseBefore(e.base, f.base)
    \/ e.base = f.base /\ (e.tool < f.tool \/ (e.tool = f.tool /\ e.index < f.index))

-----------------------------------------------------------------------------
(* connect *)

GoOn == pc' = "next" /\ at' = at + 1

\* Close what there is, the server at hand first, and report the failure.
GiveUp(closing) ==
    /\ pc' = "failing"
    /\ toClose' = closing
    /\ UNCHANGED <<at, connections, known>>
ForgetCurrent == connections     \* mutant: the server at hand is left out
WithCurrent == <<at>> \o connections

\* Too many servers, or a workspace that is no directory: nothing is started.
RefuseStart ==
    /\ pc = "next"
    /\ at = 1
    /\ pc' = "failed"
    /\ UNCHANGED <<policy, at, child, connections, known, toClose, cancelled>>

SkipServer ==
    /\ pc = "next"
    /\ at <= NumServers
    /\ ~MayAllowServer(policy, at)
    /\ GoOn
    /\ UNCHANGED <<policy, child, connections, known, toClose, cancelled>>

ConnectOne ==
    /\ pc = "next"
    /\ at <= NumServers
    /\ MayAllowServer(policy, at)
    /\ child' = [child EXCEPT ![at] = "live"]
    /\ pc' = "list"
    /\ UNCHANGED <<policy, at, connections, known, toClose, cancelled>>

\* It cannot be started, does not answer in time, or the turn was cancelled: what
\* had been started of it goes with the future.
ConnectFails ==
    /\ pc = "next"
    /\ at <= NumServers
    /\ MayAllowServer(policy, at)
    /\ GiveUp(connections)
    /\ UNCHANGED <<policy, child, cancelled>>

\* Another protocol version, no answer to tools/list, or a tool schema over the limit.
ServerFails ==
    /\ pc = "list"
    /\ GiveUp(WithCurrent)
    /\ UNCHANGED <<policy, child, cancelled>>

NextIndexByServer == at     \* mutant: servers that were skipped are counted
NextIndex == Len(connections) + 1

\* The permitted tools of a list, in its order.
EntryOf(t) == [base |-> BaseName[at][t], index |-> NextIndex, tool |-> t]
Permitted(listed) ==
    LET granted[i \in 0..Len(listed)] ==
            IF i = 0 THEN <<>>
            ELSE IF Allows(policy, at, listed[i]) THEN Append(granted[i - 1], EntryOf(listed[i]))
            ELSE granted[i - 1]
    IN  granted[Len(listed)]

LimitsChecked(listed) == Len(listed) <= MaxTools     \* mutant: the total is not checked
WithinLimits(listed) ==
    /\ Len(listed) <= MaxTools
    /\ Len(catalog) + Len(Permitted(listed)) <= MaxTools

TakeCatalog(listed) ==
    /\ pc = "list"
    /\ FitsCatalog(policy, at, Range(listed))
    /\ WithinLimits(listed)
    /\ catalog' = catalog \o Permitted(listed)
    /\ offered' = [offered EXCEPT ![at] = Range(listed)]
    /\ connections' = Append(connections, at)
    /\ GoOn
    /\ UNCHANGED <<policy, child, routes, toClose, cancelled>>

\* Too many tools, or a selector for a tool that is not there.
RejectCatalog(listed) ==
    /\ pc = "list"
    /\ ~(FitsCatalog(policy, at, Range(listed)) /\ WithinLimits(listed))
    /\ GiveUp(WithCurrent)
    /\ UNCHANGED <<policy, child, cancelled>>

Sorted(s) == \A i, k \in DOMAIN s : i < k => ~Before(s[k], s[i])

\* Each name leads to its entry; the last one, were there several.
RoutesOf(sorted, names) ==
    [name \in Range(names) |->
        sorted[CHOOSE i \in DOMAIN names :
            names[i] = name /\ \A k \in DOMAIN names : names[k] = name => k <= i]]

Publish ==
    /\ pc = "next"
    /\ at > NumServers
    /\ \E order \in Bijection(DOMAIN catalog, DOMAIN catalog) :
        LET sorted == [i \in DOMAIN catalog |-> catalog[order[i]]]
        IN  /\ Sorted(sorted)
            /\ routes' = RoutesOf(sorted, NamesOf(sorted))
    /\ pc' = "ready"
    /\ UNCHANGED <<policy, at, child, connections, offered, catalog, toClose, cancelled>>

-----------------------------------------------------------------------------
(* The end *)

Cancel ==
    /\ pc \in {"next", "list", "ready"}
    /\ ~cancelled
    /\ cancelled' = TRUE
    /\ UNCHANGED <<policy, pc, at, child, connections, known, toClose>>

\* The run is over, or cancelled: shutdown.
Shutdown ==
    /\ pc = "ready"
    /\ pc' = "closing"
    /\ toClose' = connections
    /\ UNCHANGED <<policy, at, child, connections, known, cancelled>>

CloseForever ==     \* mutant: a child that does not answer is asked again and again
    /\ pc \in {"closing", "failing"}
    /\ toClose # <<>>
    /\ toClose' = Append(Tail(toClose), Head(toClose))
    /\ UNCHANGED <<policy, pc, at, child, connections, known, cancelled>>
CloseOne ==
    /\ pc \in {"closing", "failing"}
    /\ toClose # <<>>
    /\ child' = [child EXCEPT ![Head(toClose)] = "closed"]
    /\ toClose' = Tail(toClose)
    /\ UNCHANGED <<policy, pc, at, connections, known, cancelled>>

\* The server at hand is closed before the connections, in a time of its own.
CurrentTimesOut ==
    /\ pc = "failing"
    /\ toClose # <<>> /\ Head(toClose) \notin Range(connections)
    /\ child' = [child EXCEPT ![Head(toClose)] = "late"]
    /\ toClose' = Tail(toClose)
    /\ UNCHANGED <<policy, pc, at, connections, known, cancelled>>

\* Whatever is live still goes with its owner: late, if its closing was under way or due.
Drop(due) ==
    child' = [s \in Servers |-> IF child[s] # "live" THEN child[s]
                                ELSE IF s \in due THEN "late" ELSE "dropped"]

EndClosing ==
    /\ pc \in {"closing", "failing"}
    /\ toClose = <<>>
    /\ Drop({})
    /\ pc' = IF pc = "closing" THEN "done" ELSE "failed"
    /\ UNCHANGED <<policy, at, connections, known, toClose, cancelled>>

\* close_all has one timeout for all the connections.
CloseTimesOut ==
    /\ pc \in {"closing", "failing"}
    /\ toClose # <<>> /\ Head(toClose) \in Range(connections)
    /\ Drop(Range(toClose))
    /\ pc' = IF pc = "closing" THEN "done" ELSE "failed"
    /\ UNCHANGED <<policy, at, connections, known, toClose, cancelled>>

Abort ==
    /\ pc \notin {"done", "failed", "lost"}
    /\ Drop({})
    /\ pc' = "lost"
    /\ UNCHANGED <<policy, at, connections, known, toClose, cancelled>>

-----------------------------------------------------------------------------

Connect ==
    \/ SkipServer \/ ConnectOne \/ ConnectFails \/ ServerFails \/ Publish
    \/ \E listed \in Listings : TakeCatalog(listed) \/ RejectCatalog(listed)
Close == Shutdown \/ CloseOne \/ CurrentTimesOut \/ EndClosing \/ CloseTimesOut

Over == pc \in {"done", "failed", "lost"} /\ UNCHANGED vars

Next == RefuseStart \/ Connect \/ Close \/ Cancel \/ Abort \/ Over

Spec == Init /\ [][Next]_vars

\* Connecting, listing and closing have timeouts, and a run ends (ProviderTurn).
FairSpec == Spec /\ WF_vars(Connect) /\ WF_vars(Close)

-----------------------------------------------------------------------------
(* Properties *)

\* However many servers were skipped on the way: a name leads to the connection of
\* a server that offers the tool, and to a tool that the policy allows there.
RoutesLeadHome ==
    \A name \in DOMAIN routes :
        /\ routes[name].index <= Len(connections)
        /\ LET s == connections[routes[name].index]
           IN  routes[name].tool \in offered[s] /\ Allows(policy, s, routes[name].tool)

\* Whatever names collide once they are made safe or shortened: each tool of the
\* catalog is reached by a name of its own, and there always is one.
EveryToolHasAName ==
    pc = "ready" => /\ Cardinality(DOMAIN routes) = Len(catalog)
                    /\ {routes[name] : name \in DOMAIN routes} = Range(catalog)

\* No error path forgets a child: when a turn has ended, each child that was connected was
\* closed, or closing it was due when the time for that was over.  Only a turn that is
\* dropped drops its children with nobody asking them to stop.
EveryChildIsClosed ==
    /\ pc \in {"done", "failed"} => \A s \in Servers : child[s] \in {"none", "closed", "late"}
    /\ pc = "lost" => \A s \in Servers : child[s] # "live"

\* The turn's servers are connected and closed in the end, or given up.
ServersEnd == pc = "next" ~> pc \in {"done", "failed", "lost"}
=============================================================================

# A verification project for tuls

`tuls` is a set of small MCP servers in one Rust binary: filesystem, fetch,
memory, shell, skills, and *agents*, a runtime that runs provider-backed local
subagents which in turn use other MCP servers as tools. This directory holds
TLA+ models of the parts of it that interleave, fail or crash, the TLC
configurations that check them on small instances, and TLAPS proofs of what
matters most for every instance. Paths below are relative to the repository;
in `PROJECT.json` the repository root is written `src/`.

Run a check with `tlc -config MCAgentRuntime.cfg MCAgentRuntime`, and the proofs with
`tlapm AgentRuntimeProofs.tla` and the other modules of section 4. `PROJECT.json` lists the runs, the source lines of
every definition, and the hazards each property is about.

## 1. Inventory

| Component | State it keeps | Operations | What is hard | What makes it correct |
|---|---|---|---|---|
| Agent runtime (`src/agents/runtime.rs`, tools in `src/agents/mod.rs`) | session map, per session a busy flag, a conversation, `resumable` and the time of last use; a semaphore of 8 permits | `spawn_agent`, `send_input`, the turn's task, `tasks/cancel`, the task's TTL, eviction of idle sessions | three kinds of lock, awaits between them, eviction from a stale snapshot, cancel and abort at any await | a session runs one turn at a time; permits and busy flags are never leaked; `resumable` only at a known boundary; eviction is LRU and never takes a session in use |
| Provider loop (`src/agents/provider.rs`) | the clone of the conversation a turn works on | request, parse, run the batch of tool calls, commit | failure or cancel between two calls of a batch; what may be retried | the retained conversation can be replayed; a session that may be resumed knows of every tool that may have run |
| Child MCP (`src/agents/child_mcp.rs`, policy in `src/agents/definition.rs`) | connections, catalog, routes; one child task per call | connect, list, name, call, poll, cancel, close | one server of several fails; names collide; a child keeps silent | a name leads to the tool it was given for; no child is forgotten; an abandoned task is cancelled |
| Memory server (`src/memory`), over `atomic_write` (`src/support/mod.rs`) | one file; a mutex; a broadcast channel | nine tools, a resource, subscriptions | crash between write, rename and sync; two mutations at once; slow listeners | mutations are atomic and durable once acknowledged; the file always loads; listeners hear of every change |
| Shell server (`src/shell`) | one task per command: child, process group guard, two reader tasks | `execute_command`, cancel, timeout, TTL | exit, timeout and cancel race; descendants fork, detach, keep pipes open | nothing of the group survives a forced end; output is whole; the command ends |
| Filesystem server (`src/fs`), `AccessControl` (`src/support/access.rs`) | none of its own: the file system, and the directories it resolved at its start | read, write, edit, make directories, move, list, search, tree | no lock: a path is checked, looked at and used in steps that other calls come between; edits are read-modify-write; walks are bounded and run over a tree that changes | a file changes as a whole or not at all; a write or a move that fails changed nothing that users see, but for a write that could not be synced; a call that makes directories makes only those on the way to its own; a move replaces nothing it could see; a walk shows what was there all along |
| Tool policy (`src/policy.rs`) | allow and deny selectors | `allows`, `allows_capability`, `allows_auxiliary_surface` | precedence | a denial wins; a resource is exposed only if its tool is |
| Fetch server (`src/fetch`) | none between two calls | the `fetch` tool and prompt, robots.txt, paging | a name is looked up in one step and connected to in another; a page and its hint share a budget of bytes | the pages a client reads by following hints are the content; nothing is requested that the network policy, robots.txt or the tool policy forbids |
| Skills server, agent discovery and parser | registries built once | bounded directory walks, parsing | limits of depth and count | the walk ends and keeps its bounds |
| Command line | none | option parsing and dispatch | nothing | |

How they interact: the client speaks MCP to one server. In the agents server,
`spawn_agent` and `send_input` prepare a turn under the runtime's locks and
start an rmcp task that runs it; the turn connects the agent's child MCP servers
(other `tuls` processes as a rule), asks the provider over HTTP, sends the tool
calls of its answers to the children, polls their tasks and at last writes the
conversation back. rmcp's `TaskManager` delivers cancels and drops the task's
future when its TTL is over or the server shuts down. The memory server shares a
file with its own later incarnations; the shell server shares process groups
with the kernel.

## 2. Modules

| Module | What it is |
|---|---|
| `AgentRuntime` | sessions, turns, permits and eviction; one action per critical section |
| `SessionLedger` | the abstract promise about one session; `AgentRuntime` implements it |
| `AgentRuntimeProofs` | the inductive invariant of `AgentRuntime` and its proofs |
| `ProviderTurn` | the inside of the turns of one session: provider rounds, tool batches, child tasks, commit |
| `ProviderTurnProofs` | what a commit or a message makes of a conversation; the invariant of `ProviderTurn` |
| `ChildPolicy` | `ChildToolPolicy` as pure operators |
| `ChildServers` | connecting, naming, routing and closing the child servers of one turn |
| `ChildServersProofs` | the names of a catalog; the invariant of `ChildServers` |
| `GraphOps` | the knowledge graph's mutations, limits and queries as pure operators |
| `GraphStore` | the abstract promise of the memory server: atomic, durable once acknowledged |
| `MemoryServer` | gate, load, `atomic_write`, notifications, crashes; implements `GraphStore` |
| `MemoryServerProofs` | the invariants of `MemoryServer` and the proof that it implements `GraphStore` |
| `ShellCommand` | one command, its processes, group guard and reader tasks |
| `ShellCommandProofs` | its inductive invariant and proofs |
| `FileTree` | a directory tree with links, and what the system calls do to it |
| `TextEdit` | `apply_edits` as pure operators |
| `PathAccess` | `normalize_path`, the allowed directories and what `validate_path` grants |
| `FileServer` | the tool calls of the filesystem server, one step per system call |
| `FileStore` | the abstract promise of that server; `FileServer` implements it |
| `FileServerProofs` | paths, trees and edits by themselves; the invariant of `FileServer` and the proof that it implements `FileStore` |
| `ToolPolicy` | `ToolPolicy` as pure operators |
| `ContentPages` | `content_page`: one page of a text and its hint, counted in bytes |
| `FetchServer` | a client that reads a page through the fetch tool or prompt |
| `LeastElements`, `FetchServerProofs` | least elements of sets of numbers, and recursion over an interval; two theorems on `ToolPolicy`, pages, and the invariant of `FetchServer` |
| `MC*` | the instances TLC checks |

`AgentRuntime` and `ProviderTurn` meet at two points: `SettleTurn` of the first
is a whole turn of the second (its results `completed`, `failed_open`,
`failed_closed` and `cancelled` are what `Finish` of the second produces), and
`ConnectChildren`, `ConnectFails` of the second stand for a run of `ChildServers`.
`FileServer` is built on `PathAccess` and `TextEdit`, `FetchServer` on `ContentPages`
and `ToolPolicy`.

### AgentRuntime

A *call* is a `spawn_agent` or `send_input` request and the task that runs its
turn. `pc` walks it through `cleanup_idle_sessions` (`snapshot`, `probe`,
`read`, `evict`, `commit`), `prepare_spawn` (`create`, `insert`), `prepare_input` (`lookup`,
`claim`, `permit`, `reserve`) and `execute` (`task`, `undo`, `running`,
`settled`, `unlink`). A session is named after the call that spawned it, where
the code uses a fresh UUID. The map's mutex is held across an await in one place
only (`runtime.rs:601-613`), which is the label `commit`; the session's data
mutex never is and needs no variable. A spawned session gets its time of last use when it is
created, before its turn at the map's mutex has come, and a sweep looks at a session's
busy flag before it waits for its data: two labels each.

`accessed` takes its values from a logical clock that advances between any two readings.
`Instant` promises only not to go back. The eviction recheck (`runtime.rs:609`) compares
the two times for equality, so with a coarser clock a session used again within one tick
of its listing would look unused to it; with the nanoseconds of the supported platforms two
uses with several awaits between them do not fall into one. `ReservedSessionStays` and
`MostRecentSurvive` rest on this, as the code does.

`AbortTask` is the drop of the task's future: the lease's and permit's `Drop`
implementations run, the session's data stay as they are.

### ProviderTurn

An item of the conversation keeps who said it, the turns whose messages it holds
and the ids of the calls it makes or answers; texts are left out. `Cancel` covers
`tasks/cancel` and the 30-minute deadline, which cancel the same token; `Abort`
is the drop of the future. The child is an external process that finishes, fails
or asks for input when it likes, or never does. Each poll of a child's task may be
answered, answered by an error (`PollFails`), or not in time (`PollTimesOut`).

### ChildServers

Names are sequences of numbers: `qualified_name` is the constant `BaseName`, and
a suffix is appended after cutting the name to make room, so that all the
collisions of the code (two names that are made safe alike, a name cut to another,
a name that looks like a suffixed one) happen with names of length two. `Publish` takes any
permutation of the catalog that is sorted, as `sort_by` leaves one: entries that compare
equal are the same. Closing a child is not always answered: the server at hand has a time of
its own (`CurrentTimesOut`), the connections have one together (`CloseTimesOut`). A child whose
time was over is `late`, which tells it from one that was forgotten. `RefuseStart` stands for the
two checks before anything is started.

### MemoryServer

A request is at one of the labels of `GatedPC` exactly while it holds the gate.
`file` is what every load sees, `durable` what a power loss falls back to until
the directory is synced, and `rough` says that the file's data were never
flushed. `torn`, a file that does not parse, is reached only through a power
loss on such a file. `Kill` ends the process, `PowerLoss` the machine.

A client that was told may read the resource, at any later time or never. It is answered
with the text, or with the error that the text is over the limit of a response, which holds as
long as the graph does and counts as an answer about it; or the load fails, and it has learned
nothing (`ReadResource`). What the listen loop sends is taken, or the loop ends with the error
(`ForwardFails`) and the client listens no more. A lag of the channel wakes the loop as a message
does.

### ShellCommand

Processes fork, leave the group, close streams and exit freely. SIGKILL takes
effect at once on all members of the group. A stream is the set of processes that
can still write to it; what they write is left out.

### FileServer, FileStore and what they use

A path is a sequence of numbers, a tree a function from paths to nodes: a
directory, a file with its text, a link with its target, or nothing. `FileTree`
says where a path leads through links (`Place`; it follows four links, where the kernel
gives up after 40), and what `rename`, `mkdir`
and a replaced file make of a tree. Each call has a number for the name of its temporary
file, as a UUID is part of that name in the code; neither the trees nor the
menu use these numbers (`FileAssumption`). A call goes through the system calls of its
handler in their order: `validate_path` first looks its path up (`LookUp`), then,
when there is nothing, the ancestors one by one (`LookAbove`); `write_file` and
`edit_file` go through `atomic_write` (`CreateTemp`, `Fill`, `Rename`, `SyncParent`,
`RemoveTemp`, which may fail and leaves the call `stuck` with its file); `create_directory` goes
through the steps of `create_dir_all`: one `mkdir` (`MakeDirectory`), up to the parent where that is
missing and down again when it is there, and a look whether a directory came to be there
otherwise (`CheckDirectory`); `move_file` asks whether the destination exists
(`DestinationExists`) and renames later (`MoveFile`); `search_files` and
`directory_tree` open one directory at a time and look at its entries one by one
(`Open`, `SearchVisit`, `TreeVisit`, `CloseDirectory`). `Fails` is any system call
that answers an error. A text is a sequence of numbers. Two awaits are merged with their
neighbours: a directory is read as a whole when it is opened (`Entries`), and an entry's path is
checked at the moment it is visited (`Skipped`). The entries of a directory that changes while it
is being read are the kernel's to choose, and what changes then is not in `stays`, so nothing is promised of it.

Four variables are history, and no step reads them: what each call has changed,
what was there during all of a walk (`stays`), which destinations were filled after
a move had looked (`taken`), and which writes have had a temporary file that its path did
not lead to (`strayed`).

`FileStore` sees the tree without temporary files. There a call is granted paths: those it
named, or where they led at that moment, and only within the roots. A write, an edit or a move
changes the files at most once, by its whole effect, at the place the granted path leads to when it does, and answers
after it. A call that makes directories makes those on the way to its own one by one, may
fail after some of them, and succeeds only when the whole path leads to a directory. It does not promise that an edit
applies to the text the file still has: a write between the read and the rename of
an edit is lost, and the code takes no lock against it.

### FetchServer and ContentPages

A text is the sequence of the sizes of its characters in bytes, so that the cut
of a page at a byte budget and the hint that must fit behind it happen as in the
code. A client starts at the beginning, chooses a length for each call and follows
the hints. The addresses a name resolves to are chosen anew at every look-up;
`pinned` are those the request is bound to. `log` is history: the requests of the
current call. The model assumes that no proxy is set in the environment: the client is built
without `no_proxy` (`http.rs:40`, `55-59`), so requests would then go to the proxy, and it
would be the proxy that looks up the name.

## 3. Runs

| Run | Instance | What it shows |
|---|---|---|
| `agent_runtime` | 3 calls, capacity 2, 1 idle session, symmetry | safety and refinement of the runtime, 8 properties |
| `agent_runtime_live` | 3 calls, capacity 1 | every call is answered |
| `completed_turn_evicted`, `spurious_non_resumable` | as the first | two disagreements with the documentation, see section 5 |
| `provider_turn` | 2 turns, 2 rounds, 2 calls each, both wire formats | history, resumption and cancellation, and that a turn ends |
| `ambiguous_undispatched` | 1 turn of 1 round | a disagreement, see section 5 |
| `child_servers` | 3 servers of 2 tools, 3 tools at most, names of length 2 | names, routes and closing |
| `memory_server` | 2 calls out of 9, one crash, a channel of one message | atomicity, durability, notification |
| `memory_change_hushed` | the same | a disagreement, see section 5 |
| `shell_command` | the child and 2 descendants, 2 streams | no survivor, whole output, an end |
| `file_server` | 2 calls out of 19, on 4 small trees | whole changes and directories made one by one (refinement of `FileStore`), moves, walks, temporary files; 93062 states |
| `fetch_server` | texts of 0, 2 and 12 characters, 3 addresses, 4 lengths | pages join, nothing forbidden is requested, the reader finishes |

Why the bounds are enough. In `AgentRuntime` three calls are the fewest with
which one sweeps while another uses a session that a third one spawned, and one
idle session with three sessions makes every sweep's ranking matter; a capacity of
2 lets a call be refused, a capacity of 1 adds waiting to the liveness run. Two
turns with two rounds of two calls let a turn start on a history that holds a
failed turn, a committed batch and an interrupted one. Two memory calls race for
the gate, fill a channel of one message, and let a second mutation meet the state
the first one left behind in a failed or crashed save; a limit of two items makes
saves fail. Three child servers allow a skipped one before two connected ones.
Two descendants let one leave the group and fork, or hold a stream, while the
other is killed. Two calls of the filesystem server are enough for all that its
hazards need: one between the check and the use of the other. The four trees hold
two directories and a link that leads out, one that can be moved aside, links into a
neighbour and to nowhere, and a directory that is served under another name; the
menu asks for every tool, for paths that leave the directory and come back, and for
edits that overlap. A walk has a budget below the size of the tree (4 entries, 2
results, 3 nodes), so that it is also cut. The calls differ in nothing but what
they ask, and `InOrder` keeps one order of each pair of requests. The long text of
`fetch_server` has characters of every size and room for 9 to 13 bytes a page,
the lengths asked for include 0, which is refused, and one of the hints needs a second
digit.

Every run checks for deadlock; a run that is over has an explicit idle step
(`AllDone`, `Rest`, `Over`, `Answered`).

### Fairness

Tokio runs every task that is ready, so each step of our own is weakly fair; the
gate of the memory server is tokio's mutex, whose waiters queue, so taking it is
strongly fair. Its listen loop is fair, the clients that read the resource are not. A turn's execution ends (`SettleTurn` is fair) because its requests
have timeouts and its deadline cancels it, which is what `TurnEnds` of
`ProviderTurn` says. `Cancel` is fair there because the deadline is a timer; a child may work
for ever and answer every poll, and the turn ends because it listens to the token. In
`ShellCommand` timers, readers at the end of a stream and waits for a killed child
make progress; nothing is assumed of the processes, nor anywhere of a client, a
provider or a child server. In `FetchServer` the server goes on because look-ups
and requests have timeouts, and the client because it follows the hints: that is
the reader `ReaderFinishes` is about. `FileServer` has no fairness; its run is about
safety.

## 4. Proofs

| Module | Proved, for every value of the constants |
|---|---|
| `AgentRuntimeProofs` | `TypeOK`, `LeaseIsExclusive`, `PermitsBalance`, `ResumableOnlyWhenSettled`, `ReservedSessionStays`, `CancelledSpawnLeavesNothing`, `MostRecentSurvive`, and the refinement `KeepsLedger` |
| `ProviderTurnProofs` | `TypeOK`, `HistoryReplays`, `OneUserTurn`, `ResumableKnowsAll`, `AbandonedTaskIsCancelled`, `ConversationGrows` |
| `ChildServersProofs` | `TypeOK`, `RoutesLeadHome`, `EveryToolHasAName`, `EveryChildIsClosed` |
| `MemoryServerProofs` | `TypeOK` and `FileAlwaysLoads` for any servers; `NoMissedChange` and the refinement `KeepsStore` for one |
| `ShellCommandProofs` | `NothingLeftRunning`, `OutputIsComplete`, `NoReaderLeft` |
| `FetchServerProofs` | `PagesJoin`, `AskedOnlyWhenAllowed`, and that every page leads on; of `ToolPolicy`: a surface beside a tool needs the tool, stricter selectors allow less |
| `FileServerProofs` | `TypeOK`, `NoLitter`, `WalksMissNothing`, `MoveReplacesOnlyLatecomers`, the refinement `KeepsTree`, and when an edit is accepted |

**Agent runtime**, for any finite set of calls, any capacity and any idle limit.
None of the properties is inductive by itself; they rest on `IInv`.
`LeaseIsExclusive` needs to know which session a label belongs to
(`Phases`, `TargetsOver`: a session that another call uses was spawned by a call
that is done, so a name being inserted cannot be one that somebody is using).
`ReservedSessionStays` needs `HandIsOld`,
`SweepsAreOld` and `ClockLeads`: whatever a sweep has listed carries a time that was read
before, and the session it holds in hand at the removal was not busy when it was checked, so if a
turn is reserved on it now it was touched since and compares different. `FreshClosed`: a session
that was not begun cannot be resumed. `OpenTurns` says what an open turn means for its session's data and
carries `ResumableOnlyWhenSettled`. Permits are counted with the library's theorems
on the cardinality of finite sets. The only assumption is `RuntimeAssumption`: the
calls are finite and the two limits natural numbers.

Three more results add to `IInv`. `CancelledSpawnLeavesNothing` speaks of calls that are
done; `CancelledGone` says it of every call past its removal, and only `InsertSession` of a
call with no outcome could break it. `KeepsLedger` is proved step by step (`StepOnLedger`):
reserving a turn is the ledger's begin, an outcome its end, and everything else, sweeps
and the session map above all, leaves the ledger as it is; `TargetsBegun` gives that a
follow-up's session had a turn of its own, so the ledger never meets a fresh session
there. `MostRecentSurvive` compares clocks at the removal, while the ranking was made
before other calls ran. `SweepsOutranked` carries it over: what a sweep is about to evict
has `MaxIdle` sessions used after it when the list is ranked, by an injection from the
younger entries of the list (`SweepsListOnce`: each session has one) to sessions used no
earlier than their entry says, and clocks only grow (`UsedAfterGrows`).

**Provider turns**, for any number of turns, of rounds and of calls in a response, in both
wire formats. The first half of the module is about conversations alone: `CommitShape` and
`MessageShape` say what a commit and a user message make of one, and the lemmas that follow
that such a conversation still replays and still has one user turn at a time. `IInv` then
needs `Counted` (no more ids are handed out than turns and rounds allow, and the outputs at
hand are a beginning of the batch), `Grown` (the clone a turn works on extends what was retained) and,
for `ResumableKnowsAll`, `Closed` and `KnowsAll`: while a turn runs the session cannot be
resumed, and each call that was sent is in the clone, among the outputs, or the one being
waited for. `AbandonedTaskIsCancelled` needs only that a task is awaited where a handle is
held (`TaskOnlyWhenAwaited`).

**Child servers**, for any servers, tools, policies, listings and limits, under
`ChildAssumption`: `qualified_name` makes names no longer than the limit, which its two
truncations ensure. `NamesOf` and `Permitted` are functions defined by recursion over an
interval, which the provers do not unfold; `Iterates` proves that such a function exists and
`StaysWithin` where its values are, each by the least number that is missed. With them
`NamesAreDistinct` says that a catalog of at most `MaxTools` entries gets as many distinct names;
its heart is `SomeSuffixIsFree`, by the pigeonhole principle: fewer names than suffixes leave
a suffix free, so the error the code keeps for that case cannot happen. `RoutesLeadHome`
needs that each catalog entry is sound for the connection it points to (`CatalogSound`) and that
servers are connected in their order (`ConnectedBefore`), so no later server overwrites what
an entry relies on. `EveryChildIsClosed` needs to know where a live child is to be found, in
each phase, by whoever closes it (`ChildrenFound`).

**Memory server**, for any names, texts, requests, capacity and number of crashes.
`FileInv` adds to the type that what is about to replace the file is a valid graph
and was flushed before the rename (`WholeWrites`); no gate is needed for it, so it holds
for any number of servers of one file. The rest assumes `OneServer`: `GateIsHeldOnce`
gives that no two calls are between load and sync (`Alone`), so that what a call is
about to write still follows from the file (`WritesFollow`), and `Progress` says for
each label whether the call has taken effect, was synced, and has an answer. With
them each step maps to one of `GraphStore` or to none: `Rename`, and a load that
changes nothing, to `Take`; the sync to `Save`; an answer to `Succeed` or `Fail`; a
kill and a power loss to theirs.

**Shell server**, for any set of processes and streams. The invariant says that the
guard is armed while there is something to kill (`GuardIsArmed`), that a killed
group stays dead (`KilledForGood`: members of a group are forked by members only),
that a stream at its end has no writer and gets none (`EndIsFinal`), and that what
was collected is no longer read. The type of its variables is part of it.

**Fetch server**, for any texts, lengths, budgets and addresses, under
`FetchAssumption`: a header leaves room for a character and a hint, which the limits on
URLs and content types in the code ensure. `PageLeadsOn` shows from it that a page
returns at least one character and has a hint unless it reaches the end; `PagesJoin`
follows, since the parts read so far are exactly the characters before `start`.
`AskedOnlyWhenAllowed` needs that a policy was checked before anything was sent, and
that what a request is bound to was found public.

**Filesystem server**, for any trees, calls, directories and limits, under `FileAssumption`:
the calls are numbered, the paths that a tree may have are finitely many, what is found and asked
for does not name temporary files, and the arguments are of their types. The first third of the
module is about paths and trees alone: that following links stays among names (`FollowType`),
that where a directory is found and the last name is no link a path leads there (`ChasedAppend`),
that rename leaves a tree (`RenamedTree`) and so does mkdir (`MadeDir`), and what they leave where.
`IInv` has, beside the types, six parts:

* `OnTrack`: each call is at a label of its tool.
* `Sought`: the path a call looks up is the one it named or an ancestor of it, and the directory it
  is making is the one asked for or on the way to it.
* `Temps`: what has the name of a temporary file is a file (`TempsAreFiles`), there is one of a call
  at most (`OneTemp`), and only while it writes (`TempsOfWriters`); it holds the whole text when it is
  about to be renamed (`Filled`), and unless the call is `strayed` its path leads to it (`PathsLead`).
  With `NoLitter` they are inductive together: a rename into place takes the temporary file away, and
  `RemoveTemp` reaches it where its path leads, or fails and leaves the call `stuck`.
* `FreeToMove`: a move at its rename has found no destination, unless `taken`.
* `Walked`: what a walk could have shown all the while has been found, or is yet to come to: an
  entry of an open directory, or a directory on the list, leads on to it; what it passes on the way
  is no link, is allowed and is not excluded. This is `WalksMissNothing` made inductive, and needs
  that a path all of whose directories stood still is listed where it was (`ListingHas`).
* `Steadied`: which labels go with an effect.

`ImplementsStore` proves `KeepsTree`: `Seen` is a tree (temporary files have nothing below
them, `LeafTemps`), and each step is a step of `FileStore` or changes nothing in it. The hard steps
are those that work on real places: a rename or a new directory of the server follows links in the
whole tree, and the store must do the same in the tree without temporary files, where the same
places are reached because no link and no directory is among the files left out (`FollowAlike`,
`SeesAlike`, `PlacedAlike`: in both trees a path leads to the same place). The grant of a path is
the store's `Grant` (`GrantCalls`), which needs that the path was looked up as it was named or
is an ancestor of that (`Sought`). Each `mkdir` is the store's `MakeDir` of an initial part
of the granted path. A rename of a temporary file is a write of the whole text at one place; a
move that carries somebody's temporary file along is a move of the visible files all the same.

`NoLitter` did not hold as it was first stated. It exempted writes whose temporary file had been moved with its
directory. That is not the only way for the path to lead elsewhere (a link on the way may change,
too), so it held on small trees only, and the proof attempt showed it. It now exempts a write whose path did not lead to its temporary file at some
moment, which is what `atomic_write` depends on, and one whose single attempt to remove the file failed
(`support/mod.rs:165` ignores the error); the file can then stay behind for good.

**Edits.** `apply_edits` counts matches that do not overlap.
`AcceptedMeansNoneApart` says what that decides: the text occurs, and every
occurrence overlaps the leftmost one. It is uniqueness only where occurrences
cannot overlap (`ApartMeansUnique`).

Model-checked only: the liveness properties of all modules (`EveryCallEnds`,
`TurnEnds`, `ServersEnd`, `ListenerIsTold`, `DetachedReaderEnds`, `CommandEnds`,
`ReaderFinishes`), which need fairness and ENABLED and are out of the prover's reach. That the sort of a catalog exists is left to TLC as well, which would
report a deadlock of `Publish`; the theorems hold of every order it may choose.

## 5. Where code and documentation disagree

* **A completed turn whose session is gone** (`CompletedTurnIsRetained`).
  `prepare_input` looks the session up, releases the map and claims it
  afterwards; a cleanup in between evicts it. The turn runs, its result is
  reported, and the next `send_input` answers `unknown_agent`.
* **`non_resumable` with no failure** (`NonResumableHasCause`). A follow-up cancelled
  before dispatch drops its lease before it restores `resumable`; a `send_input` in
  between is refused for good.
* **Ambiguous, though nothing was dispatched** (`AmbiguousWasDispatched`). A rejected
  call counts as a tool that ran when the turn is cancelled after it, and the
  session is closed.
* **A visible change nobody is told of** (`ChangesAreNotified`). If syncing the
  directory fails after the rename, the handler returns the error before it
  notifies.

Seen while modelling, and not checked by a run of their own:

* **More idle sessions than the limit** (`README.md:1690`, `runtime.rs:609`). A cleanup
  that meets a session used since it was listed skips it and takes no other, so several
  cleanups can leave more idle sessions than the limit.
* **No matches, and no notice** (`fs/mod.rs:737`). A search that reaches its limit of
  entries before it found anything answers "No matches found" without saying that it was
  cut short; `WalksMissNothing` exempts it.
* **A destination that must not exist** (`fs/mod.rs:699`). A move replaces a link that
  leads nowhere, and whatever came to the destination after the check;
  `MoveReplacesOnlyLatecomers` says that it replaces nothing else.
* **A child's task left running** (`child_mcp.rs:279`). When `tasks/get` is answered by an error, a
  JSON-RPC error over a live connection included, the turn gives the task up and does not cancel it,
  as it does after a timeout; the task runs until its own TTL. `AbandonedTaskIsCancelled` exempts it.
* **Directories of a failed call** (`fs/mod.rs:444`). `create_directory` that fails leaves the
  parents it made; `FileStore` allows it.
* **Exactly once** (`README.md:501`). Two occurrences that overlap count as one match.
* **A lost write** (`fs/mod.rs:389`). An edit writes back the text it read, without the
  write that came in between.

## 6. What is not modelled

The skills server and the discovery and parsing of agent files: each is one
sequential pass at the start over directories of the user's own, with bounds on depth
and count; nothing interleaves with it. One thing is worth a second look there:
directories already visited are skipped whatever the depth at which they were reached, so
that an agent reachable through a link may be missed where the first way to it was
the longer one (`README.md:1589`). The command line and progress reports keep no state
worth a model.

Left out of the modules: modes, times and sizes of files, media types and
diffs; Windows prefixes and the home directory in paths; relative targets of links;
other processes that change the directory tree while the server runs; the parsing
of URLs, the conversion of HTML, the matching of robots rules (its answer is free), and a page
whose content changes between two parts. Outside of the repository, and free or
left out: rmcp's protocol handling (its task manager appears as the cancels and drops it
delivers), HTTP, JSON, the texts of messages and errors, and the kernel's reuse of process
ids. Several memory servers of one file are beyond what the documentation
offers: the module allows them, `AlwaysLoads` holds for them, and the run uses one.

## 7. Plan

Done: all the components of section 1 but the skills server, discovery and the command
line; the proofs of section 4, with which every invariant, every action property and
every refinement of a run is a theorem. In order, next:

1. More about the operators that the theorems rest on: that a store which loads saves again
   (`GraphOps`), that the order of a listing is that of its names (`FileTree`), that a policy for
   children never allows what its servers' do not (`ChildPolicy`).
2. `Discovery`: the bounded walks of agents and skills over a tree with links, against the set of
   files within the depth.
3. Composition: the runtime with the turn's inside in place of `SettleTurn`; the memory
   server with two processes on one file and a weaker store.

---------------------------- MODULE ProviderTurn ----------------------------
(***************************************************************************)
(* One session's turns against the model provider and its child tools:     *)
(* run_turn in src/agents/runtime.rs, src/agents/provider.rs, and the call *)
(* and task polling of src/agents/child_mcp.rs.                            *)
(*                                                                         *)
(* A turn works on a clone of the retained conversation and writes it back *)
(* when it ends, whether it succeeded or not.  Inside a turn, the provider *)
(* is asked, the tool calls it answers with are run one by one, and the    *)
(* answer is committed together with the whole batch of results.  A        *)
(* conversation is a sequence of items: what they say is abstracted to the *)
(* turn whose message they hold and the ids of the calls they make or      *)
(* answer.                                                                 *)
(***************************************************************************)
EXTENDS Integers, SequencesExt

CONSTANTS
    MaxRuns,    \* bound: turns the client starts on the session
    MaxTurns,   \* AgentDefinition.max_turns: provider requests in one turn
    MaxCalls    \* bound: tool calls in one provider response

ASSUME TurnAssumption == MaxRuns \in Nat /\ MaxTurns \in Nat \ {0} /\ MaxCalls \in Nat

VARIABLES
    wire,           \* definition.wire_api
    conversation,   \* SessionData.conversation
    resumable,      \* SessionData.resumable
    candidate,      \* run_turn's clone of the conversation
    pc,             \* where the turn is; "idle" between turns
    runs,           \* turns started
    round,          \* iterations of the provider loop begun
    batch,          \* ids of the tool calls of the last provider response
    outputs,        \* ids of those that have a result
    cancelled,      \* the turn's CancellationToken
    issued,         \* tool calls the provider ever made; they are named 1, 2, ...
    dispatched,     \* calls sent to a child: the tool may have run
    child,          \* the task the child runs for the current call
    askedToStop,    \* tasks/cancel was sent for it
    result          \* how the last turn ended

vars == <<wire, conversation, resumable, candidate, pc, runs, round, batch, outputs,
          cancelled, issued, dispatched, child, askedToStop, result>>
session == <<conversation, resumable, runs>>
callVars == <<batch, outputs, issued, dispatched>>
childVars == <<child, askedToStop>>

PC == {"idle", "connect", "ask", "call", "rpc", "task", "stop"}
LiveTask == {"working", "input_required"}
Results == {"none", "completed", "startup_error", "run_interrupted", "provider_error",
            "closed", "ambiguous", "poll_error", "lost"}

MaxIssued == MaxRuns * MaxTurns * MaxCalls
Ids == 1..MaxIssued
Item == [role : {"user", "assistant", "tool"}, says : Seq(1..MaxRuns), calls : Seq(Ids)]

TypeOK ==
    /\ wire \in {"responses", "anthropic"}
    /\ conversation \in Seq(Item)
    /\ resumable \in BOOLEAN
    /\ candidate \in Seq(Item)
    /\ pc \in PC
    /\ runs \in 0..MaxRuns
    /\ round \in 0..MaxTurns
    /\ batch \in Seq(Ids)
    /\ outputs \in Seq(Ids)
    /\ cancelled \in BOOLEAN
    /\ issued \in 0..MaxIssued
    /\ dispatched \in SUBSET Ids
    /\ child \in {"none", "completed", "failed", "cancelled"} \cup LiveTask
    /\ askedToStop \in BOOLEAN
    /\ result \in Results

Init ==
    /\ wire \in {"responses", "anthropic"}
    /\ conversation = <<>>
    /\ resumable = FALSE
    /\ candidate = <<>>
    /\ pc = "idle"
    /\ runs = 0
    /\ round = 0
    /\ batch = <<>>
    /\ outputs = <<>>
    /\ cancelled = FALSE
    /\ issued = 0
    /\ dispatched = {}
    /\ child = "none"
    /\ askedToStop = FALSE
    /\ result = "none"

-----------------------------------------------------------------------------
(* The conversation *)

Says(t) == [role |-> "user", says |-> <<t>>, calls |-> <<>>]
Answers(calls) == [role |-> "assistant", says |-> <<>>, calls |-> calls]
\* All results of a batch: one user turn for Anthropic, outputs side by side otherwise.
Outcomes(calls) ==
    [role |-> IF wire = "anthropic" THEN "user" ELSE "tool", says |-> <<>>, calls |-> calls]

AppendAlways(history, t) == Append(history, Says(t))     \* mutant
OverwriteMessage(history, t) ==     \* mutant
    IF wire = "anthropic" /\ history # <<>> /\ Last(history).role = "user"
    THEN [history EXCEPT ![Len(history)].says = <<t>>]
    ELSE Append(history, Says(t))
\* append_anthropic_user_message: a trailing user item takes the new message.
AppendMessage(history, t) ==
    IF wire = "anthropic" /\ history # <<>> /\ Last(history).role = "user"
    THEN [history EXCEPT ![Len(history)].says = Append(@, t)]
    ELSE Append(history, Says(t))

CommitBare(history, calls, outs) == Append(history, Answers(calls))     \* mutant
\* commit_responses and commit_anthropic
Commit(history, calls, outs) ==
    Append(history, Answers(calls)) \o (IF outs = <<>> THEN <<>> ELSE <<Outcomes(outs)>>)

-----------------------------------------------------------------------------
(* run_turn *)

\* The reservation of the turn: the session is closed until the turn ends.
BeginTurn ==
    /\ pc = "idle"
    /\ runs < MaxRuns
    /\ runs = 0 \/ resumable
    /\ runs' = runs + 1
    /\ resumable' = FALSE
    /\ pc' = "connect"
    /\ round' = 0
    /\ batch' = <<>>
    /\ outputs' = <<>>
    /\ cancelled' = FALSE
    /\ child' = "none"
    /\ askedToStop' = FALSE
    /\ result' = "none"
    /\ UNCHANGED <<wire, conversation, candidate, issued, dispatched>>

\* tasks/cancel, or the deadline of the turn.
Cancel ==
    /\ pc # "idle"
    /\ ~cancelled
    /\ cancelled' = TRUE
    /\ UNCHANGED <<wire, session, candidate, pc, round, callVars, childVars, result>>

\* record_failure for child servers that did not start: the conversation is kept as it was.
ConnectFails ==
    /\ pc = "connect"
    /\ resumable' = TRUE
    /\ result' = IF cancelled THEN "run_interrupted" ELSE "startup_error"
    /\ pc' = "idle"
    /\ UNCHANGED <<wire, conversation, runs, candidate, round, callVars, cancelled, childVars>>

ConnectChildren ==
    /\ pc = "connect"
    /\ candidate' = AppendMessage(conversation, runs)
    /\ pc' = "ask"
    /\ UNCHANGED <<wire, session, round, callVars, cancelled, childVars, result>>

\* The end of run_turn: the clone becomes the conversation whatever the result.
Finish(history, open, how) ==
    /\ conversation' = history
    /\ resumable' = open
    /\ result' = how
    /\ pc' = "idle"
    /\ UNCHANGED <<wire, runs, issued, dispatched, batch, cancelled>>
\* ... when the turn stops with nothing more to commit.
Stop(open, how) == Finish(candidate, open, how) /\ UNCHANGED <<candidate, round, outputs>>

\* The task's future is dropped: the clone is lost and the session stays closed.
Abort ==
    /\ pc # "idle"
    /\ pc' = "idle"
    /\ result' = "lost"
    /\ UNCHANGED <<wire, session, candidate, round, callVars, cancelled, childVars>>

-----------------------------------------------------------------------------
(* run_responses and run_anthropic *)

RoundsLeftInclusive(r) == r <= MaxTurns     \* mutant
RoundsLeft(r) == r < MaxTurns

RoundsExhausted ==
    /\ pc = "ask"
    /\ ~RoundsLeft(round)
    /\ Stop(TRUE, "provider_error")
    /\ UNCHANGED childVars

\* post_json or the parsing of its answer fails: transiently, or for good (the
\* context limit, also of the request itself, and other HTTP errors).
PostFails ==
    /\ pc = "ask"
    /\ RoundsLeft(round)
    /\ \/ Stop(TRUE, "provider_error")
       \/ Stop(FALSE, "closed")
       \/ cancelled /\ Stop(TRUE, "run_interrupted")
    /\ UNCHANGED childVars

\* No tool call: text, an empty answer, or a stop reason that is an error.
ProviderAnswers ==
    /\ pc = "ask"
    /\ RoundsLeft(round)
    /\ LET history == Commit(candidate, <<>>, <<>>)
       IN  \/ Finish(history, TRUE, "completed")
           \/ Finish(history, TRUE, "provider_error")
           \/ wire = "anthropic" /\ Finish(history, FALSE, "closed")
    /\ UNCHANGED <<candidate, round, outputs, childVars>>

\* stop_reason "pause_turn": ask again.
ProviderPauses ==
    /\ pc = "ask"
    /\ RoundsLeft(round)
    /\ wire = "anthropic"
    /\ candidate' = Commit(candidate, <<>>, <<>>)
    /\ round' = round + 1
    /\ UNCHANGED <<wire, session, pc, callVars, cancelled, childVars, result>>

ProviderCalls ==
    /\ pc = "ask"
    /\ RoundsLeft(round)
    /\ \E n \in 1..MaxCalls :
          /\ batch' = [i \in 1..n |-> issued + i]
          /\ issued' = issued + n
    /\ outputs' = <<>>
    /\ round' = round + 1
    /\ pc' = "call"
    /\ UNCHANGED <<wire, session, candidate, cancelled, dispatched, childVars, result>>

-----------------------------------------------------------------------------
(* execute_calls: one call after the other *)

NextCall == batch[Len(outputs) + 1]
Answer(id) == outputs' = Append(outputs, id) /\ pc' = "call"

CommitBatch ==
    /\ pc = "call"
    /\ outputs = batch
    /\ candidate' = Commit(candidate, batch, outputs)
    /\ pc' = "ask"
    /\ UNCHANGED <<wire, session, round, callVars, cancelled, childVars, result>>

AlwaysClean(outs) == TRUE     \* mutant
\* Nothing of the batch ran yet: the history is where the provider left it.
NothingRan(outs) == outs = <<>>

CallsInterrupted ==
    /\ pc = "call"
    /\ outputs # batch
    /\ cancelled
    /\ IF NothingRan(outputs) THEN Stop(TRUE, "run_interrupted") ELSE Stop(FALSE, "ambiguous")
    /\ UNCHANGED childVars

\* An unknown tool or malformed arguments: answered as an error, never sent.
RejectCall ==
    /\ pc = "call"
    /\ outputs # batch
    /\ ~cancelled
    /\ Answer(NextCall)
    /\ UNCHANGED <<wire, session, candidate, round, batch, issued, dispatched,
                   cancelled, childVars, result>>

DispatchCall ==
    /\ pc = "call"
    /\ outputs # batch
    /\ ~cancelled
    /\ dispatched' = dispatched \cup {NextCall}
    /\ child' = "none"
    /\ askedToStop' = FALSE
    /\ pc' = "rpc"
    /\ UNCHANGED <<wire, session, candidate, round, batch, issued, outputs, cancelled, result>>

\* call_tool_once returns a result, or the handle of a task.
CallCompletes ==
    /\ pc = "rpc"
    /\ Answer(NextCall)
    /\ UNCHANGED <<wire, session, candidate, round, batch, issued, dispatched,
                   cancelled, childVars, result>>

CallBecomesTask ==
    /\ pc = "rpc"
    /\ child' = "working"
    /\ pc' = "task"
    /\ UNCHANGED <<wire, session, candidate, round, callVars, cancelled, askedToStop, result>>

\* Timed out, failed, InputRequired, or the turn was cancelled while it waited.
CallFails ==
    /\ pc = "rpc"
    /\ Stop(FALSE, "ambiguous")
    /\ UNCHANGED childVars

-----------------------------------------------------------------------------
(* wait_for_task_result, and the task at the child *)

ChildProceeds ==
    /\ child \in LiveTask
    /\ child' \in {"completed", "failed", "input_required"}
    /\ UNCHANGED <<wire, session, candidate, pc, round, callVars, cancelled, askedToStop, result>>

TaskCompletes ==
    /\ pc = "task"
    /\ child = "completed"
    /\ \/ Answer(NextCall) /\ UNCHANGED <<wire, session, candidate, round, batch, issued,
                                          dispatched, cancelled, result>>
       \/ Stop(FALSE, "ambiguous")     \* a result that does not parse
    /\ UNCHANGED childVars

TaskFails ==
    /\ pc = "task"
    /\ child \in {"failed", "cancelled"}
    /\ Stop(FALSE, "ambiguous")
    /\ UNCHANGED childVars

\* tasks/get answers an error, of the connection or of the child: no tasks/cancel follows.
PollFails ==
    /\ pc = "task"
    /\ Stop(FALSE, "poll_error")
    /\ UNCHANGED childVars

\* tasks/get is not answered in time: the task is cancelled first.
PollTimesOut ==
    /\ pc = "task"
    /\ pc' = "stop"
    /\ UNCHANGED <<wire, session, candidate, round, callVars, cancelled, childVars, result>>

AbandonSilently ==     \* mutant
    /\ pc = "task"
    /\ cancelled \/ child = "input_required"
    /\ Stop(FALSE, "ambiguous")
    /\ UNCHANGED childVars
AbandonDeaf ==     \* mutant: the wait for a task does not listen to the token
    /\ pc = "task"
    /\ child = "input_required"
    /\ pc' = "stop"
    /\ UNCHANGED <<wire, session, candidate, round, callVars, cancelled, childVars, result>>
\* The turn was cancelled, or the task wants input.
AbandonTask ==
    /\ pc = "task"
    /\ cancelled \/ child = "input_required"
    /\ pc' = "stop"
    /\ UNCHANGED <<wire, session, candidate, round, callVars, cancelled, childVars, result>>

\* cancel_child_task is best effort: the child may or may not hear it.
CancelChildTask ==
    /\ pc = "stop"
    /\ child' \in {child} \cup (IF child \in LiveTask THEN {"cancelled"} ELSE {})
    /\ askedToStop' = TRUE
    /\ Stop(FALSE, "ambiguous")

-----------------------------------------------------------------------------

Provide == RoundsExhausted \/ PostFails \/ ProviderAnswers \/ ProviderPauses \/ ProviderCalls
ExecuteCalls ==
    \/ CommitBatch \/ CallsInterrupted \/ RejectCall \/ DispatchCall
    \/ CallCompletes \/ CallBecomesTask \/ CallFails
AwaitTask == TaskCompletes \/ TaskFails \/ AbandonTask \/ CancelChildTask
Turn == ConnectFails \/ ConnectChildren \/ Provide \/ ExecuteCalls \/ AwaitTask

\* The client starts no more turns, or may not.
Rest == pc = "idle" /\ (runs = MaxRuns \/ (runs > 0 /\ ~resumable)) /\ UNCHANGED vars

Next ==
    \/ BeginTurn \/ Cancel \/ Abort \/ Turn
    \/ PollFails \/ PollTimesOut \/ ChildProceeds \/ Rest

Spec == Init /\ [][Next]_vars

\* Requests have timeouts, so a turn never waits for ever on one of them, and the deadline
\* cancels a turn that is too long.  Nothing is assumed of a child: it may work for ever and
\* answer every poll, so a turn that waits for it ends because it listens to the token.
Fairness == WF_vars(Turn) /\ WF_vars(Cancel)
FairSpec == Spec /\ Fairness

-----------------------------------------------------------------------------
(* Properties *)

\* Whatever the provider is sent again can be replayed: each item with tool calls
\* is followed at once by the results of exactly those calls, in their order, and
\* results stand nowhere else (the comment on commit_responses).
Replays(history) ==
    \A i \in DOMAIN history :
        /\ history[i].role = "assistant" /\ history[i].calls # <<>> =>
              /\ i < Len(history)
              /\ history[i + 1].role # "assistant"
              /\ history[i + 1].calls = history[i].calls
        /\ history[i].role # "assistant" /\ history[i].calls # <<>> =>
              i > 1 /\ history[i - 1] = Answers(history[i].calls)
HistoryReplays == Replays(conversation) /\ Replays(candidate)

\* The Messages wire format has one user turn at a time: a message that follows a
\* turn which failed, or a batch of results, never opens a second one.
OneUserTurn ==
    wire = "anthropic" =>
        \A history \in {conversation, candidate} : \A i \in 1..Len(history) - 1 :
            ~(history[i].role = "user" /\ history[i + 1].role = "user")

\* A session that can be resumed knows every tool that may have run: each call
\* sent to a child, in any turn, has its result in the retained conversation.
Recorded(history) ==
    UNION {Range(history[i].calls) :
           i \in {j \in DOMAIN history : history[j].role # "assistant"}}
ResumableKnowsAll == resumable => dispatched \subseteq Recorded(conversation)

\* What was retained stays retained: a turn may only extend the conversation.
ConversationGrows ==
    [][/\ Len(conversation') >= Len(conversation)
       /\ \A i \in 1..Len(conversation) :
             /\ conversation'[i].role = conversation[i].role
             /\ conversation'[i].calls = conversation[i].calls
             /\ IsPrefix(conversation[i].says, conversation'[i].says)]_vars

\* A child's task whose handle the turn received, and which it walks away from, was
\* asked to stop, unless a poll was answered by an error or the turn itself was dropped.
AbandonedTaskIsCancelled ==
    pc = "idle" /\ child \in LiveTask => askedToStop \/ result \in {"poll_error", "lost"}

\* Every turn ends: the provider loop is bounded and no wait is for ever.
TurnEnds == pc # "idle" ~> pc = "idle"

-----------------------------------------------------------------------------
(* What the documentation says, and the code does not keep *)

\* src/agents/provider.rs:96, the text of ambiguous_tool_execution: "a child MCP tool
\* call was dispatched but its outcome is unknown".
AmbiguousWasDispatched ==
    pc = "idle" /\ result = "ambiguous" => Range(batch) \cap dispatched # {}
=============================================================================

---------------------------- MODULE ShellCommand ----------------------------
(***************************************************************************)
(* One execute_command task: run_command of src/shell/mod.rs, the guard of *)
(* its process group, the tasks that drain its streams (src/shell/drain.rs) *)
(* and the processes it starts, which fork, leave the group, close their   *)
(* streams and exit as they please.  Commands share nothing, so one of     *)
(* them is all there is.  Bytes are left out: a stream is who can still    *)
(* write to it.                                                            *)
(***************************************************************************)
EXTENDS FiniteSets

CONSTANTS
    Leader,     \* the spawned child, leader of its process group
    Kids,       \* bound: the other processes that ever run
    Streams     \* stdout and stderr

ASSUME LeaderAssumption == Leader \notin Kids

VARIABLES
    pc,         \* where run_command is
    cancelReq,  \* tasks/cancel was received
    alive,      \* processes that run
    group,      \* processes started in, and not moved out of, the process group
    writers,    \* processes started with a stream open that did not close it
    guard,      \* the ProcessGuard
    drain,      \* the drain_limited task of each stream
    collected,  \* what collect_stream made of it
    ending,     \* how the wait for the child ended
    result      \* how the task ended

vars == <<pc, cancelReq, alive, group, writers, guard, drain, collected, ending, result>>
processes == <<alive, group, writers>>
streams == <<drain, collected>>

Procs == {Leader} \cup Kids
Endings == {"none", "exited", "wait_error", "timed_out", "cancelled"}

TypeOK ==
    /\ pc \in {"start", "resolve", "running", "kill", "collect", "done"}
    /\ cancelReq \in BOOLEAN
    /\ alive \in SUBSET Procs
    /\ group \in SUBSET Procs
    /\ writers \in [Streams -> SUBSET Procs]
    /\ guard \in {"none", "armed", "disarmed"}
    /\ drain \in [Streams -> {"none", "reading", "eof", "failed", "aborted"}]
    /\ collected \in [Streams -> {"none", "ok", "failed"}]
    /\ ending \in Endings
    /\ result \in {"none", "output", "error", "cancelled", "aborted"}

Init ==
    /\ pc = "start"
    /\ cancelReq = FALSE
    /\ alive = {}
    /\ group = {}
    /\ writers = [s \in Streams |-> {}]
    /\ guard = "none"
    /\ drain = [s \in Streams |-> "none"]
    /\ collected = [s \in Streams |-> "none"]
    /\ ending = "none"
    /\ result = "none"

-----------------------------------------------------------------------------
(* Helpers *)

Spawned == guard # "none"
HeldOpen(s) == writers[s] \cap alive # {}

TerminateLeaderOnly == alive \ {Leader}     \* mutant: the child instead of its group
\* killpg with SIGKILL, as long as the guard is armed.
Terminate == IF guard = "armed" THEN alive \ group ELSE alive

End(how) == pc' = "done" /\ result' = how

-----------------------------------------------------------------------------
(* run_command *)

Start ==
    /\ pc = "start"
    /\ IF cancelReq THEN End("cancelled") ELSE pc' = "resolve" /\ UNCHANGED result
    /\ UNCHANGED <<cancelReq, processes, guard, streams, ending>>

\* The working directory is not allowed, or the program cannot be spawned.
SpawnFails ==
    /\ pc = "resolve"
    /\ End("error")
    /\ UNCHANGED <<cancelReq, processes, guard, streams, ending>>

Spawn ==
    /\ pc = "resolve"
    /\ alive' = {Leader}
    /\ group' = {Leader}
    /\ writers' = [s \in Streams |-> {Leader}]
    /\ guard' = "armed"
    /\ drain' = [s \in Streams |-> "reading"]
    /\ pc' = "running"
    /\ UNCHANGED <<cancelReq, collected, ending, result>>

\* The select: the child exited, or ...
Exited ==
    /\ pc = "running"
    /\ Leader \notin alive
    /\ ending' = "exited"
    /\ pc' = "collect"
    /\ UNCHANGED <<cancelReq, processes, guard, streams, result>>

\* ... the wait failed, the time is over or a cancel came: the group is killed ...
Interrupt ==
    /\ pc = "running"
    /\ ending' \in {"wait_error", "timed_out"} \cup (IF cancelReq THEN {"cancelled"} ELSE {})
    /\ alive' = Terminate
    /\ pc' = "kill"
    /\ UNCHANGED <<cancelReq, group, writers, guard, streams, result>>

\* ... and then the child, which may have left its group.
TerminateChild ==
    /\ pc = "kill"
    /\ alive' = alive \ {Leader}
    /\ pc' = "collect"
    /\ UNCHANGED <<cancelReq, group, writers, guard, streams, ending, result>>

CollectStream(s) ==
    /\ pc = "collect"
    /\ collected[s] = "none"
    /\ drain[s] \in {"eof", "failed"}
    /\ collected' = [collected EXCEPT ![s] = IF drain[s] = "eof" THEN "ok" ELSE "failed"]
    /\ UNCHANGED <<pc, cancelReq, processes, guard, drain, ending, result>>

LeaveReading(s) ==     \* mutant: the drain task is not aborted
    /\ pc = "collect"
    /\ collected[s] = "none"
    /\ drain[s] = "reading"
    /\ collected' = [collected EXCEPT ![s] = "failed"]
    /\ UNCHANGED <<pc, cancelReq, processes, guard, drain, ending, result>>
TakePartial(s) ==     \* mutant: what was read so far is the output
    /\ pc = "collect"
    /\ collected[s] = "none"
    /\ drain[s] = "reading"
    /\ collected' = [collected EXCEPT ![s] = "ok"]
    /\ drain' = [drain EXCEPT ![s] = "aborted"]
    /\ UNCHANGED <<pc, cancelReq, processes, guard, ending, result>>
WaitForEof(s) == FALSE     \* mutant: no grace period
\* The grace period is over: somebody keeps the stream open.
CollectTimesOut(s) ==
    /\ pc = "collect"
    /\ collected[s] = "none"
    /\ drain[s] = "reading"
    /\ collected' = [collected EXCEPT ![s] = "failed"]
    /\ drain' = [drain EXCEPT ![s] = "aborted"]
    /\ UNCHANGED <<pc, cancelReq, processes, guard, ending, result>>

\* Both streams are collected: a stream that failed costs the group its life, the
\* guard goes, and the result is made.  A result over the size limit is an error.
Finish ==
    /\ pc = "collect"
    /\ \A s \in Streams : collected[s] # "none"
    /\ LET broken == \E s \in Streams : collected[s] = "failed"
       IN  /\ alive' = IF broken THEN Terminate ELSE alive
           /\ IF ending = "cancelled" THEN End("cancelled")
              ELSE IF ending = "wait_error" \/ broken THEN End("error")
              ELSE \E how \in {"output", "error"} : End(how)
    /\ guard' = "disarmed"
    /\ UNCHANGED <<cancelReq, group, writers, streams, ending>>

\* The future is dropped at an await, by the task's TTL or by tasks.shutdown(): the
\* guard kills the group, the child dies as it is dropped (kill_on_drop), and the
\* drain tasks go on by themselves.
Abort ==
    /\ pc # "done"
    /\ End("aborted")
    /\ alive' = Terminate \ {Leader}
    /\ UNCHANGED <<cancelReq, group, writers, guard, streams, ending>>

RequestCancel ==
    /\ pc # "done"
    /\ ~cancelReq
    /\ cancelReq' = TRUE
    /\ UNCHANGED <<pc, processes, guard, streams, ending, result>>

-----------------------------------------------------------------------------
(* drain_limited reads a stream to its end, whatever it retains of it *)

ReadPastEnd(s) == FALSE     \* mutant: a read of nothing does not end the loop
DrainEof(s) ==
    /\ drain[s] = "reading"
    /\ ~HeldOpen(s)
    /\ drain' = [drain EXCEPT ![s] = "eof"]
    /\ UNCHANGED <<pc, cancelReq, processes, guard, collected, ending, result>>

DrainFails(s) ==
    /\ drain[s] = "reading"
    /\ drain' = [drain EXCEPT ![s] = "failed"]
    /\ UNCHANGED <<pc, cancelReq, processes, guard, collected, ending, result>>

-----------------------------------------------------------------------------
(* The processes: a kid starts with the group and the streams of its parent; the  *)
(* name of one that left no trace may be taken again.                             *)

Fork(p, k) ==
    /\ p \in alive
    /\ \A s \in Streams : k \notin writers[s]
    /\ k \notin alive \cup group
    /\ alive' = alive \cup {k}
    /\ group' = IF p \in group THEN group \cup {k} ELSE group
    /\ writers' = [s \in Streams |-> IF p \in writers[s] THEN writers[s] \cup {k} ELSE writers[s]]
    /\ UNCHANGED <<pc, cancelReq, guard, streams, ending, result>>

LeaveGroup(p) ==
    /\ p \in alive \cap group
    /\ group' = group \ {p}
    /\ UNCHANGED <<pc, cancelReq, alive, writers, guard, streams, ending, result>>

CloseStream(p, s) ==
    /\ p \in alive \cap writers[s]
    /\ writers' = [writers EXCEPT ![s] = @ \ {p}]
    /\ UNCHANGED <<pc, cancelReq, alive, group, guard, streams, ending, result>>

Exit(p) ==
    /\ p \in alive
    /\ alive' = alive \ {p}
    /\ UNCHANGED <<pc, cancelReq, group, writers, guard, streams, ending, result>>

-----------------------------------------------------------------------------

RunCommand ==
    \/ Start \/ SpawnFails \/ Spawn \/ Exited \/ Interrupt \/ TerminateChild
    \/ (\E s \in Streams : CollectStream(s) \/ CollectTimesOut(s)) \/ Finish
Drain(s) == DrainEof(s) \/ DrainFails(s)
Process(p) ==
    \/ (\E k \in Kids : Fork(p, k)) \/ LeaveGroup(p) \/ Exit(p)
    \/ \E s \in Streams : CloseStream(p, s)

\* Nothing is left that could act.
Over == pc = "done" /\ alive = {} /\ (\A s \in Streams : drain[s] # "reading") /\ UNCHANGED vars

Next ==
    \/ RunCommand \/ Abort \/ RequestCancel
    \/ (\E s \in Streams : Drain(s)) \/ (\E p \in Procs : Process(p)) \/ Over

Spec == Init /\ [][Next]_vars

\* Tokio runs its tasks and fires its timers, and the kernel ends a wait for a killed
\* child.  Nothing is assumed of the processes themselves.
Fairness == WF_vars(RunCommand) /\ \A s \in Streams : WF_vars(DrainEof(s))
FairSpec == Spec /\ Fairness

-----------------------------------------------------------------------------
(* Properties *)

\* A command that did not run to its own end, because of a timeout, a cancel, an
\* error or the end of its task, leaves no process of its group behind, nor the
\* child itself, whatever they forked meanwhile.
EndedByForce == result \in {"cancelled", "aborted", "error"} \/ ending = "timed_out"
OverSize == result = "error" /\ ending = "exited" /\ \A s \in Streams : collected[s] = "ok"
NothingLeftRunning ==
    pc = "done" => /\ Leader \notin alive
                   /\ EndedByForce /\ ~OverSize => alive \cap group = {}

\* A result with output is the whole output: nobody is left who could have written
\* more, so the truncation flags say all that is missing.
OutputIsComplete == result = "output" => \A s \in Streams : ~HeldOpen(s)

\* No reader task outlives the command it reads for, unless its task was dropped ...
NoReaderLeft == pc = "done" /\ result # "aborted" => \A s \in Streams : drain[s] # "reading"

\* ... and then it ends by itself, unless a process that left the group keeps writing.
DetachedReaderEnds ==
    \A s \in Streams : (pc = "done" /\ drain[s] = "reading") ~> (drain[s] # "reading" \/ HeldOpen(s))

\* The task ends, even when a descendant keeps the streams open for ever.
CommandEnds == pc = "start" ~> pc = "done"
=============================================================================

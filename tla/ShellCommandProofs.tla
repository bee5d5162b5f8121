------------------------- MODULE ShellCommandProofs -------------------------
(***************************************************************************)
(* The safety of ShellCommand, for any number of processes and streams.    *)
(***************************************************************************)
EXTENDS ShellCommand, TLAPS

GroupIsDead == alive \cap group = {}

\* Before the child is spawned there is nothing.
NothingYet ==
    pc \in {"start", "resolve"} =>
        /\ guard = "none" /\ alive = {} /\ ending = "none"
        /\ \A s \in Streams : drain[s] = "none" /\ collected[s] = "none" /\ writers[s] = {}

\* While there is something to kill the guard is armed.
GuardIsArmed == pc \in {"running", "kill", "collect"} => guard = "armed"

\* Killed means killed: a process outside of the group brings none into it.
KilledForGood ==
    /\ pc = "kill" => ending \in {"wait_error", "timed_out", "cancelled"} /\ GroupIsDead
    /\ pc = "collect" => /\ Leader \notin alive
                         /\ ending # "exited" => GroupIsDead
    /\ pc = "running" => ending = "none"

\* A stream that came to its end has no writer, and gets none any more.
EndIsFinal == \A s \in Streams : drain[s] = "eof" => ~HeldOpen(s)

\* What was collected is no longer being read.
CollectedIsRead ==
    \A s \in Streams :
        /\ collected[s] = "ok" => drain[s] = "eof"
        /\ collected[s] = "failed" => drain[s] \in {"failed", "aborted"}

Ended ==
    /\ (result # "none") = (pc = "done")
    /\ result = "output" => \A s \in Streams : collected[s] = "ok"

IInv ==
    /\ TypeOK
    /\ NothingYet /\ GuardIsArmed /\ KilledForGood /\ EndIsFinal /\ CollectedIsRead /\ Ended
    /\ NothingLeftRunning /\ NoReaderLeft

USE LeaderAssumption

LEMMA InitHolds == Init => IInv
BY DEF Init, IInv, TypeOK, Procs, Endings, NothingYet, GuardIsArmed, KilledForGood, EndIsFinal,
       HeldOpen, CollectedIsRead, Ended, NothingLeftRunning, NoReaderLeft

-----------------------------------------------------------------------------
(* The steps of run_command *)

LEMMA TerminateKills ==
    ASSUME IInv, pc \in {"running", "kill", "collect"}
    PROVE  Terminate = alive \ group
BY DEF IInv, GuardIsArmed, Terminate

LEMMA EarlyStepsKeep == IInv /\ (Start \/ SpawnFails \/ RequestCancel) => IInv'
<1> SUFFICES ASSUME IInv, Start \/ SpawnFails \/ RequestCancel PROVE IInv'
  OBVIOUS
<1>1. /\ UNCHANGED <<processes, guard, streams, ending>>
      /\ \/ UNCHANGED <<pc, result>>
         \/ pc \in {"start", "resolve"} /\ pc' = "resolve" /\ UNCHANGED result
         \/ pc \in {"start", "resolve"} /\ pc' = "done" /\ result' \in {"error", "cancelled"}
  BY DEF Start, SpawnFails, RequestCancel, End
<1>2. TypeOK'
  BY DEF IInv, TypeOK, Start, SpawnFails, RequestCancel, End, processes, streams
<1>3. (NothingYet /\ GuardIsArmed /\ KilledForGood /\ EndIsFinal /\ CollectedIsRead /\ Ended)'
  BY <1>1 DEF IInv, NothingYet, GuardIsArmed, KilledForGood, GroupIsDead, EndIsFinal, HeldOpen,
              CollectedIsRead, Ended, processes, streams
<1>4. (NothingLeftRunning /\ NoReaderLeft)'
  BY <1>1 DEF IInv, NothingYet, NothingLeftRunning, EndedByForce, OverSize, NoReaderLeft,
              processes, streams
<1> QED
  BY <1>2, <1>3, <1>4 DEF IInv

LEMMA SpawnKeeps == IInv /\ Spawn => IInv'
<1> SUFFICES ASSUME IInv, Spawn PROVE IInv'
  OBVIOUS
<1>1. TypeOK'
  BY DEF IInv, TypeOK, Spawn, Procs
<1> QED
  BY <1>1 DEF IInv, TypeOK, Spawn, NothingYet, GuardIsArmed, KilledForGood, EndIsFinal,
              CollectedIsRead, Ended, NothingLeftRunning, NoReaderLeft

LEMMA WaitKeeps == IInv /\ (Exited \/ Interrupt \/ TerminateChild) => IInv'
<1> SUFFICES ASSUME IInv, Exited \/ Interrupt \/ TerminateChild PROVE IInv'
  OBVIOUS
<1>1. /\ UNCHANGED <<cancelReq, group, writers, guard, streams, result>>
      /\ alive' \subseteq alive
      /\ pc \in {"running", "kill"} /\ pc' \in {"kill", "collect"}
  BY TerminateKills DEF Exited, Interrupt, TerminateChild, processes
<1>2. TypeOK'
  BY <1>1 DEF IInv, TypeOK, Exited, Interrupt, TerminateChild, Endings, streams
<1>3. KilledForGood'
  BY <1>1, TerminateKills DEF IInv, KilledForGood, GroupIsDead, Exited, Interrupt, TerminateChild,
              processes
<1>4. (EndIsFinal /\ CollectedIsRead)'
  BY <1>1 DEF IInv, EndIsFinal, HeldOpen, CollectedIsRead, streams
<1> QED
  BY <1>1, <1>2, <1>3, <1>4 DEF IInv, NothingYet, GuardIsArmed, Ended, NothingLeftRunning, NoReaderLeft

LEMMA CollectKeeps ==
    ASSUME NEW s \in Streams
    PROVE  IInv /\ (CollectStream(s) \/ CollectTimesOut(s)) => IInv'
<1> SUFFICES ASSUME IInv, CollectStream(s) \/ CollectTimesOut(s) PROVE IInv'
  OBVIOUS
<1>1. /\ UNCHANGED <<pc, cancelReq, processes, guard, ending, result>> /\ pc = "collect"
      /\ collected[s] = "none"
      /\ \/ /\ drain[s] = "eof" /\ drain' = drain
            /\ collected' = [collected EXCEPT ![s] = "ok"]
         \/ /\ drain[s] = "failed" /\ drain' = drain
            /\ collected' = [collected EXCEPT ![s] = "failed"]
         \/ /\ drain' = [drain EXCEPT ![s] = "aborted"]
            /\ collected' = [collected EXCEPT ![s] = "failed"]
  BY DEF CollectStream, CollectTimesOut
<1>2. TypeOK'
  BY <1>1 DEF IInv, TypeOK, processes
<1>3. (EndIsFinal /\ CollectedIsRead)'
  BY <1>1 DEF IInv, TypeOK, EndIsFinal, HeldOpen, CollectedIsRead, processes
<1>4. (KilledForGood /\ Ended)'
  BY <1>1 DEF IInv, KilledForGood, GroupIsDead, Ended, processes
<1> QED
  BY <1>1, <1>2, <1>3, <1>4 DEF IInv, NothingYet, GuardIsArmed, NothingLeftRunning, NoReaderLeft

LEMMA FinishKeeps == IInv /\ Finish => IInv'
<1> SUFFICES ASSUME IInv, Finish PROVE IInv'
  OBVIOUS
<1> DEFINE broken == \E s \in Streams : collected[s] = "failed"
<1>1. /\ UNCHANGED <<cancelReq, group, writers, streams, ending>>
      /\ pc = "collect" /\ pc' = "done" /\ guard' = "disarmed"
      /\ \A s \in Streams : collected[s] # "none"
      /\ alive' \subseteq alive
      /\ broken => alive' = alive \ group
      /\ result' \in {"cancelled", "error", "output"}
      /\ result' = "cancelled" <=> ending = "cancelled"
      /\ result' = "output" => ~broken
  BY TerminateKills DEF Finish, End
<1>2. TypeOK'
  BY <1>1 DEF IInv, TypeOK, streams
<1>3. (EndIsFinal /\ CollectedIsRead)'
  BY <1>1 DEF IInv, EndIsFinal, HeldOpen, CollectedIsRead, streams
<1>4. Ended'
  BY <1>1 DEF IInv, TypeOK, Ended, streams
<1>5. NoReaderLeft'
  BY <1>1 DEF IInv, TypeOK, CollectedIsRead, NoReaderLeft, streams
<1>6. NothingLeftRunning'
  <2>1. Leader \notin alive' /\ (ending # "exited" => GroupIsDead')
    BY <1>1 DEF IInv, KilledForGood, GroupIsDead
  <2>2. CASE broken
    BY <1>1, <2>1, <2>2 DEF NothingLeftRunning
  <2>3. CASE ~broken
    <3>1. \A s \in Streams : collected'[s] = "ok"
      BY <1>1, <2>3 DEF IInv, TypeOK, streams
    <3> QED
      BY <1>1, <2>1, <3>1 DEF NothingLeftRunning, EndedByForce, OverSize, GroupIsDead, IInv, TypeOK, Endings
  <2> QED
    BY <2>2, <2>3
<1> QED
  BY <1>1, <1>2, <1>3, <1>4, <1>5, <1>6 DEF IInv, NothingYet, GuardIsArmed, KilledForGood

LEMMA AbortKeeps == IInv /\ Abort => IInv'
<1> SUFFICES ASSUME IInv, Abort PROVE IInv'
  OBVIOUS
<1>1. /\ UNCHANGED <<cancelReq, group, writers, guard, streams, ending>>
      /\ pc # "done" /\ pc' = "done" /\ result' = "aborted"
      /\ alive' \subseteq alive /\ Leader \notin alive' /\ alive' \cap group = {}
  BY DEF Abort, End, Terminate, IInv, TypeOK, NothingYet, GuardIsArmed
<1>2. TypeOK'
  BY <1>1 DEF IInv, TypeOK, streams
<1>3. (EndIsFinal /\ CollectedIsRead)'
  BY <1>1 DEF IInv, EndIsFinal, HeldOpen, CollectedIsRead, streams
<1> QED
  BY <1>1, <1>2, <1>3 DEF IInv, NothingYet, GuardIsArmed, KilledForGood, Ended, NothingLeftRunning, NoReaderLeft

-----------------------------------------------------------------------------
(* The steps of the drain tasks and of the processes *)

LEMMA DrainKeeps == ASSUME NEW s \in Streams PROVE IInv /\ Drain(s) => IInv'
<1> SUFFICES ASSUME IInv, Drain(s) PROVE IInv'
  OBVIOUS
<1>1. /\ UNCHANGED <<pc, cancelReq, processes, guard, collected, ending, result>>
      /\ drain[s] = "reading"
      /\ \/ ~HeldOpen(s) /\ drain' = [drain EXCEPT ![s] = "eof"]
         \/ drain' = [drain EXCEPT ![s] = "failed"]
  BY DEF Drain, DrainEof, DrainFails
<1>2. TypeOK'
  BY <1>1 DEF IInv, TypeOK, processes
<1>3. (EndIsFinal /\ CollectedIsRead /\ NothingYet /\ NoReaderLeft)'
  BY <1>1 DEF IInv, TypeOK, EndIsFinal, HeldOpen, CollectedIsRead, NothingYet, NoReaderLeft, processes
<1> QED
  BY <1>1, <1>2, <1>3 DEF IInv, GuardIsArmed, KilledForGood, GroupIsDead, Ended, NothingLeftRunning,
              EndedByForce, OverSize, processes

\* What the other parts of the invariant say about the processes.
LEMMA ProcessesKeep ==
    ASSUME IInv, TypeOK', UNCHANGED <<pc, cancelReq, guard, streams, ending, result>>,
           alive = {} => UNCHANGED processes,
           Leader \notin alive => Leader \notin alive',
           GroupIsDead => GroupIsDead',
           \A s \in Streams : ~HeldOpen(s) => ~HeldOpen(s)'
    PROVE  IInv'
<1>1. (EndIsFinal /\ CollectedIsRead)'
  BY DEF IInv, EndIsFinal, CollectedIsRead, streams
<1>2. (NothingYet /\ KilledForGood /\ GuardIsArmed /\ Ended)'
  BY DEF IInv, NothingYet, KilledForGood, GuardIsArmed, Ended, streams, processes
<1>3. (NothingLeftRunning /\ NoReaderLeft)'
  BY DEF IInv, NothingLeftRunning, EndedByForce, OverSize, NoReaderLeft, GroupIsDead, streams
<1> QED
  BY <1>1, <1>2, <1>3 DEF IInv

LEMMA ProcessKeeps == ASSUME NEW p \in Procs PROVE IInv /\ Process(p) => IInv'
<1> SUFFICES ASSUME IInv, Process(p) PROVE IInv'
  OBVIOUS
<1>1. ASSUME NEW k \in Kids, Fork(p, k) PROVE IInv'
  <2>1. TypeOK'
    BY <1>1 DEF Fork, IInv, TypeOK, Procs, streams
  <2>2. \A s \in Streams : ~HeldOpen(s) => ~HeldOpen(s)'
    BY <1>1 DEF Fork, HeldOpen
  <2>3. GroupIsDead => GroupIsDead'
    BY <1>1 DEF Fork, GroupIsDead
  <2> QED
    BY <1>1, <2>1, <2>2, <2>3, ProcessesKeep DEF Fork
<1>2. ASSUME LeaveGroup(p) \/ Exit(p) PROVE IInv'
  <2>1. TypeOK'
    BY <1>2 DEF LeaveGroup, Exit, IInv, TypeOK, streams
  <2> QED
    BY <1>2, <2>1, ProcessesKeep DEF LeaveGroup, Exit, GroupIsDead, HeldOpen
<1>3. ASSUME NEW s \in Streams, CloseStream(p, s) PROVE IInv'
  <2>1. TypeOK'
    BY <1>3 DEF CloseStream, IInv, TypeOK, streams
  <2>2. \A t \in Streams : ~HeldOpen(t) => ~HeldOpen(t)'
    BY <1>3 DEF CloseStream, IInv, TypeOK, HeldOpen
  <2> QED
    BY <1>3, <2>1, <2>2, ProcessesKeep DEF CloseStream, GroupIsDead
<1> QED
  BY <1>1, <1>2, <1>3 DEF Process

-----------------------------------------------------------------------------

\* The inductive invariant, in every reachable state.
THEOREM ShellInvariant == Spec => []IInv
<1>1. IInv /\ [Next]_vars => IInv'
  <2> SUFFICES ASSUME IInv, [Next]_vars PROVE IInv'
    OBVIOUS
  <2>1. CASE RunCommand
    BY <2>1, EarlyStepsKeep, SpawnKeeps, WaitKeeps, CollectKeeps, FinishKeeps DEF RunCommand
  <2>2. CASE UNCHANGED vars
    <3>1. TypeOK'
      BY <2>2 DEF IInv, TypeOK, vars
    <3> QED
      BY <2>2, <3>1, ProcessesKeep DEF vars, streams, processes, GroupIsDead, HeldOpen
  <2> QED
    BY <2>1, <2>2, AbortKeeps, EarlyStepsKeep, DrainKeeps, ProcessKeeps DEF Next, Over
<1> QED
  BY <1>1, InitHolds, PTL DEF Spec

\* A command that was ended by force leaves nothing of its group behind, however
\* many processes it forked while it was being killed.
THEOREM ForceLeavesNothing == Spec => []NothingLeftRunning
<1>1. IInv => NothingLeftRunning
  BY DEF IInv
<1> QED
  BY <1>1, ShellInvariant, PTL

\* A result with output is never a part of the output.
THEOREM OutputIsWhole == Spec => []OutputIsComplete
<1>1. IInv => OutputIsComplete
  BY DEF IInv, Ended, CollectedIsRead, EndIsFinal, OutputIsComplete
<1> QED
  BY <1>1, ShellInvariant, PTL

\* The drain tasks end with their command, unless it was dropped.
THEOREM ReadersEnd == Spec => []NoReaderLeft
<1>1. IInv => NoReaderLeft
  BY DEF IInv
<1> QED
  BY <1>1, ShellInvariant, PTL
=============================================================================

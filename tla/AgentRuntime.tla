---------------------------- MODULE AgentRuntime ----------------------------
(***************************************************************************)
(* Agent sessions and their turns: src/agents/runtime.rs.                  *)
(*                                                                         *)
(* A call is one spawn_agent or send_input request together with the task  *)
(* that runs the turn it prepared.  A session is named after the call that *)
(* spawned it (the code names it with a fresh UUID), so a call is the      *)
(* initial turn of its session exactly when its target is itself.          *)
(*                                                                         *)
(* Every critical section of the code is one action and every await point  *)
(* between two of them is a place where the other calls may step.  The     *)
(* session map's mutex is held across an await in one place only, between  *)
(* EvictCheck and EvictCommit, so the map is locked exactly while some     *)
(* call is at "commit".  A session's data mutex is never held across an    *)
(* await and needs no variable.                                            *)
(***************************************************************************)
EXTENDS Integers, FiniteSets

CONSTANTS
    Calls,      \* the requests the client ever makes
    Capacity,   \* RUNTIME_CAPACITY
    MaxIdle     \* MAX_RETAINED_IDLE_SESSIONS

ASSUME RuntimeAssumption ==
    /\ IsFiniteSet(Calls)
    /\ Capacity \in Nat
    /\ MaxIdle \in Nat

VARIABLES
    retained,   \* Inner.sessions: the ids in the session map
    busy,       \* Session.busy
    resumable,  \* SessionData.resumable
    accessed,   \* SessionData.last_accessed_at
    clock,      \* Instant::now(), taken to advance between any two readings
    permits,    \* permits left in Inner.capacity
    pc,         \* where each call is
    target,     \* the session each call's turn is for
    outcome,    \* the rejection or the TurnOutcome of each call
    cancelReq,  \* calls whose task was asked to cancel, until the turn answers it
    sweep       \* locals of each call's cleanup_idle_sessions

vars == <<retained, busy, resumable, accessed, clock, permits, pc, target,
          outcome, cancelReq, sweep>>
sessionVars == <<busy, resumable, accessed, clock>>

Rejections == {"capacity_exceeded", "unknown_agent", "agent_busy", "non_resumable"}
Settled == {"completed", "failed_open", "failed_closed", "no_credential", "cancelled"}
Aborted == {"lost", "aborted"}   \* the task's future was dropped mid-turn / after it settled

PC == {"new", "snapshot", "probe", "read", "evict", "commit", "create", "insert",
       "lookup", "claim", "permit", "reserve", "task", "undo", "running", "settled", "unlink", "done"}

Entry == [id : Calls, at : Nat]
\* Sessions to look at, the one being looked at, and the idle ones found.
NoSweep == [todo |-> {}, hand |-> {}, idle |-> {}]

TypeOK ==
    /\ retained \in SUBSET Calls
    /\ busy \in [Calls -> BOOLEAN]
    /\ resumable \in [Calls -> BOOLEAN]
    /\ accessed \in [Calls -> Nat]
    /\ clock \in Nat
    /\ permits \in 0..Capacity
    /\ pc \in [Calls -> PC]
    /\ target \in [Calls -> Calls]
    /\ outcome \in [Calls -> {"none"} \cup Rejections \cup Settled \cup Aborted]
    /\ cancelReq \in SUBSET Calls
    /\ sweep \in [Calls -> [todo : SUBSET Calls, hand : SUBSET Calls, idle : SUBSET Entry]]

Init ==
    /\ retained = {}
    /\ busy = [c \in Calls |-> FALSE]
    /\ resumable = [c \in Calls |-> FALSE]
    /\ accessed = [c \in Calls |-> 0]
    /\ clock = 0
    /\ permits = Capacity
    /\ pc = [c \in Calls |-> "new"]
    /\ target = [c \in Calls |-> c]
    /\ outcome = [c \in Calls |-> "none"]
    /\ cancelReq = {}
    /\ sweep = [c \in Calls |-> NoSweep]

-----------------------------------------------------------------------------
(* Helpers *)

Initial(c) == target[c] = c
MapUnlocked == \A c \in Calls : pc[c] # "commit"
Goto(c, label) == pc' = [pc EXCEPT ![c] = label]
\* last_accessed_at = Instant::now()
Touch(s) ==
    /\ clock' = clock + 1
    /\ accessed' = [accessed EXCEPT ![s] = clock + 1]

\* The client learns a session's id from the terminal result of one of its turns.
Known(s) == \E c \in Calls :
    /\ pc[c] = "done"
    /\ target[c] = s
    /\ outcome[c] \in Settled \ {"cancelled"}

\* Calls that hold a TurnLease, or the session they made and will lease, and calls that
\* hold a capacity permit.
Leased(c) == pc[c] \in {"insert", "permit", "reserve", "task", "running", "settled"}
Sweeping(c) == pc[c] \in {"snapshot", "probe", "read", "evict", "commit"}
Holding(c) ==
    \/ pc[c] \in {"create", "insert", "reserve", "task", "undo", "running", "settled", "unlink"}
    \/ Sweeping(c) /\ (Initial(c) \/ outcome[c] # "none")

\* A turn the session has been reserved for: prepared, running or just settled.
Reserved(c) == pc[c] \in {"task", "running", "settled"}
\* A turn whose outcome is not known yet.
Unsettled(c) == pc[c] \in {"task", "undo", "running"}

-----------------------------------------------------------------------------
(* cleanup_idle_sessions: the entries are listed under the map's mutex, each is *)
(* read on its own, and each one in excess is checked again before it goes.     *)

Older(e, f) == e.at < f.at
Oldest(idle, e) == e \in idle /\ \A f \in idle : ~Older(f, e)
\* What idle.sort_by and take(remove) leave: all but the MaxIdle most recently used.
Excess(idle) == {e \in idle : Cardinality({f \in idle : Older(e, f)}) >= MaxIdle}

\* The next entry in excess, or back to the caller; execute ends with its
\* cleanup and drops its permit.
NeverReturns(c, idle) == Goto(c, "evict") /\ UNCHANGED permits     \* mutant
EvictOrReturn(c, idle) ==
    IF idle # {} THEN Goto(c, "evict") /\ UNCHANGED permits
    ELSE IF outcome[c] # "none" THEN Goto(c, "done") /\ permits' = permits + 1
    ELSE Goto(c, IF Initial(c) THEN "create" ELSE "lookup") /\ UNCHANGED permits

ProbeOrRank(c, todo, idle) ==
    IF todo # {}
    THEN /\ sweep' = [sweep EXCEPT ![c] = [todo |-> todo, hand |-> {}, idle |-> idle]]
         /\ Goto(c, "probe")
         /\ UNCHANGED permits
    ELSE /\ sweep' = [sweep EXCEPT ![c] = [todo |-> {}, hand |-> {}, idle |-> Excess(idle)]]
         /\ EvictOrReturn(c, Excess(idle))

Snapshot(c) ==
    /\ pc[c] = "snapshot"
    /\ MapUnlocked
    /\ ProbeOrRank(c, retained, {})
    /\ UNCHANGED <<retained, sessionVars, target, outcome, cancelReq>>

\* A session that is busy is passed over ...
Probe(c, s) ==
    /\ pc[c] = "probe"
    /\ s \in sweep[c].todo
    /\ IF busy[s] THEN ProbeOrRank(c, sweep[c].todo \ {s}, sweep[c].idle)
       ELSE /\ sweep' = [sweep EXCEPT ![c].todo = @ \ {s}, ![c].hand = {s}]
            /\ Goto(c, "read")
            /\ UNCHANGED permits
    /\ UNCHANGED <<retained, sessionVars, target, outcome, cancelReq>>

\* ... and the last use of another is read once its data can be locked.
ReadLastUse(c) ==
    /\ pc[c] = "read"
    /\ \E s \in sweep[c].hand :
          ProbeOrRank(c, sweep[c].todo, sweep[c].idle \cup {[id |-> s, at |-> accessed[s]]})
    /\ UNCHANGED <<retained, sessionVars, target, outcome, cancelReq>>

\* Under the map's mutex, which a candidate that passes keeps across the await.
EvictCheck(c) ==
    /\ pc[c] = "evict"
    /\ MapUnlocked
    /\ \E e \in sweep[c].idle :
          /\ Oldest(sweep[c].idle, e)
          /\ IF e.id \in retained /\ ~busy[e.id]
             THEN /\ sweep' = [sweep EXCEPT ![c].hand = {e.id}]
                  /\ Goto(c, "commit")
                  /\ UNCHANGED permits
             ELSE /\ sweep' = [sweep EXCEPT ![c].idle = @ \ {e}]
                  /\ EvictOrReturn(c, sweep[c].idle \ {e})
    /\ UNCHANGED <<retained, sessionVars, target, outcome, cancelReq>>

NeverUsed(e) == FALSE     \* mutant: the second look at last_accessed_at is dropped
UsedSinceListed(e) == accessed[e.id] # e.at

EvictCommit(c) ==
    /\ pc[c] = "commit"
    /\ \E e \in sweep[c].idle :
          /\ e.id \in sweep[c].hand
          /\ retained' = IF UsedSinceListed(e) THEN retained ELSE retained \ {e.id}
          /\ sweep' = [sweep EXCEPT ![c].hand = {}, ![c].idle = @ \ {e}]
          /\ EvictOrReturn(c, sweep[c].idle \ {e})
    /\ UNCHANGED <<sessionVars, target, outcome, cancelReq>>

-----------------------------------------------------------------------------
(* prepare_spawn and prepare_input.  A request that validation rejects     *)
(* touches no state and is not a step.                                     *)

SpawnArrives(c) ==
    /\ pc[c] = "new"
    /\ IF permits > 0
       THEN permits' = permits - 1 /\ Goto(c, "snapshot") /\ UNCHANGED outcome
       ELSE /\ outcome' = [outcome EXCEPT ![c] = "capacity_exceeded"]
            /\ Goto(c, "done")
            /\ UNCHANGED permits
    /\ UNCHANGED <<retained, sessionVars, target, cancelReq, sweep>>

InputArrives(c, s) ==
    /\ pc[c] = "new"
    /\ c # s
    /\ Known(s)
    /\ target' = [target EXCEPT ![c] = s]
    /\ Goto(c, "snapshot")
    /\ UNCHANGED <<retained, sessionVars, permits, outcome, cancelReq, sweep>>

\* The session is made with the lease of its first turn ...
CreateSession(c) ==
    /\ pc[c] = "create"
    /\ busy' = [busy EXCEPT ![c] = TRUE]
    /\ resumable' = [resumable EXCEPT ![c] = FALSE]
    /\ Touch(c)
    /\ Goto(c, "insert")
    /\ UNCHANGED <<retained, permits, target, outcome, cancelReq, sweep>>

\* ... and put into the map once its mutex is free.
InsertSession(c) ==
    /\ pc[c] = "insert"
    /\ MapUnlocked
    /\ retained' = retained \cup {c}
    /\ Goto(c, "task")
    /\ UNCHANGED <<sessionVars, permits, target, outcome, cancelReq, sweep>>

LookupSession(c) ==
    /\ pc[c] = "lookup"
    /\ MapUnlocked
    /\ IF target[c] \in retained
       THEN Goto(c, "claim") /\ UNCHANGED outcome
       ELSE Goto(c, "done") /\ outcome' = [outcome EXCEPT ![c] = "unknown_agent"]
    /\ UNCHANGED <<retained, sessionVars, permits, target, cancelReq, sweep>>

ClaimBlindly(s) == TRUE     \* mutant: a store in place of the compare_exchange
Claimable(s) == ~busy[s]

ClaimSession(c) ==
    /\ pc[c] = "claim"
    /\ IF Claimable(target[c])
       THEN /\ Goto(c, "permit")
            /\ busy' = [busy EXCEPT ![target[c]] = TRUE]
            /\ UNCHANGED outcome
       ELSE /\ Goto(c, "done")
            /\ outcome' = [outcome EXCEPT ![c] = "agent_busy"]
            /\ UNCHANGED busy
    /\ UNCHANGED <<retained, resumable, accessed, clock, permits, target, cancelReq, sweep>>

AcquireCapacity(c) ==
    /\ pc[c] = "permit"
    /\ IF permits > 0
       THEN /\ permits' = permits - 1
            /\ Goto(c, "reserve")
            /\ UNCHANGED <<busy, outcome>>
       ELSE /\ busy' = [busy EXCEPT ![target[c]] = FALSE]
            /\ outcome' = [outcome EXCEPT ![c] = "capacity_exceeded"]
            /\ Goto(c, "done")
            /\ UNCHANGED permits
    /\ UNCHANGED <<retained, resumable, accessed, clock, target, cancelReq, sweep>>

ReserveTurn(c) ==
    /\ pc[c] = "reserve"
    /\ Touch(target[c])
    /\ IF resumable[target[c]]
       THEN /\ resumable' = [resumable EXCEPT ![target[c]] = FALSE]
            /\ Goto(c, "task")
            /\ UNCHANGED <<busy, permits, outcome>>
       ELSE /\ busy' = [busy EXCEPT ![target[c]] = FALSE]
            /\ permits' = permits + 1
            /\ outcome' = [outcome EXCEPT ![c] = "non_resumable"]
            /\ Goto(c, "done")
            /\ UNCHANGED resumable
    /\ UNCHANGED <<retained, target, cancelReq, sweep>>

-----------------------------------------------------------------------------
(* execute *)

\* tasks/cancel on a task that has not settled; execute ignores a later one.
RequestCancel(c) ==
    /\ pc[c] \in {"task", "running"}
    /\ c \notin cancelReq
    /\ cancelReq' = cancelReq \cup {c}
    /\ UNCHANGED <<retained, sessionVars, permits, pc, target, outcome, sweep>>

\* Mutant: the reservation is undone before the turn is over.
RestoreEarly(c) ==
    /\ pc[c] = "task"
    /\ c \in cancelReq
    /\ busy' = [busy EXCEPT ![target[c]] = FALSE]
    /\ resumable' = [resumable EXCEPT ![target[c]] = ~Initial(c)]
    /\ cancelReq' = cancelReq \ {c}
    /\ Goto(c, "undo")
    /\ UNCHANGED <<retained, accessed, clock, permits, target, outcome, sweep>>

\* The task starts with a cancellation already requested: the lease goes first.
CancelBeforeDispatch(c) ==
    /\ pc[c] = "task"
    /\ c \in cancelReq
    /\ busy' = [busy EXCEPT ![target[c]] = FALSE]
    /\ cancelReq' = cancelReq \ {c}
    /\ Goto(c, "undo")
    /\ UNCHANGED <<retained, resumable, accessed, clock, permits, target, outcome, sweep>>

\* ... then the new session is removed, or the follow-up's reservation undone.
UndoReservation(c) ==
    /\ pc[c] = "undo"
    /\ IF Initial(c)
       THEN /\ MapUnlocked
            /\ retained' = retained \ {target[c]}
            /\ UNCHANGED <<resumable, accessed, clock>>
       ELSE /\ resumable' = [resumable EXCEPT ![target[c]] = TRUE]
            /\ Touch(target[c])
            /\ UNCHANGED retained
    /\ outcome' = [outcome EXCEPT ![c] = "cancelled"]
    /\ permits' = permits + 1
    /\ Goto(c, "done")
    /\ UNCHANGED <<busy, target, cancelReq, sweep>>

\* record_failure for a credential that does not resolve: resumable is FALSE.
CredentialMissing(c) ==
    /\ pc[c] = "task"
    /\ c \notin cancelReq
    /\ resumable' = [resumable EXCEPT ![target[c]] = FALSE]
    /\ Touch(target[c])
    /\ outcome' = [outcome EXCEPT ![c] = "no_credential"]
    /\ Goto(c, "settled")
    /\ UNCHANGED <<retained, busy, permits, target, cancelReq, sweep>>

StartRun(c) ==
    /\ pc[c] = "task"
    /\ c \notin cancelReq
    /\ Goto(c, "running")
    /\ UNCHANGED <<retained, sessionVars, permits, target, outcome, cancelReq, sweep>>

\* What execute makes of run_turn's result.  A cancelled run is interrupted, which
\* is resumable; when the deadline cancelled it, it is reported as a failure.
RunResults(c) == {"completed", "failed_open", "failed_closed"}
                    \cup (IF c \in cancelReq THEN {"cancelled"} ELSE {})
ResumesAlways(result) == TRUE     \* mutant
Resumes(result) == result \in {"completed", "failed_open", "cancelled"}

\* run_turn's last critical section writes the session's data.
SettleTurn(c) ==
    /\ pc[c] = "running"
    /\ \E result \in RunResults(c) :
          /\ outcome' = [outcome EXCEPT ![c] = result]
          /\ resumable' = [resumable EXCEPT ![target[c]] = Resumes(result)]
    /\ Touch(target[c])
    /\ cancelReq' = cancelReq \ {c}
    /\ Goto(c, "settled")
    /\ UNCHANGED <<retained, busy, permits, target, sweep>>

UnlinksFailed(c) == Initial(c) /\ outcome[c] = "no_credential"     \* mutant
Unlinks(c) == Initial(c) /\ outcome[c] \in {"cancelled", "no_credential"}

\* drop(lease); a follow-up without a credential returns here, with no cleanup.
ReleaseLease(c) ==
    /\ pc[c] = "settled"
    /\ busy' = [busy EXCEPT ![target[c]] = FALSE]
    /\ IF Unlinks(c)
       THEN Goto(c, "unlink") /\ UNCHANGED permits
       ELSE IF outcome[c] = "no_credential"
            THEN Goto(c, "done") /\ permits' = permits + 1
            ELSE Goto(c, "snapshot") /\ UNCHANGED permits
    /\ UNCHANGED <<retained, resumable, accessed, clock, target, outcome, cancelReq, sweep>>

\* Mutant: the permit goes with the session, and again at the end.
RemoveReleases(c) ==
    /\ pc[c] = "unlink"
    /\ MapUnlocked
    /\ retained' = retained \ {target[c]}
    /\ permits' = permits + 1
    /\ Goto(c, IF outcome[c] = "no_credential" THEN "done" ELSE "snapshot")
    /\ UNCHANGED <<sessionVars, target, outcome, cancelReq, sweep>>

\* remove_session
RemoveSession(c) ==
    /\ pc[c] = "unlink"
    /\ MapUnlocked
    /\ retained' = retained \ {target[c]}
    /\ IF outcome[c] = "no_credential"
       THEN Goto(c, "done") /\ permits' = permits + 1
       ELSE Goto(c, "snapshot") /\ UNCHANGED permits
    /\ UNCHANGED <<sessionVars, target, outcome, cancelReq, sweep>>

\* The task's TTL, or tasks.shutdown(), drops the future at an await point: the
\* lease, the permit and the map's guard go with it; the session's data stays.
AbortTask(c) ==
    /\ \/ Unsettled(c) \/ pc[c] = "unlink"
       \/ Sweeping(c) /\ outcome[c] # "none"
    /\ busy' = IF Reserved(c) THEN [busy EXCEPT ![target[c]] = FALSE] ELSE busy
    /\ permits' = permits + 1
    /\ outcome' = [outcome EXCEPT ![c] = IF Unsettled(c) THEN "lost" ELSE "aborted"]
    /\ cancelReq' = cancelReq \ {c}
    /\ sweep' = [sweep EXCEPT ![c] = NoSweep]
    /\ Goto(c, "done")
    /\ UNCHANGED <<retained, resumable, accessed, clock, target>>

-----------------------------------------------------------------------------

Sweep(c) ==
    \/ Snapshot(c) \/ (\E s \in Calls : Probe(c, s)) \/ ReadLastUse(c)
    \/ EvictCheck(c) \/ EvictCommit(c)
Prepare(c) ==
    \/ CreateSession(c) \/ InsertSession(c) \/ LookupSession(c) \/ ClaimSession(c)
    \/ AcquireCapacity(c) \/ ReserveTurn(c)
Execute(c) ==
    \/ CancelBeforeDispatch(c) \/ UndoReservation(c) \/ CredentialMissing(c) \/ StartRun(c)
    \/ SettleTurn(c) \/ ReleaseLease(c) \/ RemoveSession(c)
Environment(c) ==
    \/ SpawnArrives(c) \/ (\E s \in Calls : InputArrives(c, s))
    \/ RequestCancel(c) \/ AbortTask(c)

\* Every request was made and answered.
AllDone == (\A c \in Calls : pc[c] = "done") /\ UNCHANGED vars

Next == (\E c \in Calls : Sweep(c) \/ Prepare(c) \/ Execute(c) \/ Environment(c)) \/ AllDone

Spec == Init /\ [][Next]_vars

\* Tokio runs every ready task, and a turn's execution ends: each step of
\* run_turn has a timeout and the deadline cancels what is left.
Fairness == \A c \in Calls : WF_vars(Sweep(c)) /\ WF_vars(Prepare(c)) /\ WF_vars(Execute(c))
FairSpec == Spec /\ Fairness

-----------------------------------------------------------------------------
(* Properties *)

\* The busy flag is a lock: it is set exactly while one call holds the session's
\* lease, and never two calls hold it (compare_exchange in prepare_input, the
\* drop of TurnLease on every way out).
LeaseIsExclusive ==
    /\ \A c, d \in Calls : Leased(c) /\ Leased(d) /\ target[c] = target[d] => c = d
    /\ \A s \in Calls : busy[s] <=> \E c \in Calls : Leased(c) /\ target[c] = s

\* No path of a turn, rejected, cancelled, aborted or finished, leaks or doubles
\* a capacity permit.
PermitsBalance == permits + Cardinality({c \in Calls : Holding(c)}) = Capacity

\* A session is marked resumable only while no turn on it has an outcome still
\* open: not one being prepared to run, running, or about to be undone, and none
\* that was aborted on the way (the session then stays closed for good).
ResumableOnlyWhenSettled ==
    \A c \in Calls : Unsettled(c) \/ outcome[c] \in {"lost", "failed_closed", "no_credential"}
        => ~resumable[target[c]]

\* cleanup_idle_sessions works from a snapshot that is stale when it evicts; still
\* no step takes a session out of the map under a prepared or running turn.
ReservedSessionStays ==
    [][\A c \in Calls : Reserved(c) => ~(target[c] \in retained /\ target[c] \notin retained')]_vars

\* A spawn that was cancelled leaves no session behind, so its capacity in the
\* retained set is not spent on a session whose id nobody was told.
CancelledSpawnLeavesNothing ==
    \A c \in Calls : pc[c] = "done" /\ Initial(c) /\ outcome[c] = "cancelled" => c \notin retained

\* cleanup_idle_sessions drops the least recently used: the MaxIdle sessions used
\* last are never evicted, however much changes between its snapshot and the removal.
MostRecentSurvive ==
    [][\A c, s \in Calls : pc[c] = "commit" /\ s \in retained \ retained'
        => Cardinality({t \in Calls : accessed[t] > accessed[s]}) >= MaxIdle]_vars

\* Turns on a session happen one at a time, each from a known boundary, and a
\* session that was closed stays closed: the runtime implements SessionLedger.
Begun(c) == Unsettled(c) \/ outcome[c] \in Settled \cup Aborted
Ledger == INSTANCE SessionLedger WITH
    Turns <- Calls,
    Sessions <- Calls,
    live <- {<<c, target[c]>> : c \in {d \in Calls : Unsettled(d)}},
    begun <- {c \in Calls : Begun(c)},
    state <- [s \in Calls |-> IF ~(Begun(s) /\ Initial(s)) THEN "fresh"
                              ELSE IF resumable[s] THEN "open" ELSE "closed"]
KeepsLedger == Ledger!LedgerSpec

\* Every request is answered: no turn keeps a session busy, or the map locked,
\* for ever.
EveryCallEnds == \A c \in Calls : pc[c] # "new" ~> pc[c] = "done"

-----------------------------------------------------------------------------
(* What the documentation says, and the code does not keep *)

\* README.md:1418, "Completed sessions are resumable: send_input on a completed
\* agent starts a new run": a turn that completes does so on a session that the
\* map still holds, so that its id can be used.
CompletedTurnIsRetained ==
    \A c \in Calls : pc[c] = "settled" /\ outcome[c] = "completed" => target[c] \in retained

\* README.md:838-842: only a failure, or an abort, of a turn makes a session
\* non-resumable, so send_input answers non_resumable only after one.
NonResumableHasCause ==
    \A c \in Calls : outcome[c] = "non_resumable" =>
        \E d \in Calls : target[d] = target[c]
            /\ outcome[d] \in {"lost", "failed_closed", "no_credential"}
=============================================================================

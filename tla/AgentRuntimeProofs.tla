------------------------- MODULE AgentRuntimeProofs -------------------------
(***************************************************************************)
(* Theorems about AgentRuntime for every finite set of calls and every     *)
(* Capacity and MaxIdle.  The invariant IInv adds to the properties what   *)
(* they rest on: where a call stands decides what it holds, a session that *)
(* two calls share was spawned by a call that is over, and what a sweep is *)
(* about to evict was listed before any turn reserved since.               *)
(***************************************************************************)
EXTENDS AgentRuntime, FiniteSetTheorems, TLAPS

\* The position of a call against its outcome and its kind.
Phases ==
    \A c \in Calls :
        /\ pc[c] \in {"new", "create", "insert", "lookup", "claim", "permit", "reserve",
                      "task", "undo", "running"} => outcome[c] = "none"
        /\ pc[c] \in {"settled", "unlink"} => outcome[c] \in Settled
        /\ Sweeping(c) => outcome[c] \in {"none"} \cup Settled
        /\ pc[c] \in {"new", "create", "insert", "unlink"} => target[c] = c
        /\ pc[c] \in {"lookup", "claim", "permit", "reserve"} => target[c] # c
        /\ c \in cancelReq => pc[c] \in {"task", "running"}

\* A session that another call uses was spawned by a call that is done.
TargetsOver ==
    \A c \in Calls : target[c] # c =>
        target[target[c]] = target[c] /\ pc[target[c]] = "done"

\* A turn with an open outcome, or one that closed the session.
Closing(c) == Unsettled(c) \/ outcome[c] \in {"lost", "failed_closed", "no_credential"}
OpenTurns ==
    /\ \A c \in Calls : Closing(c) => ~resumable[target[c]]
    /\ \A c, d \in Calls : Unsettled(c) /\ Closing(d) /\ target[c] = target[d] => c = d

\* A session whose first turn has yet to begin cannot be resumed.
FreshClosed == \A c \in Calls : pc[c] # "done" /\ ~Begun(c) => ~resumable[c]

\* Every entry of a sweep was read no later than the session's last use; and the one
\* it is about to evict, strictly before the reservation of a turn the session has.
SweepsAreOld == \A c \in Calls : \A e \in sweep[c].idle : e.at <= accessed[e.id]
HandIsOld ==
    \A c, d \in Calls : pc[c] = "commit" /\ Reserved(d) =>
        \A e \in sweep[c].idle :
            e.id \in sweep[c].hand /\ e.id = target[d] => e.at < accessed[e.id]
ClockLeads == \A s \in Calls : accessed[s] <= clock

IInv ==
    /\ TypeOK
    /\ Phases
    /\ TargetsOver
    /\ LeaseIsExclusive
    /\ PermitsBalance
    /\ OpenTurns
    /\ FreshClosed
    /\ SweepsAreOld
    /\ HandIsOld
    /\ ClockLeads

Holders == {c \in Calls : Holding(c)}

-----------------------------------------------------------------------------
(* Permits: a step takes one, gives one back, or leaves them alone *)

LEMMA HoldersFinite == IsFiniteSet(Holders) /\ Cardinality(Holders) \in Nat
<1>1. IsFiniteSet(Holders)
  BY RuntimeAssumption, FS_Subset DEF Holders
<1>2. QED
  BY <1>1, FS_CardinalityType

\* A call that holds a permit can give it back without exceeding Capacity.
LEMMA PermitToRelease ==
    ASSUME TypeOK, PermitsBalance, NEW c \in Calls, Holding(c)
    PROVE  permits + 1 \in 0..Capacity
<1>1. c \in Holders
  BY DEF Holders
<1>2. Cardinality(Holders) # 0
  BY <1>1, HoldersFinite, FS_EmptySet
<1>3. permits + Cardinality(Holders) = Capacity
  BY DEF PermitsBalance, Holders
<1>4. permits \in 0..Capacity
  BY DEF TypeOK
<1> HIDE DEF Holders
<1>5. QED
  BY <1>2, <1>3, <1>4, HoldersFinite, RuntimeAssumption

LEMMA PermitTaken ==
    ASSUME TypeOK, PermitsBalance, NEW c \in Calls, ~Holding(c),
           Holders' = Holders \cup {c}, permits' = permits - 1
    PROVE  PermitsBalance'
<1>1. Cardinality(Holders') = Cardinality(Holders) + 1
  BY HoldersFinite, FS_AddElement DEF Holders
<1>2. QED
  BY <1>1, HoldersFinite, RuntimeAssumption DEF PermitsBalance, Holders, TypeOK

LEMMA PermitReleased ==
    ASSUME TypeOK, PermitsBalance, NEW c \in Calls, Holding(c),
           Holders' = Holders \ {c}, permits' = permits + 1
    PROVE  PermitsBalance'
<1>1. Cardinality(Holders') = Cardinality(Holders) - 1
  BY HoldersFinite, FS_RemoveElement DEF Holders
<1>2. QED
  BY <1>1, HoldersFinite, RuntimeAssumption DEF PermitsBalance, Holders, TypeOK

LEMMA PermitsKept ==
    ASSUME PermitsBalance, Holders' = Holders, permits' = permits
    PROVE  PermitsBalance'
BY DEF PermitsBalance, Holders

-----------------------------------------------------------------------------

Step(c) == Sweep(c) \/ Prepare(c) \/ Execute(c) \/ Environment(c)

LEMMA StepActions ==
    ASSUME NEW c \in Calls, Step(c)
    PROVE  \/ SpawnArrives(c) \/ (\E s \in Calls : InputArrives(c, s))
           \/ Snapshot(c) \/ (\E s \in Calls : Probe(c, s)) \/ ReadLastUse(c)
           \/ EvictCheck(c) \/ EvictCommit(c)
           \/ CreateSession(c) \/ InsertSession(c) \/ LookupSession(c) \/ ClaimSession(c)
           \/ AcquireCapacity(c) \/ ReserveTurn(c)
           \/ CancelBeforeDispatch(c) \/ UndoReservation(c) \/ CredentialMissing(c)
           \/ StartRun(c) \/ SettleTurn(c) \/ ReleaseLease(c) \/ RemoveSession(c)
           \/ RequestCancel(c) \/ AbortTask(c)
BY DEF Step, Sweep, Prepare, Execute, Environment

\* Where a sweep leaves its call: the label and the permits stay in their types.
LEMMA EvictOrReturnType ==
    ASSUME TypeOK, PermitsBalance, NEW c \in Calls, Sweeping(c), NEW idle,
           EvictOrReturn(c, idle)
    PROVE  pc' \in [Calls -> PC] /\ permits' \in 0..Capacity
<1>1. Holding(c) => permits + 1 \in 0..Capacity
  BY PermitToRelease
<1>2. pc' \in [Calls -> PC]
  BY DEF EvictOrReturn, Goto, TypeOK, PC
<1>3. permits' \in 0..Capacity
  BY <1>1 DEF EvictOrReturn, TypeOK, Holding
<1>4. QED
  BY <1>2, <1>3

LEMMA ProbeOrRankType ==
    ASSUME TypeOK, PermitsBalance, NEW c \in Calls, Sweeping(c),
           NEW todo \in SUBSET Calls, NEW idle \in SUBSET Entry,
           ProbeOrRank(c, todo, idle)
    PROVE  /\ pc' \in [Calls -> PC]
           /\ permits' \in 0..Capacity
           /\ sweep' \in [Calls -> [todo : SUBSET Calls, hand : SUBSET Calls, idle : SUBSET Entry]]
<1>1. CASE todo # {}
  <2>1. pc' \in [Calls -> PC] /\ permits' \in 0..Capacity
    BY <1>1 DEF ProbeOrRank, Goto, TypeOK, PC
  <2>2. sweep' = [sweep EXCEPT ![c] = [todo |-> todo, hand |-> {}, idle |-> idle]]
    BY <1>1 DEF ProbeOrRank
  <2>3. QED
    BY <2>1, <2>2 DEF TypeOK
<1>2. CASE todo = {}
  <2>1. EvictOrReturn(c, Excess(idle))
    BY <1>2 DEF ProbeOrRank
  <2>2. sweep' = [sweep EXCEPT ![c] = [todo |-> {}, hand |-> {}, idle |-> Excess(idle)]]
    BY <1>2 DEF ProbeOrRank
  <2>3. Excess(idle) \in SUBSET Entry
    BY DEF Excess
  <2>4. QED
    BY <2>1, <2>2, <2>3, EvictOrReturnType DEF TypeOK
<1>3. QED
  BY <1>1, <1>2

LEMMA TypeStep ==
    ASSUME TypeOK, Phases, PermitsBalance, NEW c \in Calls,
           Step(c)
    PROVE  TypeOK' /\ Phases'
<1> USE RuntimeAssumption
        DEF Goto, PC, Settled, Rejections, Aborted, sessionVars, Sweeping, Initial, Unsettled, Reserved
<1>0. Holding(c) => permits + 1 \in 0..Capacity
  BY PermitToRelease
<1>1. CASE SpawnArrives(c)
  <2>1. permits' \in 0..Capacity
    BY <1>1 DEF SpawnArrives, TypeOK
  <2>2. pc' \in [Calls -> PC]
    BY <1>1 DEF SpawnArrives, TypeOK
  <2>3. outcome' \in [Calls -> {"none"} \cup Rejections \cup Settled \cup Aborted]
    BY <1>1 DEF SpawnArrives, TypeOK
  <2>4. busy' \in [Calls -> BOOLEAN] /\ resumable' \in [Calls -> BOOLEAN]
    BY <1>1 DEF SpawnArrives, TypeOK
  <2>5. TypeOK'
    BY <1>1, <2>1, <2>2, <2>3, <2>4 DEF SpawnArrives, TypeOK
  <2>6. Phases'
    BY <1>1 DEF SpawnArrives, TypeOK, Phases
  <2>7. QED
    BY <2>5, <2>6
<1>2. ASSUME NEW s \in Calls, InputArrives(c, s)
      PROVE  TypeOK' /\ Phases'
  <2>1. TypeOK'
    BY <1>2 DEF InputArrives, TypeOK
  <2>2. Phases'
    BY <1>2 DEF InputArrives, TypeOK, Phases
  <2>3. QED
    BY <2>1, <2>2
<1>3. CASE Snapshot(c)
  <2>1. pc' \in [Calls -> PC] /\ permits' \in 0..Capacity
        /\ sweep' \in [Calls -> [todo : SUBSET Calls, hand : SUBSET Calls, idle : SUBSET Entry]]
    BY <1>3, ProbeOrRankType DEF Snapshot, TypeOK
  <2>2. TypeOK'
    BY <1>3, <2>1 DEF Snapshot, TypeOK
  <2>3. Phases'
    BY <1>3 DEF Snapshot, ProbeOrRank, EvictOrReturn, TypeOK, Phases
  <2>4. QED
    BY <2>2, <2>3
<1>4. ASSUME NEW s \in Calls, Probe(c, s)
      PROVE  TypeOK' /\ Phases'
  <2>1. sweep[c].todo \ {s} \in SUBSET Calls /\ sweep[c].idle \in SUBSET Entry
    BY DEF TypeOK
  <2>2. pc' \in [Calls -> PC] /\ permits' \in 0..Capacity
        /\ sweep' \in [Calls -> [todo : SUBSET Calls, hand : SUBSET Calls, idle : SUBSET Entry]]
    <3>1. CASE busy[s]
      BY <1>4, <2>1, <3>1, ProbeOrRankType DEF Probe
    <3>2. CASE ~busy[s]
      <4>1. sweep[c] \in [todo : SUBSET Calls, hand : SUBSET Calls, idle : SUBSET Entry]
        BY DEF TypeOK
      <4>2. sweep' = [sweep EXCEPT ![c] = [sweep[c] EXCEPT !.todo = @ \ {s}, !.hand = {s}]]
        BY <1>4, <3>2 DEF Probe, TypeOK
      <4>3. [sweep[c] EXCEPT !.todo = @ \ {s}, !.hand = {s}]
              \in [todo : SUBSET Calls, hand : SUBSET Calls, idle : SUBSET Entry]
        BY <4>1
      <4>4. pc' \in [Calls -> PC] /\ permits' \in 0..Capacity
        BY <1>4, <3>2 DEF Probe, TypeOK
      <4>5. QED
        BY <4>2, <4>3, <4>4 DEF TypeOK
    <3>3. QED
      BY <3>1, <3>2
  <2>3. TypeOK'
    BY <1>4, <2>2 DEF Probe, TypeOK
  <2>4. Phases'
    BY <1>4 DEF Probe, ProbeOrRank, EvictOrReturn, TypeOK, Phases
  <2>5. QED
    BY <2>3, <2>4
<1>4a. CASE ReadLastUse(c)
  <2>1. PICK s \in sweep[c].hand :
           ProbeOrRank(c, sweep[c].todo, sweep[c].idle \cup {[id |-> s, at |-> accessed[s]]})
    BY <1>4a DEF ReadLastUse
  <2>2. /\ sweep[c].todo \in SUBSET Calls
        /\ sweep[c].idle \cup {[id |-> s, at |-> accessed[s]]} \in SUBSET Entry
    BY DEF TypeOK, Entry
  <2>3. pc' \in [Calls -> PC] /\ permits' \in 0..Capacity
        /\ sweep' \in [Calls -> [todo : SUBSET Calls, hand : SUBSET Calls, idle : SUBSET Entry]]
    BY <1>4a, <2>1, <2>2, ProbeOrRankType DEF ReadLastUse
  <2>4. TypeOK'
    BY <1>4a, <2>3 DEF ReadLastUse, TypeOK
  <2>5. Phases'
    BY <1>4a DEF ReadLastUse, ProbeOrRank, EvictOrReturn, TypeOK, Phases
  <2>6. QED
    BY <2>4, <2>5
<1>5. CASE EvictCheck(c)
  <2>1. pc' \in [Calls -> PC] /\ permits' \in 0..Capacity
    BY <1>5, EvictOrReturnType DEF EvictCheck, TypeOK
  <2>2. sweep' \in [Calls -> [todo : SUBSET Calls, hand : SUBSET Calls, idle : SUBSET Entry]]
    <3>1. \E e \in sweep[c].idle :
             \/ sweep' = [sweep EXCEPT ![c].hand = {e.id}]
             \/ sweep' = [sweep EXCEPT ![c].idle = @ \ {e}]
      BY <1>5 DEF EvictCheck
    <3>2. PICK e \in sweep[c].idle :
             \/ sweep' = [sweep EXCEPT ![c] = [sweep[c] EXCEPT !.hand = {e.id}]]
             \/ sweep' = [sweep EXCEPT ![c] = [sweep[c] EXCEPT !.idle = @ \ {e}]]
      BY <3>1 DEF TypeOK
    <3>3. sweep[c] \in [todo : SUBSET Calls, hand : SUBSET Calls, idle : SUBSET Entry]
      BY DEF TypeOK
    <3>4. e.id \in Calls
      BY <3>3 DEF Entry
    <3>5. \E w \in [todo : SUBSET Calls, hand : SUBSET Calls, idle : SUBSET Entry] :
             sweep' = [sweep EXCEPT ![c] = w]
      BY <3>2, <3>3, <3>4
    <3>6. QED
      BY <3>5 DEF TypeOK
  <2>3. TypeOK'
    BY <1>5, <2>1, <2>2 DEF EvictCheck, TypeOK
  <2>4. Phases'
    BY <1>5 DEF EvictCheck, EvictOrReturn, TypeOK, Phases
  <2>5. QED
    BY <2>3, <2>4
<1>6. CASE EvictCommit(c)
  <2>1. pc' \in [Calls -> PC] /\ permits' \in 0..Capacity
    BY <1>6, EvictOrReturnType DEF EvictCommit, TypeOK
  <2>2. sweep' \in [Calls -> [todo : SUBSET Calls, hand : SUBSET Calls, idle : SUBSET Entry]]
    BY <1>6 DEF EvictCommit, TypeOK
  <2>3. TypeOK'
    BY <1>6, <2>1, <2>2 DEF EvictCommit, TypeOK
  <2>4. Phases'
    BY <1>6 DEF EvictCommit, EvictOrReturn, TypeOK, Phases
  <2>5. QED
    BY <2>3, <2>4
<1>7. CASE InsertSession(c)
  <2>1. TypeOK'
    BY <1>7 DEF InsertSession, TypeOK
  <2>2. Phases'
    BY <1>7 DEF InsertSession, TypeOK, Phases
  <2>3. QED
    BY <2>1, <2>2
<1>7a. CASE CreateSession(c)
  <2>1. TypeOK'
    BY <1>7a DEF CreateSession, Touch, TypeOK
  <2>2. Phases'
    BY <1>7a DEF CreateSession, Touch, TypeOK, Phases
  <2>3. QED
    BY <2>1, <2>2
<1>8. CASE LookupSession(c)
  <2>1. TypeOK'
    BY <1>8 DEF LookupSession, TypeOK
  <2>2. Phases'
    BY <1>8 DEF LookupSession, TypeOK, Phases
  <2>3. QED
    BY <2>1, <2>2
<1>9. CASE ClaimSession(c)
  <2>1. TypeOK'
    BY <1>9 DEF ClaimSession, TypeOK
  <2>2. Phases'
    BY <1>9, SMTT(30) DEF ClaimSession, TypeOK, Phases
  <2>3. QED
    BY <2>1, <2>2
<1>10. CASE AcquireCapacity(c)
  <2>1. permits' \in 0..Capacity
    BY <1>10 DEF AcquireCapacity, TypeOK
  <2>2. pc' \in [Calls -> PC]
    BY <1>10 DEF AcquireCapacity, TypeOK
  <2>3. outcome' \in [Calls -> {"none"} \cup Rejections \cup Settled \cup Aborted]
    BY <1>10 DEF AcquireCapacity, TypeOK
  <2>4. busy' \in [Calls -> BOOLEAN] /\ resumable' \in [Calls -> BOOLEAN]
    BY <1>10 DEF AcquireCapacity, TypeOK
  <2>5. TypeOK'
    BY <1>10, <2>1, <2>2, <2>3, <2>4 DEF AcquireCapacity, TypeOK
  <2>6. Phases'
    BY <1>10 DEF AcquireCapacity, TypeOK, Phases
  <2>7. QED
    BY <2>5, <2>6
<1>11. CASE ReserveTurn(c)
  <2>1. permits' \in 0..Capacity
    BY <1>11, <1>0 DEF ReserveTurn, Touch, TypeOK, Holding
  <2>2. pc' \in [Calls -> PC]
    BY <1>11 DEF ReserveTurn, Touch, TypeOK
  <2>3. outcome' \in [Calls -> {"none"} \cup Rejections \cup Settled \cup Aborted]
    BY <1>11 DEF ReserveTurn, Touch, TypeOK
  <2>4. busy' \in [Calls -> BOOLEAN] /\ resumable' \in [Calls -> BOOLEAN]
    BY <1>11 DEF ReserveTurn, Touch, TypeOK
  <2>5. TypeOK'
    BY <1>11, <2>1, <2>2, <2>3, <2>4 DEF ReserveTurn, Touch, TypeOK
  <2>6. Phases'
    BY <1>11 DEF ReserveTurn, Touch, TypeOK, Phases
  <2>7. QED
    BY <2>5, <2>6
<1>12. CASE CancelBeforeDispatch(c)
  <2>1. TypeOK'
    BY <1>12 DEF CancelBeforeDispatch, TypeOK
  <2>2. Phases'
    BY <1>12 DEF CancelBeforeDispatch, TypeOK, Phases
  <2>3. QED
    BY <2>1, <2>2
<1>13. CASE UndoReservation(c)
  <2>1. permits' \in 0..Capacity
    BY <1>13, <1>0 DEF UndoReservation, Touch, TypeOK, Holding
  <2>2. pc' \in [Calls -> PC]
    BY <1>13 DEF UndoReservation, Touch, TypeOK
  <2>3. outcome' \in [Calls -> {"none"} \cup Rejections \cup Settled \cup Aborted]
    BY <1>13 DEF UndoReservation, Touch, TypeOK
  <2>4. busy' \in [Calls -> BOOLEAN] /\ resumable' \in [Calls -> BOOLEAN]
    BY <1>13 DEF UndoReservation, Touch, TypeOK
  <2>5. TypeOK'
    BY <1>13, <2>1, <2>2, <2>3, <2>4 DEF UndoReservation, Touch, TypeOK
  <2>6. Phases'
    BY <1>13 DEF UndoReservation, Touch, TypeOK, Phases
  <2>7. QED
    BY <2>5, <2>6
<1>14. CASE CredentialMissing(c)
  <2>1. TypeOK'
    BY <1>14 DEF CredentialMissing, Touch, TypeOK
  <2>2. Phases'
    BY <1>14 DEF CredentialMissing, Touch, TypeOK, Phases
  <2>3. QED
    BY <2>1, <2>2
<1>15. CASE StartRun(c)
  <2>1. TypeOK'
    BY <1>15 DEF StartRun, TypeOK
  <2>2. Phases'
    BY <1>15 DEF StartRun, TypeOK, Phases
  <2>3. QED
    BY <2>1, <2>2
<1>16. CASE SettleTurn(c)
  <2>1. TypeOK'
    BY <1>16 DEF SettleTurn, RunResults, Resumes, Touch, TypeOK
  <2>2. Phases'
    BY <1>16 DEF SettleTurn, RunResults, Resumes, Touch, TypeOK, Phases
  <2>3. QED
    BY <2>1, <2>2
<1>17. CASE ReleaseLease(c)
  <2>1. TypeOK'
    BY <1>17, <1>0 DEF ReleaseLease, Unlinks, TypeOK, Holding
  <2>2. Phases'
    BY <1>17 DEF ReleaseLease, Unlinks, TypeOK, Phases
  <2>3. QED
    BY <2>1, <2>2
<1>18. CASE RemoveSession(c)
  <2>1. TypeOK'
    BY <1>18, <1>0 DEF RemoveSession, TypeOK, Holding
  <2>2. Phases'
    BY <1>18 DEF RemoveSession, TypeOK, Phases
  <2>3. QED
    BY <2>1, <2>2
<1>19. CASE RequestCancel(c)
  <2>1. TypeOK'
    BY <1>19 DEF RequestCancel, TypeOK
  <2>2. Phases'
    BY <1>19 DEF RequestCancel, TypeOK, Phases
  <2>3. QED
    BY <2>1, <2>2
<1>20. CASE AbortTask(c)
  <2>1. TypeOK'
    BY <1>20, <1>0 DEF AbortTask, TypeOK, Holding, NoSweep
  <2>2. Phases'
    BY <1>20 DEF AbortTask, TypeOK, Phases
  <2>3. QED
    BY <2>1, <2>2
<1>21. QED
  BY <1>1, <1>2, <1>3, <1>4, <1>4a, <1>5, <1>6, <1>7, <1>7a, <1>8, <1>9, <1>10, <1>11, <1>12,
     <1>13, <1>14, <1>15, <1>16, <1>17, <1>18, <1>19, <1>20, StepActions

-----------------------------------------------------------------------------
(* Locality: a step of c moves no other call *)

Unmoved(d) ==
    /\ pc'[d] = pc[d]
    /\ target'[d] = target[d]
    /\ outcome'[d] = outcome[d]
    /\ sweep'[d] = sweep[d]

\* Where a step of a sweep leaves its call, and what it does to the permits.
SweepGoes(c) ==
    \E label \in PC :
        /\ pc' = [pc EXCEPT ![c] = label]
        /\ \/ label \in {"probe", "read", "evict", "commit"} /\ permits' = permits
           \/ /\ label = IF Initial(c) THEN "create" ELSE "lookup"
              /\ outcome[c] = "none" /\ permits' = permits
           \/ label = "done" /\ outcome[c] # "none" /\ permits' = permits + 1
SweepOfOwn(c) == \E w : sweep' = [sweep EXCEPT ![c] = w]

LEMMA EvictOrReturnGoes ==
    ASSUME NEW c \in Calls, NEW idle, EvictOrReturn(c, idle)
    PROVE  SweepGoes(c)
BY DEF EvictOrReturn, SweepGoes, Goto, PC

LEMMA ProbeOrRankGoes ==
    ASSUME NEW c \in Calls, NEW todo, NEW idle, ProbeOrRank(c, todo, idle)
    PROVE  SweepGoes(c) /\ SweepOfOwn(c)
<1>1. CASE todo # {}
  BY <1>1 DEF ProbeOrRank, SweepGoes, SweepOfOwn, Goto, PC
<1>2. CASE todo = {}
  BY <1>2, EvictOrReturnGoes DEF ProbeOrRank, SweepOfOwn
<1>3. QED
  BY <1>1, <1>2

LEMMA SweepMove ==
    ASSUME TypeOK, NEW c \in Calls, Sweep(c)
    PROVE  /\ Sweeping(c)
           /\ SweepGoes(c)
           /\ SweepOfOwn(c)
           /\ UNCHANGED <<sessionVars, target, outcome, cancelReq>>
<1>1. CASE Snapshot(c)
  BY <1>1, ProbeOrRankGoes DEF Snapshot, Sweeping
<1>2. ASSUME NEW s \in Calls, Probe(c, s)
      PROVE  /\ Sweeping(c) /\ SweepGoes(c) /\ SweepOfOwn(c)
             /\ UNCHANGED <<sessionVars, target, outcome, cancelReq>>
  <2>1. CASE busy[s]
    BY <1>2, <2>1, ProbeOrRankGoes DEF Probe, Sweeping
  <2>2. CASE ~busy[s]
    <3>1. sweep' = [sweep EXCEPT ![c].todo = @ \ {s}, ![c].hand = {s}] /\ Goto(c, "read")
          /\ permits' = permits
      BY <1>2, <2>2 DEF Probe
    <3>2. SweepOfOwn(c)
      BY <3>1 DEF SweepOfOwn
    <3>3. SweepGoes(c)
      BY <3>1 DEF SweepGoes, Goto, PC
    <3>4. QED
      BY <1>2, <3>2, <3>3 DEF Probe, Sweeping
  <2>3. QED
    BY <2>1, <2>2
<1>2a. CASE ReadLastUse(c)
  BY <1>2a, ProbeOrRankGoes DEF ReadLastUse, Sweeping
<1>3. CASE EvictCheck(c)
  <2>1. PICK e \in sweep[c].idle :
           IF e.id \in retained /\ ~busy[e.id]
           THEN /\ sweep' = [sweep EXCEPT ![c].hand = {e.id}]
                /\ Goto(c, "commit")
                /\ UNCHANGED permits
           ELSE /\ sweep' = [sweep EXCEPT ![c].idle = @ \ {e}]
                /\ EvictOrReturn(c, sweep[c].idle \ {e})
    BY <1>3 DEF EvictCheck
  <2>2. SweepOfOwn(c)
    BY <2>1 DEF SweepOfOwn
  <2>3. SweepGoes(c)
    <3>1. CASE e.id \in retained /\ ~busy[e.id]
      BY <2>1, <3>1 DEF SweepGoes, Goto, PC
    <3>2. CASE ~(e.id \in retained /\ ~busy[e.id])
      BY <2>1, <3>2, EvictOrReturnGoes
    <3>3. QED
      BY <3>1, <3>2
  <2>4. QED
    BY <1>3, <2>2, <2>3 DEF EvictCheck, Sweeping
<1>4. CASE EvictCommit(c)
  <2>1. PICK e \in sweep[c].idle :
           /\ sweep' = [sweep EXCEPT ![c].hand = {}, ![c].idle = @ \ {e}]
           /\ EvictOrReturn(c, sweep[c].idle \ {e})
    BY <1>4 DEF EvictCommit
  <2>2. SweepOfOwn(c)
    BY <2>1 DEF SweepOfOwn
  <2>3. SweepGoes(c)
    BY <2>1, EvictOrReturnGoes
  <2>4. QED
    BY <1>4, <2>2, <2>3 DEF EvictCommit, Sweeping
<1>5. QED
  BY <1>1, <1>2, <1>2a, <1>3, <1>4 DEF Sweep

LEMMA OthersUnmoved ==
    ASSUME TypeOK, NEW c \in Calls, Step(c), NEW d \in Calls, d # c
    PROVE  Unmoved(d)
<1> USE DEF Unmoved, TypeOK, Goto
<1>1. CASE SpawnArrives(c) \/ (\E s \in Calls : InputArrives(c, s))
  BY <1>1 DEF SpawnArrives, InputArrives
<1>2. CASE Sweep(c)
  BY <1>2, SweepMove DEF SweepGoes, SweepOfOwn
<1>3. CASE CreateSession(c) \/ InsertSession(c) \/ LookupSession(c) \/ ClaimSession(c)
           \/ AcquireCapacity(c) \/ ReserveTurn(c)
  BY <1>3 DEF CreateSession, InsertSession, LookupSession, ClaimSession, AcquireCapacity, ReserveTurn
<1>4. CASE CancelBeforeDispatch(c) \/ UndoReservation(c) \/ CredentialMissing(c)
           \/ StartRun(c) \/ SettleTurn(c) \/ ReleaseLease(c) \/ RemoveSession(c)
           \/ RequestCancel(c) \/ AbortTask(c)
  BY <1>4 DEF CancelBeforeDispatch, UndoReservation, CredentialMissing, StartRun,
              SettleTurn, ReleaseLease, RemoveSession, RequestCancel, AbortTask
<1>5. QED
  BY <1>1, <1>2, <1>3, <1>4, StepActions DEF Sweep

-----------------------------------------------------------------------------
(* Permits *)

LEMMA PermitMove ==
    ASSUME TypeOK, Phases, NEW c \in Calls, Step(c)
    PROVE  \/ (Holding(c)' <=> Holding(c)) /\ permits' = permits
           \/ ~Holding(c) /\ Holding(c)' /\ permits' = permits - 1
           \/ Holding(c) /\ ~Holding(c)' /\ permits' = permits + 1
<1> USE DEF Holding, Sweeping, Initial, Unsettled, Settled, Rejections, TypeOK, Phases, Goto, PC
<1>1. CASE SpawnArrives(c)
  BY <1>1 DEF SpawnArrives
<1>2. CASE \E s \in Calls : InputArrives(c, s)
  BY <1>2 DEF InputArrives
<1>3. CASE Sweep(c)
  <2>1. /\ Sweeping(c) /\ SweepGoes(c)
        /\ target'[c] = target[c] /\ outcome'[c] = outcome[c]
    BY <1>3, SweepMove
  <2>2. PICK label \in PC :
        /\ pc' = [pc EXCEPT ![c] = label]
        /\ \/ label \in {"probe", "read", "evict", "commit"} /\ permits' = permits
           \/ /\ label = IF Initial(c) THEN "create" ELSE "lookup"
              /\ outcome[c] = "none" /\ permits' = permits
           \/ label = "done" /\ outcome[c] # "none" /\ permits' = permits + 1
    BY <2>1 DEF SweepGoes
  <2>3. pc'[c] = label
    BY <2>2
  <2>4. QED
    BY <2>1, <2>2, <2>3
<1>4. CASE CreateSession(c) \/ InsertSession(c) \/ LookupSession(c) \/ ClaimSession(c)
  BY <1>4 DEF CreateSession, InsertSession, LookupSession, ClaimSession
<1>5. CASE AcquireCapacity(c) \/ ReserveTurn(c)
  BY <1>5 DEF AcquireCapacity, ReserveTurn
<1>6. CASE CancelBeforeDispatch(c) \/ UndoReservation(c) \/ CredentialMissing(c) \/ StartRun(c)
  BY <1>6 DEF CancelBeforeDispatch, UndoReservation, CredentialMissing, StartRun
<1>7. CASE SettleTurn(c) \/ ReleaseLease(c) \/ RemoveSession(c)
  BY <1>7 DEF SettleTurn, ReleaseLease, RemoveSession, RunResults
<1>8. CASE RequestCancel(c) \/ AbortTask(c)
  BY <1>8 DEF RequestCancel, AbortTask
<1>9. QED
  BY <1>1, <1>2, <1>3, <1>4, <1>5, <1>6, <1>7, <1>8, StepActions DEF Sweep

LEMMA PermitStep ==
    ASSUME TypeOK, Phases, PermitsBalance, NEW c \in Calls, Step(c)
    PROVE  PermitsBalance'
<1>1. \A d \in Calls \ {c} : Holding(d)' <=> Holding(d)
  BY OthersUnmoved DEF Unmoved, Holding, Sweeping, Initial
<1>2. CASE (Holding(c)' <=> Holding(c)) /\ permits' = permits
  <2>1. Holders' = Holders
    BY <1>1, <1>2 DEF Holders
  <2>2. QED
    BY <1>2, <2>1, PermitsKept
<1>3. CASE ~Holding(c) /\ Holding(c)' /\ permits' = permits - 1
  <2>1. Holders' = Holders \cup {c}
    BY <1>1, <1>3 DEF Holders
  <2>2. QED
    BY <1>3, <2>1, PermitTaken
<1>4. CASE Holding(c) /\ ~Holding(c)' /\ permits' = permits + 1
  <2>1. Holders' = Holders \ {c}
    BY <1>1, <1>4 DEF Holders
  <2>2. QED
    BY <1>4, <2>1, PermitReleased
<1>5. QED
  BY <1>2, <1>3, <1>4, PermitMove

-----------------------------------------------------------------------------
(* Sessions used by a call that did not spawn them *)

LEMMA TargetsStep ==
    ASSUME TypeOK, Phases, TargetsOver, NEW c \in Calls, Step(c)
    PROVE  TargetsOver'
<1>1. ASSUME NEW s \in Calls, InputArrives(c, s)
      PROVE  TargetsOver'
  <2>1. target[s] = s /\ pc[s] = "done" /\ s # c
    BY <1>1 DEF InputArrives, Known, TargetsOver
  <2>2. QED
    BY <1>1, <2>1 DEF InputArrives, TargetsOver, TypeOK, Goto
<1>2. ASSUME target' = target, pc[c] # "done"
      PROVE  TargetsOver'
  BY <1>2, OthersUnmoved DEF Unmoved, TargetsOver, TypeOK
<1>3. pc[c] # "done" /\ (target' = target \/ \E s \in Calls : InputArrives(c, s))
  BY StepActions DEF SpawnArrives, InputArrives, Snapshot, Probe, ReadLastUse, EvictCheck, EvictCommit,
     CreateSession, InsertSession, LookupSession, ClaimSession, AcquireCapacity, ReserveTurn,
     CancelBeforeDispatch, UndoReservation, CredentialMissing, StartRun, SettleTurn,
     ReleaseLease, RemoveSession, RequestCancel, AbortTask, Unsettled, Sweeping
<1>4. QED
  BY <1>1, <1>2, <1>3
-----------------------------------------------------------------------------
(* Leases: a step takes one on a free session, drops one, or leaves them alone *)

LeaseKept(c) ==
    /\ busy' = busy
    /\ Leased(c)' <=> Leased(c)
    /\ Leased(c) => target'[c] = target[c]
LeaseTaken(c) ==
    /\ Leased(c)' /\ target' = target
    /\ \A d \in Calls : Leased(d) => target[d] # target[c]
    /\ busy' = [busy EXCEPT ![target[c]] = TRUE]
LeaseDropped(c) ==
    /\ Leased(c) /\ ~Leased(c)' /\ target' = target
    /\ busy' = [busy EXCEPT ![target[c]] = FALSE]

LEMMA LeaseMove ==
    ASSUME TypeOK, Phases, TargetsOver, LeaseIsExclusive, NEW c \in Calls, Step(c)
    PROVE  LeaseKept(c) \/ LeaseTaken(c) \/ LeaseDropped(c)
<1> USE DEF Leased, TypeOK, Goto, sessionVars
<1>1. CASE SpawnArrives(c)
  BY <1>1 DEF SpawnArrives, LeaseKept
<1>2. CASE \E s \in Calls : InputArrives(c, s)
  BY <1>2 DEF InputArrives, LeaseKept
<1>3. CASE Sweep(c)
  BY <1>3, SweepMove DEF SweepGoes, Sweeping, LeaseKept
<1>4. CASE CreateSession(c)
  <2>1. target[c] = c /\ pc[c] = "create"
    BY <1>4 DEF CreateSession, Phases
  <2>2. \A d \in Calls : Leased(d) => target[d] # target[c]
    BY <2>1 DEF TargetsOver
  <2>3. Leased(c)' /\ target' = target /\ busy' = [busy EXCEPT ![target[c]] = TRUE]
    BY <1>4, <2>1 DEF CreateSession
  <2>4. QED
    BY <2>2, <2>3 DEF LeaseTaken
<1>5. CASE InsertSession(c) \/ LookupSession(c)
  BY <1>5 DEF InsertSession, LookupSession, LeaseKept
<1>6. CASE ClaimSession(c)
  <2>1. CASE busy[target[c]]
    BY <1>6, <2>1 DEF ClaimSession, Claimable, LeaseKept
  <2>2. CASE ~busy[target[c]]
    <3>1. \A d \in Calls : Leased(d) => target[d] # target[c]
      BY <2>2 DEF LeaseIsExclusive
    <3>2. Leased(c)' /\ target' = target /\ busy' = [busy EXCEPT ![target[c]] = TRUE]
      BY <1>6, <2>2 DEF ClaimSession, Claimable
    <3>3. QED
      BY <3>1, <3>2 DEF LeaseTaken
  <2>3. QED
    BY <2>1, <2>2
<1>7. CASE AcquireCapacity(c) \/ ReserveTurn(c)
  BY <1>7 DEF AcquireCapacity, ReserveTurn, LeaseKept, LeaseDropped
<1>8. CASE CancelBeforeDispatch(c) \/ ReleaseLease(c)
  BY <1>8 DEF CancelBeforeDispatch, ReleaseLease, LeaseDropped
<1>9. CASE UndoReservation(c) \/ CredentialMissing(c) \/ StartRun(c)
           \/ SettleTurn(c) \/ RemoveSession(c) \/ RequestCancel(c)
  BY <1>9 DEF UndoReservation, CredentialMissing, StartRun, SettleTurn, RemoveSession,
              RequestCancel, LeaseKept
<1>10. CASE AbortTask(c)
  <2>1. pc[c] \notin {"insert", "permit", "reserve"}
    BY <1>10 DEF AbortTask, Unsettled, Sweeping
  <2>2. pc[c] # "settled"
    BY <1>10 DEF AbortTask, Unsettled, Sweeping
  <2>3. CASE Reserved(c)
    BY <1>10, <2>3 DEF AbortTask, Reserved, LeaseDropped
  <2>4. CASE ~Reserved(c)
    BY <1>10, <2>1, <2>4 DEF AbortTask, Reserved, LeaseKept
  <2>5. QED
    BY <2>3, <2>4
<1>11. QED
  BY <1>1, <1>2, <1>3, <1>4, <1>5, <1>6, <1>7, <1>8, <1>9, <1>10, StepActions DEF Sweep

LEMMA LeaseStep ==
    ASSUME TypeOK, TypeOK', Phases, TargetsOver, LeaseIsExclusive, NEW c \in Calls, Step(c)
    PROVE  LeaseIsExclusive'
<1>1. \A d \in Calls \ {c} : (Leased(d)' <=> Leased(d)) /\ target'[d] = target[d]
  BY OthersUnmoved DEF Unmoved, Leased
<1>2. CASE LeaseKept(c)
  BY <1>1, <1>2 DEF LeaseKept, LeaseIsExclusive
<1>3. CASE LeaseTaken(c)
  BY <1>1, <1>3 DEF LeaseTaken, LeaseIsExclusive, TypeOK
<1>4. CASE LeaseDropped(c)
  <2>1. \A d, e \in Calls : Leased(d)' /\ Leased(e)' /\ target'[d] = target'[e] => d = e
    BY <1>1, <1>4 DEF LeaseDropped, LeaseIsExclusive
  <2>2. \A s \in Calls \ {target[c]} : busy'[s] = busy[s]
    BY <1>4 DEF LeaseDropped, TypeOK
  <2>3. ~busy'[target[c]]
    BY <1>4 DEF LeaseDropped, TypeOK
  <2>4. \A d \in Calls : Leased(d)' => target'[d] # target[c]
    BY <1>1, <1>4 DEF LeaseDropped, LeaseIsExclusive
  <2>5. \A s \in Calls : busy'[s] <=> \E d \in Calls : Leased(d)' /\ target'[d] = s
    BY <1>1, <1>4, <2>2, <2>3, <2>4 DEF LeaseDropped, LeaseIsExclusive
  <2>6. QED
    BY <2>1, <2>5 DEF LeaseIsExclusive
<1>5. QED
  BY <1>2, <1>3, <1>4, LeaseMove

-----------------------------------------------------------------------------
(* Open turns: a step opens the only turn of a session, settles one, or leaves *)
(* every session's data alone                                                  *)

TurnKept(c) ==
    /\ resumable' = resumable
    /\ Unsettled(c)' => Unsettled(c)
    /\ Closing(c)' => Closing(c)
    /\ Closing(c) => target'[c] = target[c]
TurnOpened(c) ==
    /\ target' = target
    /\ \A d \in Calls : Closing(d) => target[d] # target[c]
    /\ ~resumable'[target[c]]
    /\ \A s \in Calls \ {target[c]} : resumable'[s] = resumable[s]
TurnSettled(c) ==
    /\ target' = target
    /\ Unsettled(c) /\ ~Unsettled(c)'
    /\ \A s \in Calls \ {target[c]} : resumable'[s] = resumable[s]
    /\ Closing(c)' => ~resumable'[target[c]]

LEMMA FreshNotResumable ==
    ASSUME Phases, FreshClosed, NEW c \in Calls, pc[c] \in {"create", "insert"}
    PROVE  ~resumable[c]
BY DEF Phases, FreshClosed, Begun, Unsettled, Settled, Aborted

LEMMA CreateKeeps ==
    ASSUME TypeOK, Phases, FreshClosed, NEW c \in Calls, CreateSession(c)
    PROVE  resumable' = resumable
<1>1. resumable[c] = FALSE
  BY FreshNotResumable DEF CreateSession, TypeOK
<1>2. QED
  BY <1>1 DEF CreateSession, TypeOK

LEMMA TurnMove ==
    ASSUME TypeOK, Phases, TargetsOver, OpenTurns, FreshClosed, NEW c \in Calls, Step(c)
    PROVE  TurnKept(c) \/ TurnOpened(c) \/ TurnSettled(c)
<1> USE DEF Closing, Unsettled, TypeOK, Goto, sessionVars
<1>1. CASE SpawnArrives(c)
  BY <1>1 DEF SpawnArrives, TurnKept, Phases
<1>2. CASE \E s \in Calls : InputArrives(c, s)
  BY <1>2 DEF InputArrives, TurnKept, Phases
<1>3. CASE Sweep(c)
  BY <1>3, SweepMove DEF SweepGoes, Sweeping, TurnKept
<1>4. CASE InsertSession(c)
  <2>1. target[c] = c /\ pc[c] = "insert" /\ outcome[c] = "none"
    BY <1>4 DEF InsertSession, Phases
  <2>2. \A d \in Calls : Closing(d) => target[d] # target[c]
    BY <2>1 DEF TargetsOver
  <2>3. target' = target /\ resumable' = resumable
    BY <1>4 DEF InsertSession
  <2>4. ~resumable[target[c]]
    BY <2>1, FreshNotResumable
  <2>5. QED
    BY <2>2, <2>3, <2>4 DEF TurnOpened
<1>4a. CASE CreateSession(c)
  <2>1. resumable' = resumable
    BY <1>4a, CreateKeeps
  <2>2. QED
    BY <1>4a, <2>1 DEF CreateSession, TurnKept
<1>5. CASE LookupSession(c) \/ ClaimSession(c) \/ AcquireCapacity(c)
  BY <1>5 DEF LookupSession, ClaimSession, AcquireCapacity, TurnKept
<1>6. CASE ReserveTurn(c)
  <2>1. CASE resumable[target[c]]
    <3>1. \A d \in Calls : Closing(d) => target[d] # target[c]
      BY <2>1 DEF OpenTurns
    <3>2. QED
      BY <1>6, <2>1, <3>1 DEF ReserveTurn, TurnOpened
  <2>2. CASE ~resumable[target[c]]
    BY <1>6, <2>2 DEF ReserveTurn, TurnKept
  <2>3. QED
    BY <2>1, <2>2
<1>7. CASE CancelBeforeDispatch(c) \/ StartRun(c) \/ ReleaseLease(c) \/ RemoveSession(c)
           \/ RequestCancel(c)
  BY <1>7 DEF CancelBeforeDispatch, StartRun, ReleaseLease, RemoveSession,
              RequestCancel, TurnKept
<1>8. CASE UndoReservation(c)
  <2>1. CASE Initial(c)
    BY <1>8, <2>1 DEF UndoReservation, TurnKept
  <2>2. CASE ~Initial(c)
    BY <1>8, <2>2 DEF UndoReservation, TurnSettled
  <2>3. QED
    BY <2>1, <2>2
<1>9. CASE CredentialMissing(c)
  BY <1>9 DEF CredentialMissing, TurnSettled
<1>10. CASE SettleTurn(c)
  <2>1. PICK result \in RunResults(c) :
           /\ outcome' = [outcome EXCEPT ![c] = result]
           /\ resumable' = [resumable EXCEPT ![target[c]] = Resumes(result)]
    BY <1>10 DEF SettleTurn
  <2>2. Resumes(result) \in BOOLEAN
    BY DEF Resumes
  <2>3. pc[c] = "running" /\ pc'[c] = "settled" /\ target' = target
    BY <1>10 DEF SettleTurn
  <2>4. \A s \in Calls \ {target[c]} : resumable'[s] = resumable[s]
    BY <2>1
  <2>5. outcome'[c] = result
    BY <2>1
  <2>6. Closing(c)' => result = "failed_closed"
    BY <2>3, <2>5 DEF RunResults
  <2>7. result = "failed_closed" => Resumes(result) = FALSE
    BY DEF Resumes
  <2>8. result = "failed_closed" => ~resumable'[target[c]]
    BY <2>1, <2>7
  <2>9. QED
    BY <2>3, <2>4, <2>6, <2>8 DEF TurnSettled
<1>11. CASE AbortTask(c)
  BY <1>11 DEF AbortTask, TurnKept, Phases
<1>12. QED
  BY <1>1, <1>2, <1>3, <1>4, <1>4a, <1>5, <1>6, <1>7, <1>8, <1>9, <1>10, <1>11,
     StepActions DEF Sweep

LEMMA OpenStep ==
    ASSUME TypeOK, TypeOK', Phases, TargetsOver, OpenTurns, FreshClosed, NEW c \in Calls, Step(c)
    PROVE  OpenTurns'
<1>1. \A d \in Calls \ {c} : /\ Closing(d)' <=> Closing(d)
                             /\ Unsettled(d)' <=> Unsettled(d)
                             /\ target'[d] = target[d]
  BY OthersUnmoved DEF Unmoved, Closing, Unsettled
<1>2. CASE TurnKept(c)
  <2>1. \A d \in Calls : /\ Closing(d)' => Closing(d) /\ target'[d] = target[d]
                         /\ Unsettled(d)' => Unsettled(d)
    BY <1>1, <1>2 DEF TurnKept
  <2>2. resumable' = resumable
    BY <1>2 DEF TurnKept
  <2>3. \A d \in Calls : Closing(d)' => ~resumable'[target'[d]]
    BY <2>1, <2>2 DEF OpenTurns
  <2>4. \A d, e \in Calls : Unsettled(d)' /\ Closing(e)' /\ target'[d] = target'[e] => d = e
    BY <2>1 DEF OpenTurns, Closing
  <2>5. QED
    BY <2>3, <2>4 DEF OpenTurns
<1>3. CASE TurnOpened(c)
  <2>1. \A s \in Calls \ {target[c]} : resumable'[s] = resumable[s]
    BY <1>3 DEF TurnOpened, TypeOK
  <2>2. ~resumable'[target[c]] /\ target' = target
    BY <1>3 DEF TurnOpened, TypeOK
  <2>3. \A d \in Calls \ {c} : Closing(d)' => Closing(d) /\ target[d] # target[c]
    BY <1>1, <1>3 DEF TurnOpened
  <2>4. \A d \in Calls : Closing(d)' => ~resumable'[target'[d]]
    BY <2>1, <2>2, <2>3 DEF OpenTurns, TypeOK
  <2>5. \A d, e \in Calls : Unsettled(d)' /\ Closing(e)' /\ target'[d] = target'[e] => d = e
    BY <1>1, <2>2, <2>3 DEF OpenTurns, Closing
  <2>6. QED
    BY <2>4, <2>5 DEF OpenTurns
<1>4. CASE TurnSettled(c)
  <2>2. \A s \in Calls \ {target[c]} : resumable'[s] = resumable[s]
    BY <1>4 DEF TurnSettled
  <2>3. Closing(c)' => ~resumable'[target[c]]
    BY <1>4 DEF TurnSettled
  <2>4. target' = target /\ Unsettled(c) /\ ~Unsettled(c)'
    BY <1>4 DEF TurnSettled
  <2>5. \A d \in Calls \ {c} : Closing(d) => target[d] # target[c]
    BY <2>4 DEF OpenTurns
  <2>6. \A d \in Calls : Closing(d)' => ~resumable'[target'[d]]
    BY <1>1, <2>2, <2>3, <2>4, <2>5 DEF OpenTurns, TypeOK
  <2>7. \A d, e \in Calls : Unsettled(d)' /\ Closing(e)' /\ target'[d] = target'[e] => d = e
    BY <1>1, <2>4, <2>5 DEF OpenTurns, Closing
  <2>8. QED
    BY <2>6, <2>7 DEF OpenTurns
<1>5. QED
  BY <1>2, <1>3, <1>4, TurnMove
-----------------------------------------------------------------------------
(* The ledger's view: a step begins a turn, settles one, or shows it nothing *)

LedgerKept(c) ==
    /\ resumable' = resumable
    /\ Unsettled(c)' <=> Unsettled(c)
    /\ Begun(c)' <=> Begun(c)
    /\ Begun(c) => target'[c] = target[c]
LedgerBegins(c) ==
    /\ target' = target
    /\ ~Begun(c) /\ Unsettled(c)'
    /\ \A d \in Calls : Unsettled(d) => target[d] # target[c]
    /\ target[c] = c \/ resumable[target[c]]
    /\ ~resumable'[target[c]]
    /\ \A s \in Calls \ {target[c]} : resumable'[s] = resumable[s]
LedgerSettles(c) ==
    /\ target' = target
    /\ Unsettled(c) /\ ~Unsettled(c)' /\ Begun(c)'
    /\ \A s \in Calls \ {target[c]} : resumable'[s] = resumable[s]

LEMMA LedgerMove ==
    ASSUME TypeOK, Phases, TargetsOver, OpenTurns, FreshClosed, NEW c \in Calls, Step(c)
    PROVE  LedgerKept(c) \/ LedgerBegins(c) \/ LedgerSettles(c)
<1> USE DEF Begun, Unsettled, TypeOK, Goto, sessionVars, Settled, Rejections, Aborted
<1>1. CASE SpawnArrives(c) \/ (\E s \in Calls : InputArrives(c, s))
  BY <1>1 DEF SpawnArrives, InputArrives, LedgerKept, Phases
<1>2. CASE Sweep(c)
  BY <1>2, SweepMove DEF SweepGoes, Sweeping, LedgerKept
<1>3. CASE InsertSession(c)
  <2>1. target[c] = c /\ pc[c] = "insert" /\ outcome[c] = "none"
    BY <1>3 DEF InsertSession, Phases
  <2>2. \A d \in Calls : Unsettled(d) => target[d] # target[c]
    BY <2>1 DEF TargetsOver
  <2>3. ~resumable[target[c]]
    BY <2>1, FreshNotResumable
  <2>4. QED
    BY <1>3, <2>1, <2>2, <2>3 DEF InsertSession, LedgerBegins
<1>3a. CASE CreateSession(c)
  <2>1. resumable' = resumable
    BY <1>3a, CreateKeeps
  <2>2. QED
    BY <1>3a, <2>1 DEF CreateSession, LedgerKept, Phases
<1>4. CASE LookupSession(c) \/ ClaimSession(c) \/ AcquireCapacity(c)
  BY <1>4 DEF LookupSession, ClaimSession, AcquireCapacity, LedgerKept, Phases
<1>5. CASE ReserveTurn(c)
  <2>1. outcome[c] = "none"
    BY <1>5 DEF ReserveTurn, Phases
  <2>2. CASE resumable[target[c]]
    <3>1. \A d \in Calls : Unsettled(d) => target[d] # target[c]
      BY <2>2 DEF OpenTurns, Closing
    <3>2. QED
      BY <1>5, <2>1, <2>2, <3>1 DEF ReserveTurn, LedgerBegins
  <2>3. CASE ~resumable[target[c]]
    BY <1>5, <2>1, <2>3 DEF ReserveTurn, LedgerKept
  <2>4. QED
    BY <2>2, <2>3
<1>6. CASE CancelBeforeDispatch(c) \/ StartRun(c) \/ ReleaseLease(c) \/ RemoveSession(c)
           \/ RequestCancel(c)
  BY <1>6 DEF CancelBeforeDispatch, StartRun, ReleaseLease, RemoveSession,
              RequestCancel, LedgerKept, Phases
<1>7. CASE UndoReservation(c)
  BY <1>7 DEF UndoReservation, LedgerSettles
<1>8. CASE CredentialMissing(c)
  BY <1>8 DEF CredentialMissing, LedgerSettles
<1>9. CASE SettleTurn(c)
  <2>1. PICK result \in RunResults(c) :
           /\ outcome' = [outcome EXCEPT ![c] = result]
           /\ resumable' = [resumable EXCEPT ![target[c]] = Resumes(result)]
    BY <1>9 DEF SettleTurn
  <2>2. outcome'[c] \in Settled
    BY <2>1 DEF RunResults
  <2>3. QED
    BY <1>9, <2>1, <2>2 DEF SettleTurn, LedgerSettles
<1>10. CASE AbortTask(c)
  <2>1. CASE Unsettled(c)
    BY <1>10, <2>1 DEF AbortTask, LedgerSettles
  <2>2. CASE ~Unsettled(c)
    BY <1>10, <2>2 DEF AbortTask, LedgerKept, Phases, Sweeping
  <2>3. QED
    BY <2>1, <2>2
<1>11. QED
  BY <1>1, <1>2, <1>3, <1>3a, <1>4, <1>5, <1>6, <1>7, <1>8, <1>9, <1>10, StepActions DEF Sweep

\* A turn that begins or settles is counted as begun, and shows on its own session.
LEMMA FreshStep ==
    ASSUME TypeOK, Phases, TargetsOver, OpenTurns, FreshClosed, NEW c \in Calls, Step(c)
    PROVE  FreshClosed'
<1> SUFFICES ASSUME NEW d \in Calls, pc'[d] # "done", ~Begun(d)'
             PROVE  ~resumable'[d]
  BY DEF FreshClosed
<1>1. pc[d] # "done" /\ ~Begun(d)
  <2>1. CASE d = c
    <3>1. pc[c] # "done"
      BY StepActions DEF SpawnArrives, InputArrives, Snapshot, Probe, ReadLastUse, EvictCheck,
         EvictCommit, CreateSession, InsertSession, LookupSession, ClaimSession, AcquireCapacity,
         ReserveTurn, CancelBeforeDispatch, UndoReservation, CredentialMissing, StartRun,
         SettleTurn, ReleaseLease, RemoveSession, RequestCancel, AbortTask, Unsettled, Sweeping
    <3>2. ~Begun(c)
      BY <2>1, LedgerMove DEF LedgerKept, LedgerBegins, LedgerSettles, Begun
    <3>3. QED
      BY <2>1, <3>1, <3>2
  <2>2. CASE d # c
    BY <2>2, OthersUnmoved DEF Unmoved, Begun, Unsettled
  <2>3. QED
    BY <2>1, <2>2
<1>2. ~resumable[d]
  BY <1>1 DEF FreshClosed
<1>3. CASE LedgerKept(c)
  BY <1>2, <1>3 DEF LedgerKept
<1>4. CASE LedgerBegins(c) \/ LedgerSettles(c)
  <2>1. d # c
    BY <1>4 DEF LedgerBegins, LedgerSettles, Begun
  <2>2. target[c] # d \/ target[c] = c
    BY <1>1 DEF TargetsOver
  <2>3. resumable'[d] = resumable[d]
    BY <1>4, <2>1, <2>2 DEF LedgerBegins, LedgerSettles
  <2>4. QED
    BY <1>2, <2>3
<1>5. QED
  BY <1>3, <1>4, LedgerMove

-----------------------------------------------------------------------------
(* Uses: a step stamps its own session with a new time, or stamps none and     *)
(* lists a session at its last use, or picks for eviction one that nobody holds *)

ListedNow(e) == e.at = accessed[e.id]
UseStamped(c) ==
    /\ Touch(target[c]) /\ target' = target /\ sweep' = sweep
    /\ pc'[c] # "commit"
UseKept(c) ==
    /\ accessed' = accessed /\ clock' = clock
    /\ Reserved(c)' => (Reserved(c) \/ MapUnlocked) /\ target'[c] = target[c]
    /\ \A e \in sweep'[c].idle : e \in sweep[c].idle \/ ListedNow(e)
    /\ pc'[c] = "commit" => \A s \in sweep'[c].hand : ~busy[s]

LEMMA RankedFromListed ==
    ASSUME TypeOK, NEW c \in Calls, NEW todo, NEW idle, ProbeOrRank(c, todo, idle)
    PROVE  sweep'[c].idle \subseteq idle
<1>1. CASE todo # {}
  BY <1>1 DEF ProbeOrRank, TypeOK
<1>2. CASE todo = {}
  <2>1. sweep'[c] = [todo |-> {}, hand |-> {}, idle |-> Excess(idle)]
    BY <1>2 DEF ProbeOrRank, TypeOK
  <2>2. Excess(idle) \subseteq idle
    BY DEF Excess
  <2>3. QED
    BY <2>1, <2>2
<1>3. QED
  BY <1>1, <1>2

LEMMA SweepLists ==
    ASSUME TypeOK, NEW c \in Calls, Sweep(c)
    PROVE  /\ \A e \in sweep'[c].idle : e \in sweep[c].idle \/ ListedNow(e)
           /\ pc'[c] = "commit" => \A s \in sweep'[c].hand : ~busy[s]
<1>1. CASE Snapshot(c)
  <2>1. pc'[c] # "commit"
    BY <1>1 DEF Snapshot, ProbeOrRank, EvictOrReturn, Goto, TypeOK
  <2>2. QED
    BY <1>1, <2>1, RankedFromListed DEF Snapshot
<1>2. ASSUME NEW s \in Calls, Probe(c, s)
      PROVE  sweep'[c].idle \subseteq sweep[c].idle /\ pc'[c] # "commit"
  <2>1. pc'[c] # "commit"
    BY <1>2 DEF Probe, ProbeOrRank, EvictOrReturn, Goto, TypeOK
  <2>2. CASE busy[s]
    BY <1>2, <2>1, <2>2, RankedFromListed DEF Probe
  <2>3. CASE ~busy[s]
    BY <1>2, <2>1, <2>3 DEF Probe, TypeOK
  <2>4. QED
    BY <2>2, <2>3
<1>3. CASE ReadLastUse(c)
  <2>1. pc'[c] # "commit"
    BY <1>3 DEF ReadLastUse, ProbeOrRank, EvictOrReturn, Goto, TypeOK
  <2>2. PICK s \in sweep[c].hand :
           ProbeOrRank(c, sweep[c].todo, sweep[c].idle \cup {[id |-> s, at |-> accessed[s]]})
    BY <1>3 DEF ReadLastUse
  <2>3. sweep'[c].idle \subseteq sweep[c].idle \cup {[id |-> s, at |-> accessed[s]]}
    BY <2>2, RankedFromListed
  <2>4. QED
    BY <2>1, <2>3 DEF ListedNow
<1>4. CASE EvictCheck(c)
  <2>1. PICK e \in sweep[c].idle :
           IF e.id \in retained /\ ~busy[e.id]
           THEN sweep' = [sweep EXCEPT ![c].hand = {e.id}]
           ELSE /\ sweep' = [sweep EXCEPT ![c].idle = @ \ {e}]
                /\ EvictOrReturn(c, sweep[c].idle \ {e})
    BY <1>4 DEF EvictCheck
  <2>2. CASE e.id \in retained /\ ~busy[e.id]
    <3>1. sweep'[c].idle = sweep[c].idle /\ sweep'[c].hand = {e.id}
      BY <2>1, <2>2 DEF TypeOK
    <3>2. QED
      BY <2>2, <3>1
  <2>3. CASE ~(e.id \in retained /\ ~busy[e.id])
    <3>1. sweep'[c].idle = sweep[c].idle \ {e} /\ pc'[c] # "commit"
      BY <2>1, <2>3 DEF TypeOK, EvictOrReturn, Goto
    <3>2. QED
      BY <3>1
  <2>4. QED
    BY <2>2, <2>3
<1>5. CASE EvictCommit(c)
  <2>1. PICK e \in sweep[c].idle :
           /\ sweep' = [sweep EXCEPT ![c].hand = {}, ![c].idle = @ \ {e}]
           /\ EvictOrReturn(c, sweep[c].idle \ {e})
    BY <1>5 DEF EvictCommit
  <2>2. sweep'[c].idle = sweep[c].idle \ {e} /\ pc'[c] # "commit"
    BY <2>1 DEF TypeOK, EvictOrReturn, Goto
  <2>3. QED
    BY <2>2
<1>6. QED
  BY <1>1, <1>2, <1>3, <1>4, <1>5 DEF Sweep

LEMMA UseMove ==
    ASSUME TypeOK, Phases, NEW c \in Calls, Step(c)
    PROVE  UseKept(c) \/ UseStamped(c)
<1> USE DEF Reserved, TypeOK, Goto, sessionVars
<1>a. ASSUME accessed' = accessed, clock' = clock, sweep' = sweep, pc'[c] # "commit",
             Reserved(c)' => (Reserved(c) \/ MapUnlocked) /\ target'[c] = target[c]
      PROVE  UseKept(c)
  BY <1>a DEF UseKept
<1>1. CASE SpawnArrives(c)
  BY <1>1, <1>a DEF SpawnArrives
<1>2. CASE \E s \in Calls : InputArrives(c, s)
  BY <1>2, <1>a DEF InputArrives
<1>3. CASE Sweep(c)
  <2>1. accessed' = accessed /\ clock' = clock /\ ~Reserved(c)'
    BY <1>3, SweepMove DEF SweepGoes, Sweeping
  <2>2. QED
    BY <1>3, <2>1, SweepLists DEF UseKept
<1>4. CASE CreateSession(c)
  BY <1>4 DEF CreateSession, UseStamped, Phases
<1>5. CASE InsertSession(c) \/ LookupSession(c) \/ ClaimSession(c) \/ AcquireCapacity(c)
  BY <1>5, <1>a DEF InsertSession, LookupSession, ClaimSession, AcquireCapacity
<1>6. CASE CancelBeforeDispatch(c) \/ StartRun(c) \/ ReleaseLease(c) \/ RemoveSession(c)
           \/ RequestCancel(c)
  BY <1>6, <1>a DEF CancelBeforeDispatch, StartRun, ReleaseLease, RemoveSession, RequestCancel
<1>7. CASE ReserveTurn(c) \/ CredentialMissing(c) \/ SettleTurn(c)
  BY <1>7 DEF ReserveTurn, CredentialMissing, SettleTurn, UseStamped
<1>8. CASE UndoReservation(c)
  <2>1. CASE Initial(c)
    BY <1>8, <1>a, <2>1 DEF UndoReservation
  <2>2. CASE ~Initial(c)
    BY <1>8, <2>2 DEF UndoReservation, UseStamped
  <2>3. QED
    BY <2>1, <2>2
<1>9. CASE AbortTask(c)
  <2>1. /\ accessed' = accessed /\ clock' = clock /\ pc'[c] = "done"
        /\ sweep'[c] = NoSweep
    BY <1>9 DEF AbortTask
  <2>2. sweep'[c].idle = {}
    BY <2>1 DEF NoSweep
  <2>3. QED
    BY <2>1, <2>2 DEF UseKept
<1>10. QED
  BY <1>1, <1>2, <1>3, <1>4, <1>5, <1>6, <1>7, <1>8, <1>9, StepActions DEF Sweep

LEMMA UseStep ==
    ASSUME TypeOK, TypeOK', Phases, LeaseIsExclusive, SweepsAreOld, HandIsOld, ClockLeads,
           NEW c \in Calls, Step(c)
    PROVE  SweepsAreOld' /\ HandIsOld' /\ ClockLeads'
<1>1. \A d \in Calls \ {c} : /\ Reserved(d)' <=> Reserved(d)
                             /\ pc'[d] = pc[d]
                             /\ target'[d] = target[d]
                             /\ sweep'[d] = sweep[d]
  BY OthersUnmoved DEF Unmoved, Reserved
<1>2. CASE UseKept(c)
  <2>0. accessed' = accessed
    BY <1>2 DEF UseKept
  <2>1. ClockLeads'
    BY <1>2 DEF UseKept, ClockLeads
  <2>2. ASSUME NEW b \in Calls, NEW e \in sweep'[b].idle
        PROVE  e.at <= accessed[e.id]
    <3>1. e.id \in Calls /\ accessed[e.id] \in Nat
      BY <2>0, <2>2 DEF TypeOK, Entry
    <3>2. CASE b = c
      BY <1>2, <2>2, <3>1, <3>2 DEF UseKept, SweepsAreOld, ListedNow
    <3>3. CASE b # c
      BY <1>1, <2>2, <3>3 DEF SweepsAreOld
    <3>4. QED
      BY <3>2, <3>3
  <2>3. SweepsAreOld'
    BY <2>0, <2>2 DEF SweepsAreOld
  <2>4. ASSUME NEW b \in Calls, NEW d \in Calls, pc'[b] = "commit", Reserved(d)',
               NEW e \in sweep'[b].idle, e.id \in sweep'[b].hand, e.id = target'[d]
        PROVE  e.at < accessed[e.id]
    <3>1. d # c => Reserved(d) /\ target'[d] = target[d]
      BY <1>1, <2>4
    <3>2. CASE b = c
      <4>1. d # c
        BY <2>4, <3>2 DEF Reserved
      <4>2. ~busy[target[d]]
        BY <1>2, <2>4, <3>1, <3>2, <4>1 DEF UseKept
      <4>3. Leased(d) /\ target[d] \in Calls
        BY <3>1, <4>1 DEF Leased, Reserved, TypeOK
      <4>4. QED
        BY <4>2, <4>3 DEF LeaseIsExclusive
    <3>3. CASE b # c
      <4>1. pc[b] = "commit" /\ e \in sweep[b].idle /\ e.id \in sweep[b].hand
        BY <1>1, <2>4, <3>3
      <4>2. ~MapUnlocked
        BY <4>1 DEF MapUnlocked
      <4>3. Reserved(d) /\ target'[d] = target[d]
        BY <1>2, <2>4, <3>1, <4>2 DEF UseKept
      <4>4. QED
        BY <2>4, <4>1, <4>3 DEF HandIsOld
    <3>4. QED
      BY <3>2, <3>3
  <2>5. HandIsOld'
    BY <2>0, <2>4 DEF HandIsOld
  <2>6. QED
    BY <2>1, <2>3, <2>5
<1>3. CASE UseStamped(c)
  <2>1. accessed' = [accessed EXCEPT ![target[c]] = clock + 1] /\ clock' = clock + 1
        /\ target' = target /\ sweep' = sweep
    BY <1>3 DEF UseStamped, Touch
  <2>2. ClockLeads'
    BY <2>1 DEF ClockLeads, TypeOK
  <2>3. ASSUME NEW b \in Calls, NEW e \in sweep[b].idle
        PROVE  /\ e.at <= accessed'[e.id]
               /\ e.id = target[c] => e.at < accessed'[e.id]
               /\ e.id # target[c] => accessed'[e.id] = accessed[e.id]
    <3>1. e.id \in Calls /\ e.at \in Nat
      BY DEF TypeOK, Entry
    <3>2. e.at <= accessed[e.id] /\ accessed[e.id] <= clock
      BY <3>1 DEF SweepsAreOld, ClockLeads
    <3>3. CASE e.id = target[c]
      <4>1. accessed'[e.id] = clock + 1
        BY <2>1, <3>1, <3>3 DEF TypeOK
      <4>2. QED
        BY <3>1, <3>2, <3>3, <4>1 DEF TypeOK
    <3>4. CASE e.id # target[c]
      <4>1. accessed'[e.id] = accessed[e.id]
        BY <2>1, <3>1, <3>4 DEF TypeOK
      <4>2. QED
        BY <3>2, <3>4, <4>1
    <3>5. QED
      BY <3>3, <3>4
  <2>4. SweepsAreOld'
    BY <2>1, <2>3 DEF SweepsAreOld
  <2>5. ASSUME NEW b \in Calls, NEW d \in Calls, pc'[b] = "commit", Reserved(d)',
               NEW e \in sweep[b].idle, e.id \in sweep[b].hand, e.id = target[d]
        PROVE  e.at < accessed'[e.id]
    <3>1. CASE e.id = target[c]
      BY <2>3, <3>1
    <3>2. CASE e.id # target[c]
      <4>1. d # c
        BY <2>5, <3>2
      <4>2. pc[b] = "commit"
        BY <1>1, <1>3, <2>5 DEF UseStamped
      <4>3. Reserved(d)
        BY <1>1, <2>5, <4>1
      <4>4. QED
        BY <2>3, <2>5, <3>2, <4>2, <4>3 DEF HandIsOld
    <3>3. QED
      BY <3>1, <3>2
  <2>6. HandIsOld'
    BY <2>1, <2>5 DEF HandIsOld
  <2>7. QED
    BY <2>2, <2>4, <2>6
<1>4. QED
  BY <1>2, <1>3, UseMove

-----------------------------------------------------------------------------
(* The invariant *)

LEMMA InitInvariant == Init => IInv
<1> SUFFICES ASSUME Init PROVE IInv
  OBVIOUS
<1> USE RuntimeAssumption DEF Init
<1>1. TypeOK
  BY DEF TypeOK, PC, NoSweep
<1>2. Phases /\ TargetsOver /\ SweepsAreOld /\ HandIsOld /\ ClockLeads /\ FreshClosed
  BY DEF Phases, TargetsOver, SweepsAreOld, HandIsOld, ClockLeads, FreshClosed, NoSweep,
         Sweeping, Settled
<1>3. LeaseIsExclusive
  BY DEF LeaseIsExclusive, Leased
<1>4. OpenTurns
  BY DEF OpenTurns, Closing, Unsettled
<1>5. PermitsBalance
  <2>1. {c \in Calls : Holding(c)} = {}
    BY DEF Holding, Sweeping
  <2>2. QED
    BY <2>1, FS_EmptySet DEF PermitsBalance
<1>6. QED
  BY <1>1, <1>2, <1>3, <1>4, <1>5 DEF IInv

LEMMA StutterInvariant == IInv /\ UNCHANGED vars => IInv'
BY DEF IInv, vars, TypeOK, Phases, TargetsOver, LeaseIsExclusive, PermitsBalance, OpenTurns,
       FreshClosed, Begun, SweepsAreOld, HandIsOld, ClockLeads, Sweeping, Leased, Holding, Initial, Closing, Unsettled, Reserved

LEMMA NextInvariant == IInv /\ [Next]_vars => IInv'
<1> SUFFICES ASSUME IInv, [Next]_vars PROVE IInv'
  OBVIOUS
<1>1. ASSUME NEW c \in Calls, Step(c)
      PROVE  IInv'
  <2>1. TypeOK /\ Phases /\ TargetsOver /\ LeaseIsExclusive /\ PermitsBalance
        /\ OpenTurns /\ FreshClosed /\ SweepsAreOld /\ HandIsOld /\ ClockLeads
    BY DEF IInv
  <2>2. TypeOK' /\ Phases'
    BY <1>1, <2>1, TypeStep
  <2>3. TargetsOver' /\ PermitsBalance'
    BY <1>1, <2>1, TargetsStep, PermitStep
  <2>4. LeaseIsExclusive' /\ OpenTurns'
    BY <1>1, <2>1, <2>2, LeaseStep, OpenStep
  <2>5. SweepsAreOld' /\ HandIsOld' /\ ClockLeads'
    BY <1>1, <2>1, <2>2, UseStep
  <2>6. FreshClosed'
    BY <1>1, <2>1, FreshStep
  <2>7. QED
    BY <2>2, <2>3, <2>4, <2>5, <2>6 DEF IInv
<1>2. CASE UNCHANGED vars
  BY <1>2, StutterInvariant
<1>3. QED
  BY <1>1, <1>2, StutterInvariant DEF Next, Step, AllDone

\* IInv is an invariant of the runtime; what follows rests on it.
THEOREM Invariant == Spec => []IInv
BY InitInvariant, NextInvariant, PTL DEF Spec

\* Every variable keeps its type; in particular the permits of acquire_capacity
\* never exceed RUNTIME_CAPACITY.
THEOREM TypeCorrect == Spec => []TypeOK
<1>1. IInv => TypeOK
  BY DEF IInv
<1>2. QED
  BY <1>1, Invariant, PTL

\* The busy flag is a lock, for any number of calls on any number of sessions.
THEOREM LeaseExclusion == Spec => []LeaseIsExclusive
<1>1. IInv => LeaseIsExclusive
  BY DEF IInv
<1>2. QED
  BY <1>1, Invariant, PTL

\* No path through prepare_spawn, prepare_input and execute leaks a permit.
THEOREM PermitConservation == Spec => []PermitsBalance
<1>1. IInv => PermitsBalance
  BY DEF IInv
<1>2. QED
  BY <1>1, Invariant, PTL

\* A session is never resumable while a turn on it is open or once one was lost.
THEOREM ResumableSafety == Spec => []ResumableOnlyWhenSettled
<1>1. IInv => ResumableOnlyWhenSettled
  BY DEF IInv, OpenTurns, Closing, ResumableOnlyWhenSettled
<1>2. QED
  BY <1>1, Invariant, PTL
-----------------------------------------------------------------------------
(* Removals: only a sweep, or the spawn of the session itself, takes one out *)

Keeps(d) == Reserved(d) => ~(target[d] \in retained /\ target[d] \notin retained')

LEMMA OwnRemoval ==
    ASSUME IInv, NEW c \in Calls, pc[c] \in {"undo", "unlink"}, Initial(c),
           retained' = retained \ {target[c]}, NEW d \in Calls
    PROVE  Keeps(d)
<1>1. TargetsOver /\ target[c] = c
  BY DEF IInv, Initial
<1>2. Reserved(d) => target[d] # c
  BY <1>1 DEF TargetsOver, Reserved
<1>3. QED
  BY <1>1, <1>2 DEF Keeps

LEMMA EvictKeeps ==
    ASSUME IInv, NEW c \in Calls, EvictCommit(c), NEW d \in Calls
    PROVE  Keeps(d)
<1>1. PICK e \in sweep[c].idle :
         /\ e.id \in sweep[c].hand
         /\ retained' = IF UsedSinceListed(e) THEN retained ELSE retained \ {e.id}
  BY DEF EvictCommit
<1>2. Reserved(d) /\ target[d] = e.id => e.at < accessed[e.id]
  BY <1>1 DEF IInv, HandIsOld, EvictCommit
<1>3. e.at \in Nat /\ e.id \in Calls /\ accessed[e.id] \in Nat
  BY DEF IInv, TypeOK, Entry
<1>4. Reserved(d) /\ target[d] = e.id => UsedSinceListed(e)
  BY <1>2, <1>3 DEF UsedSinceListed
<1>5. QED
  BY <1>1, <1>4 DEF Keeps

LEMMA StepKeeps ==
    ASSUME IInv, NEW c \in Calls, Step(c), NEW d \in Calls
    PROVE  Keeps(d)
<1>1. CASE EvictCommit(c)
  BY <1>1, EvictKeeps
<1>2. CASE UndoReservation(c)
  BY <1>2, OwnRemoval DEF UndoReservation, Keeps
<1>3. CASE RemoveSession(c)
  <2>1. Phases
    BY DEF IInv
  <2>2. Initial(c) /\ pc[c] = "unlink"
    BY <1>3, <2>1 DEF RemoveSession, Phases, Initial
  <2>3. QED
    BY <1>3, <2>2, OwnRemoval DEF RemoveSession
<1>4. CASE retained \subseteq retained'
  BY <1>4 DEF Keeps
<1>5. \/ EvictCommit(c) \/ UndoReservation(c) \/ RemoveSession(c)
      \/ retained \subseteq retained'
  BY StepActions DEF SpawnArrives, InputArrives, Snapshot, Probe, ReadLastUse, EvictCheck,
     CreateSession, InsertSession, LookupSession, ClaimSession, AcquireCapacity, ReserveTurn,
     CancelBeforeDispatch, CredentialMissing, StartRun, SettleTurn,
     ReleaseLease, RequestCancel, AbortTask
<1>6. QED
  BY <1>1, <1>2, <1>3, <1>4, <1>5

\* cleanup_idle_sessions never takes a session from under a prepared or running
\* turn, although the list it works from is stale by then.
THEOREM ReservedSessionSafety == Spec => ReservedSessionStays
<1>1. IInv /\ [Next]_vars
        => [\A c \in Calls : Reserved(c) => ~(target[c] \in retained /\ target[c] \notin retained')]_vars
  <2> SUFFICES ASSUME IInv, Next, NEW d \in Calls
               PROVE  Keeps(d)
    BY DEF Keeps
  <2>1. ASSUME NEW c \in Calls, Step(c)
        PROVE  Keeps(d)
    BY <2>1, StepKeeps
  <2>2. CASE AllDone
    BY <2>2 DEF AllDone, vars, Keeps
  <2>3. QED
    BY <2>1, <2>2 DEF Next, Step
<1>2. QED
  BY <1>1, Invariant, PTL DEF ReservedSessionStays, Spec
-----------------------------------------------------------------------------
(* Spawns that were cancelled *)

\* A cancelled spawn is out of the session map once the step that removes it is past.
CancelledGone ==
    \A c \in Calls : Initial(c) /\ outcome[c] = "cancelled" /\ pc[c] \notin {"settled", "unlink"}
        => c \notin retained

\* Only an insertion adds to the map, and it is of a call with no outcome yet.
LEMMA RetainedMove ==
    ASSUME TypeOK, Phases, NEW c \in Calls, Step(c)
    PROVE  retained' \subseteq retained \/ (retained' = retained \cup {c} /\ InsertSession(c))
<1>1. CASE EvictCommit(c)
  BY <1>1 DEF EvictCommit
<1>2. CASE InsertSession(c)
  BY <1>2 DEF InsertSession
<1>3. CASE UndoReservation(c) \/ RemoveSession(c)
  BY <1>3 DEF UndoReservation, RemoveSession
<1>4. \/ EvictCommit(c) \/ InsertSession(c) \/ UndoReservation(c) \/ RemoveSession(c)
      \/ retained' = retained
  BY StepActions DEF SpawnArrives, InputArrives, Snapshot, Probe, ReadLastUse, EvictCheck,
     CreateSession, LookupSession, ClaimSession, AcquireCapacity, ReserveTurn,
     CancelBeforeDispatch, CredentialMissing, StartRun, SettleTurn,
     ReleaseLease, RequestCancel, AbortTask
<1>5. QED
  BY <1>1, <1>2, <1>3, <1>4

\* A call that is past its removal was so before, or its session goes with the step.
Left(c) == outcome[c] = "cancelled" /\ pc[c] \notin {"settled", "unlink"} /\ target[c] = c
LEMMA CancelledMove ==
    ASSUME TypeOK, Phases, NEW c \in Calls, Step(c), Left(c)'
    PROVE  Left(c) \/ retained' = retained \ {c}
<1> USE DEF Left, Goto, TypeOK, sessionVars
<1>1. CASE SpawnArrives(c) \/ (\E s \in Calls : InputArrives(c, s))
  BY <1>1 DEF SpawnArrives, InputArrives
<1>2. CASE Sweep(c)
  BY <1>2, SweepMove DEF Sweeping
<1>3. CASE CreateSession(c) \/ InsertSession(c) \/ LookupSession(c) \/ ClaimSession(c)
           \/ AcquireCapacity(c) \/ ReserveTurn(c)
  BY <1>3 DEF CreateSession, InsertSession, LookupSession, ClaimSession, AcquireCapacity, ReserveTurn, Phases
<1>4. CASE UndoReservation(c)
  BY <1>4 DEF UndoReservation, Initial
<1>5. CASE RemoveSession(c)
  BY <1>5 DEF RemoveSession
<1>6. CASE ReleaseLease(c)
  BY <1>6 DEF ReleaseLease, Unlinks, Initial
<1>7. CASE CancelBeforeDispatch(c) \/ StartRun(c) \/ CredentialMissing(c) \/ SettleTurn(c)
  BY <1>7 DEF CancelBeforeDispatch, StartRun, CredentialMissing, SettleTurn, Phases
<1>8. CASE RequestCancel(c) \/ AbortTask(c)
  BY <1>8 DEF RequestCancel, AbortTask
<1>9. QED
  BY <1>1, <1>2, <1>3, <1>4, <1>5, <1>6, <1>7, <1>8, StepActions DEF Sweep

LEMMA CancelledStep ==
    ASSUME TypeOK, Phases, CancelledGone, NEW c \in Calls, Step(c)
    PROVE  CancelledGone'
<1> SUFFICES ASSUME NEW d \in Calls, Left(d)'
             PROVE  d \notin retained'
  BY DEF CancelledGone, Left, Initial
<1>1. Left(d) \/ retained' = retained \ {d}
  <2>1. CASE d = c
    BY <2>1, CancelledMove
  <2>2. CASE d # c
    BY <2>2, OthersUnmoved DEF Unmoved, Left
  <2>3. QED
    BY <2>1, <2>2
<1>2. CASE retained' = retained \ {d}
  BY <1>2
<1>3. CASE Left(d)
  <2>1. d \notin retained
    BY <1>3 DEF CancelledGone, Left, Initial
  <2>2. InsertSession(c) => c # d
    BY <1>3 DEF InsertSession, Phases, Left
  <2>3. QED
    BY <2>1, <2>2, RetainedMove
<1>4. QED
  BY <1>1, <1>2, <1>3

\* A spawn that was cancelled, before its turn ran or while it did, leaves no
\* session in the map: not even when the cleanups of other calls come in between.
THEOREM CancelledSpawnSafety == Spec => []CancelledSpawnLeavesNothing
<1>1. Init => CancelledGone
  BY DEF Init, CancelledGone
<1>2. IInv /\ CancelledGone /\ [Next]_vars => CancelledGone'
  <2> SUFFICES ASSUME IInv, CancelledGone, [Next]_vars PROVE CancelledGone'
    OBVIOUS
  <2>1. ASSUME NEW c \in Calls, Step(c)
        PROVE  CancelledGone'
    BY <2>1, CancelledStep DEF IInv
  <2>2. CASE UNCHANGED vars
    BY <2>2 DEF vars, CancelledGone, Initial
  <2>3. QED
    BY <2>1, <2>2 DEF Next, Step, AllDone
<1>3. CancelledGone => CancelledSpawnLeavesNothing
  BY DEF CancelledGone, CancelledSpawnLeavesNothing
<1>4. QED
  BY <1>1, <1>2, <1>3, Invariant, PTL DEF Spec

-----------------------------------------------------------------------------
(* The ledger *)

\* A follow-up's session had its own first turn, and it settled.
TargetsBegun == \A c \in Calls : target[c] # c => outcome[target[c]] \in Settled

LEMMA BegunStep ==
    ASSUME TypeOK, Phases, TargetsOver, TargetsBegun, NEW c \in Calls, Step(c)
    PROVE  TargetsBegun'
<1>1. CASE \E s \in Calls : InputArrives(c, s)
  <2>1. PICK s \in Calls : InputArrives(c, s)
    BY <1>1
  <2>2. outcome[s] \in Settled /\ outcome' = outcome
    BY <2>1 DEF InputArrives, Known, TargetsBegun, sessionVars
  <2>3. target' = [target EXCEPT ![c] = s]
    BY <2>1 DEF InputArrives
  <2>4. QED
    BY <2>2, <2>3 DEF TargetsBegun, TypeOK
<1>2. CASE target' = target /\ pc[c] # "done"
  <2>1. \A d \in Calls : target[d] # d => target[d] # c
    BY <1>2 DEF TargetsOver
  <2>2. \A d \in Calls \ {c} : outcome'[d] = outcome[d]
    BY OthersUnmoved DEF Unmoved
  <2>3. QED
    BY <1>2, <2>1, <2>2 DEF TargetsBegun, TypeOK
<1>3. (target' = target /\ pc[c] # "done") \/ \E s \in Calls : InputArrives(c, s)
  BY StepActions DEF SpawnArrives, InputArrives, Snapshot, Probe, ReadLastUse, EvictCheck, EvictCommit,
     CreateSession, InsertSession, LookupSession, ClaimSession, AcquireCapacity, ReserveTurn,
     CancelBeforeDispatch, UndoReservation, CredentialMissing, StartRun, SettleTurn,
     ReleaseLease, RemoveSession, RequestCancel, AbortTask, Unsettled, Sweeping
<1>4. QED
  BY <1>1, <1>2, <1>3

\* The abstract ledger's variables, as AgentRuntime maps them.
LiveOf == {<<c, target[c]>> : c \in {d \in Calls : Unsettled(d)}}
BegunOf == {c \in Calls : Begun(c)}
Standing(s) ==
    IF ~(Begun(s) /\ Initial(s)) THEN "fresh" ELSE IF resumable[s] THEN "open" ELSE "closed"
StateOf == [s \in Calls |-> Standing(s)]

LEMMA KeptIsStutter ==
    ASSUME TypeOK, TypeOK', NEW c \in Calls, LedgerKept(c),
           \A d \in Calls \ {c} : /\ Unsettled(d)' <=> Unsettled(d)
                                  /\ Begun(d)' <=> Begun(d)
                                  /\ target'[d] = target[d]
    PROVE  UNCHANGED Ledger!ledgerVars
<1>1. \A d \in Calls : /\ Unsettled(d)' <=> Unsettled(d)
                       /\ Begun(d)' <=> Begun(d)
                       /\ Begun(d) => target'[d] = target[d]
  BY DEF LedgerKept
<1>2. \A d \in Calls : Unsettled(d) => target'[d] = target[d]
  BY <1>1 DEF Begun
<1>3. LiveOf' = LiveOf
  BY <1>1, <1>2 DEF LiveOf
<1>4. BegunOf' = BegunOf
  BY <1>1 DEF BegunOf
<1>5. \A s \in Calls : Standing(s)' = Standing(s)
  BY <1>1 DEF LedgerKept, Standing, Initial
<1>6. StateOf' = StateOf
  BY <1>5 DEF StateOf
<1>7. QED
  BY <1>3, <1>4, <1>6 DEF Ledger!ledgerVars, LiveOf, BegunOf, StateOf, Standing

LEMMA BeginsOnLedger ==
    ASSUME TypeOK, TypeOK', TargetsBegun, TargetsOver, NEW c \in Calls, LedgerBegins(c),
           \A d \in Calls \ {c} : /\ Unsettled(d)' <=> Unsettled(d)
                                  /\ Begun(d)' <=> Begun(d),
           NEW s \in Calls, s = target[c]
    PROVE  Ledger!Begin(c, s)
<1>0. target' = target
  BY DEF LedgerBegins
<1>1. c \notin BegunOf /\ BegunOf' = BegunOf \cup {c}
  BY DEF LedgerBegins, BegunOf, Begun
<1>2. \A l \in LiveOf : l[2] # s
  BY DEF LedgerBegins, LiveOf
<1>3. LiveOf' = LiveOf \cup {<<c, s>>}
  BY <1>0 DEF LedgerBegins, LiveOf
<1>4. StateOf[s] \in {"fresh", "open"}
  BY <1>0 DEF LedgerBegins, StateOf, Standing
<1>5. Begun(s)' /\ Initial(s)'
  <2>1. CASE s = c
    BY <1>0, <2>1 DEF LedgerBegins, Begun, Initial
  <2>2. CASE s # c
    <3>1. outcome[s] \in Settled /\ target[s] = s
      BY <2>2 DEF TargetsBegun, TargetsOver
    <3>2. Begun(s)
      BY <3>1 DEF Begun
    <3>3. QED
      BY <1>0, <2>2, <3>1, <3>2 DEF Initial
  <2>3. QED
    BY <2>1, <2>2
<1>6. Standing(s)' = "closed"
  BY <1>0, <1>5 DEF Standing, LedgerBegins, TypeOK
<1>7. \A r \in Calls \ {s} : Standing(r)' = Standing(r)
  <2> SUFFICES ASSUME NEW r \in Calls, r # s PROVE Standing(r)' = Standing(r)
    OBVIOUS
  <2>1. resumable'[r] = resumable[r] /\ target'[r] = target[r]
    BY <1>0 DEF LedgerBegins, TypeOK
  <2>2. (Begun(r) /\ Initial(r))' <=> (Begun(r) /\ Initial(r))
    BY <1>0, <2>1 DEF Initial
  <2>3. QED
    BY <2>1, <2>2 DEF Standing
<1>8. StateOf' = [StateOf EXCEPT ![s] = "closed"]
  BY <1>0, <1>6, <1>7 DEF StateOf
<1>9. QED
  BY <1>1, <1>2, <1>3, <1>4, <1>8 DEF Ledger!Begin, LiveOf, BegunOf, StateOf, Standing

LEMMA SettlesOnLedger ==
    ASSUME TypeOK, TypeOK', TargetsBegun, TargetsOver, NEW c \in Calls, LedgerSettles(c),
           \A d \in Calls \ {c} : /\ Unsettled(d)' <=> Unsettled(d)
                                  /\ Begun(d)' <=> Begun(d),
           NEW s \in Calls, s = target[c]
    PROVE  Ledger!Settle(c, s)
<1>0. target' = target
  BY DEF LedgerSettles
<1>1. <<c, s>> \in LiveOf /\ LiveOf' = LiveOf \ {<<c, s>>}
  BY <1>0 DEF LedgerSettles, LiveOf
<1>2. \A d \in Calls : Begun(d)' <=> Begun(d)
  BY DEF LedgerSettles, Begun
<1>3. BegunOf' = BegunOf
  BY <1>2 DEF BegunOf
<1>4. Begun(s)' /\ Initial(s)'
  <2>1. CASE s = c
    BY <1>0, <2>1 DEF LedgerSettles, Initial
  <2>2. CASE s # c
    <3>1. outcome[s] \in Settled /\ target[s] = s
      BY <2>2 DEF TargetsBegun, TargetsOver
    <3>2. Begun(s)
      BY <3>1 DEF Begun
    <3>3. QED
      BY <1>0, <1>2, <3>1, <3>2 DEF Initial
  <2>3. QED
    BY <2>1, <2>2
<1>5. Standing(s)' \in {"open", "closed"}
  BY <1>4 DEF Standing
<1>6. \A r \in Calls \ {s} : Standing(r)' = Standing(r)
  BY <1>0, <1>2 DEF LedgerSettles, Standing, Initial
<1>7. StateOf' = [StateOf EXCEPT ![s] = Standing(s)']
  BY <1>0, <1>6 DEF StateOf
<1>8. \E next \in {"open", "closed"} : StateOf' = [StateOf EXCEPT ![s] = next]
  BY <1>5, <1>7
<1>9. QED
  BY <1>1, <1>3, <1>8 DEF Ledger!Settle, LiveOf, BegunOf, StateOf, Standing

LEMMA StepOnLedger ==
    ASSUME IInv, IInv', TargetsBegun, NEW c \in Calls, Step(c)
    PROVE  [Ledger!LedgerNext]_(Ledger!ledgerVars)
<1>0. TypeOK /\ TypeOK' /\ Phases /\ TargetsOver /\ OpenTurns /\ FreshClosed /\ target[c] \in Calls
  BY DEF IInv, TypeOK
<1> PICK s \in Calls : s = target[c]
  BY <1>0
<1>1. \A d \in Calls \ {c} : /\ Unsettled(d)' <=> Unsettled(d)
                             /\ Begun(d)' <=> Begun(d)
                             /\ target'[d] = target[d]
  BY <1>0, OthersUnmoved DEF Unmoved, Unsettled, Begun
<1>2. CASE LedgerKept(c)
  BY <1>0, <1>1, <1>2, KeptIsStutter
<1>3. CASE LedgerBegins(c)
  <2>1. Ledger!Begin(c, s)
    BY <1>0, <1>1, <1>3, BeginsOnLedger
  <2>2. QED
    BY <2>1 DEF Ledger!LedgerNext
<1>4. CASE LedgerSettles(c)
  <2>1. Ledger!Settle(c, s)
    BY <1>0, <1>1, <1>4, SettlesOnLedger
  <2>2. QED
    BY <2>1 DEF Ledger!LedgerNext
<1>5. QED
  BY <1>0, <1>2, <1>3, <1>4, LedgerMove

\* The runtime implements SessionLedger: turns on a session happen one at a time,
\* each begins where the last one settled, and a closed session never runs again,
\* whatever the leases, sweeps, cancellations and aborts of any number of calls do.
THEOREM ImplementsLedger == Spec => KeepsLedger
<1>1. Init => TargetsBegun /\ Ledger!LedgerInit
  <2> SUFFICES ASSUME Init PROVE TargetsBegun /\ Ledger!LedgerInit
    OBVIOUS
  <2>1. \A c \in Calls : ~Unsettled(c) /\ ~Begun(c)
    BY DEF Init, Unsettled, Begun, Settled, Aborted
  <2>2. QED
    BY <2>1 DEF Ledger!LedgerInit, Init, TargetsBegun
<1>2. IInv /\ TargetsBegun /\ [Next]_vars => TargetsBegun'
  <2> SUFFICES ASSUME IInv, TargetsBegun, [Next]_vars PROVE TargetsBegun'
    OBVIOUS
  <2>1. ASSUME NEW c \in Calls, Step(c)
        PROVE  TargetsBegun'
    BY <2>1, BegunStep DEF IInv
  <2>2. CASE UNCHANGED vars
    BY <2>2 DEF vars, TargetsBegun
  <2>3. QED
    BY <2>1, <2>2 DEF Next, Step, AllDone
<1>3. IInv /\ IInv' /\ TargetsBegun /\ [Next]_vars => [Ledger!LedgerNext]_(Ledger!ledgerVars)
  <2> SUFFICES ASSUME IInv, IInv', TargetsBegun, [Next]_vars
               PROVE  [Ledger!LedgerNext]_(Ledger!ledgerVars)
    OBVIOUS
  <2>1. ASSUME NEW c \in Calls, Step(c)
        PROVE  [Ledger!LedgerNext]_(Ledger!ledgerVars)
    BY <2>1, StepOnLedger
  <2>2. CASE UNCHANGED vars
    BY <2>2 DEF vars, Ledger!ledgerVars, Unsettled, Begun, Initial
  <2>3. QED
    BY <2>1, <2>2 DEF Next, Step, AllDone
<1>4. QED
  BY <1>1, <1>2, <1>3, Invariant, PTL DEF Spec, KeepsLedger, Ledger!LedgerSpec

-----------------------------------------------------------------------------
(* Evictions go by age *)

\* A sweep lists each session once, and none of those it has yet to look at or read.
ListedOnce(c) ==
    /\ \A e, f \in sweep[c].idle : e.id = f.id => e = f
    /\ pc[c] \in {"probe", "read"} =>
          \A e \in sweep[c].idle : e.id \notin sweep[c].todo
    /\ pc[c] = "read" => \A s \in sweep[c].hand :
          s \notin sweep[c].todo /\ \A e \in sweep[c].idle : e.id # s
SweepsListOnce == \A c \in Calls : ListedOnce(c)

\* What a sweep is about to evict was outranked by MaxIdle sessions when its list
\* was ranked, and is still: a session is only ever used later than it was.
UsedAfter(at) == {t \in Calls : accessed[t] > at}
Outranked(e) == Cardinality(UsedAfter(e.at)) >= MaxIdle
OutrankedOnly(c) == pc[c] \in {"evict", "commit"} => \A e \in sweep[c].idle : Outranked(e)
SweepsOutranked == \A c \in Calls : OutrankedOnly(c)

LEMMA UsedAfterGrows ==
    ASSUME TypeOK, TypeOK', NEW at \in Nat, \A t \in Calls : accessed[t] <= accessed'[t],
           Cardinality(UsedAfter(at)) >= MaxIdle
    PROVE  Cardinality(UsedAfter(at)') >= MaxIdle
<1> DEFINE before == UsedAfter(at)
           after == UsedAfter(at)'
<1>1. before \subseteq after
  BY DEF UsedAfter, TypeOK
<1>2. after \subseteq Calls
  BY DEF UsedAfter
<1>3. Cardinality(before) >= MaxIdle
  OBVIOUS
<1> HIDE DEF before, after
<1>4. IsFiniteSet(after)
  BY <1>2, RuntimeAssumption, FS_Subset
<1>5. IsFiniteSet(before) /\ Cardinality(before) <= Cardinality(after)
  BY <1>1, <1>4, FS_Subset
<1>6. Cardinality(before) \in Nat /\ Cardinality(after) \in Nat
  BY <1>4, <1>5, FS_CardinalityType
<1>7. Cardinality(after) >= MaxIdle
  BY <1>3, <1>5, <1>6, RuntimeAssumption
<1>8. QED
  BY <1>7 DEF after

\* The entries younger than one of the list stand for as many sessions used later.
LEMMA YoungerWereUsedAfter ==
    ASSUME TypeOK, NEW idle \in SUBSET Entry, NEW e \in Entry,
           \A f, g \in idle : f.id = g.id => f = g,
           \A f \in idle : f.at <= accessed[f.id],
           Cardinality({f \in idle : Older(e, f)}) >= MaxIdle
    PROVE  Outranked(e)
<1> DEFINE younger == {f \in idle : Older(e, f)}
           later == UsedAfter(e.at)
           owner == [f \in younger |-> f.id]
<1>1. e.at \in Nat /\ \A f \in idle : f.at \in Nat /\ f.id \in Calls /\ accessed[f.id] \in Nat
  BY DEF Entry, TypeOK
<1>2. \A f \in younger : f.id \in later
  BY <1>1 DEF UsedAfter, Older
<1>3. owner \in Injection(younger, later)
  BY <1>2 DEF Injection, IsInjective
<1>4. later \subseteq Calls
  BY DEF UsedAfter
<1>5. Cardinality(younger) >= MaxIdle
  OBVIOUS
<1> HIDE DEF younger, later, owner
<1>6. IsFiniteSet(later)
  BY <1>4, RuntimeAssumption, FS_Subset
<1>7. IsFiniteSet(younger) /\ Cardinality(younger) <= Cardinality(later)
  BY <1>3, <1>6, FS_Injection
<1>8. Cardinality(younger) \in Nat /\ Cardinality(later) \in Nat
  BY <1>6, <1>7, FS_CardinalityType
<1>9. Cardinality(later) >= MaxIdle
  BY <1>5, <1>7, <1>8, RuntimeAssumption
<1>10. QED
  BY <1>9 DEF later, Outranked

LEMMA RankedSweep ==
    ASSUME TypeOK, TypeOK', NEW c \in Calls, accessed' = accessed,
           NEW todo \in SUBSET Calls, NEW idle \in SUBSET Entry,
           \A e, f \in idle : e.id = f.id => e = f,
           \A e \in idle : e.id \notin todo /\ e.at <= accessed[e.id],
           ProbeOrRank(c, todo, idle)
    PROVE  ListedOnce(c)' /\ OutrankedOnly(c)'
<1>1. CASE todo # {}
  <2>1. pc'[c] = "probe" /\ sweep'[c] = [todo |-> todo, hand |-> {}, idle |-> idle]
    BY <1>1 DEF ProbeOrRank, Goto, TypeOK
  <2>2. QED
    BY <2>1 DEF ListedOnce, OutrankedOnly
<1>2. CASE todo = {}
  <2>1. sweep'[c] = [todo |-> {}, hand |-> {}, idle |-> Excess(idle)] /\ EvictOrReturn(c, Excess(idle))
    BY <1>2 DEF ProbeOrRank, TypeOK
  <2>2. sweep'[c].idle = Excess(idle) /\ pc'[c] \notin {"probe", "read"}
    BY <2>1 DEF EvictOrReturn, Goto, TypeOK
  <2>3. Excess(idle) \subseteq idle
    BY DEF Excess
  <2>4. ListedOnce(c)'
    BY <2>2, <2>3 DEF ListedOnce
  <2>5. \A e \in Excess(idle) : Outranked(e)
    BY YoungerWereUsedAfter DEF Excess
  <2>6. \A e \in Excess(idle) : Outranked(e)'
    BY <2>5 DEF Outranked, UsedAfter
  <2>7. OutrankedOnly(c)'
    BY <2>2, <2>6 DEF OutrankedOnly
  <2>8. QED
    BY <2>4, <2>7
<1>3. QED
  BY <1>1, <1>2

\* A sweep whose list only shrinks.
LEMMA ShrunkSweep ==
    ASSUME TypeOK, NEW c \in Calls, accessed' = accessed, ListedOnce(c), OutrankedOnly(c),
           pc[c] \in {"evict", "commit"}, pc'[c] \notin {"probe", "read"},
           sweep'[c].idle \subseteq sweep[c].idle
    PROVE  ListedOnce(c)' /\ OutrankedOnly(c)'
<1>1. ListedOnce(c)'
  BY DEF ListedOnce
<1>2. \A e \in sweep'[c].idle : Outranked(e)'
  BY DEF OutrankedOnly, Outranked, UsedAfter
<1>3. QED
  BY <1>1, <1>2 DEF OutrankedOnly

LEMMA SweepRanks ==
    ASSUME TypeOK, TypeOK', SweepsAreOld, NEW c \in Calls, ListedOnce(c), OutrankedOnly(c), Sweep(c)
    PROVE  ListedOnce(c)' /\ OutrankedOnly(c)'
<1>0. accessed' = accessed
  BY SweepMove DEF sessionVars
<1>1. CASE Snapshot(c)
  <2>1. PICK todo \in SUBSET Calls : todo = retained
    BY DEF TypeOK
  <2>2. ProbeOrRank(c, todo, {})
    BY <1>1, <2>1 DEF Snapshot
  <2>3. QED
    BY <1>0, <2>2, RankedSweep
<1>2. ASSUME NEW s \in Calls, Probe(c, s)
      PROVE  ListedOnce(c)' /\ OutrankedOnly(c)'
  <2> DEFINE todo == sweep[c].todo \ {s}
             idle == sweep[c].idle
  <2>1. /\ \A e, f \in idle : e.id = f.id => e = f
        /\ \A e \in idle : e.id \notin sweep[c].todo
        /\ s \in sweep[c].todo
    BY <1>2 DEF Probe, ListedOnce
  <2>2. todo \in SUBSET Calls /\ idle \in SUBSET Entry
    BY DEF TypeOK
  <2>3. CASE busy[s]
    <3>1. \A e \in idle : e.id \notin todo /\ e.at <= accessed[e.id]
      BY <2>1 DEF SweepsAreOld
    <3>2. ProbeOrRank(c, todo, idle)
      BY <1>2, <2>3 DEF Probe
    <3> HIDE DEF todo, idle
    <3>3. QED
      BY <1>0, <2>1, <2>2, <3>1, <3>2, RankedSweep
  <2>4. CASE ~busy[s]
    <3>1. /\ sweep' = [sweep EXCEPT ![c].todo = @ \ {s}, ![c].hand = {s}]
          /\ pc' = [pc EXCEPT ![c] = "read"]
      BY <1>2, <2>4 DEF Probe, Goto
    <3>2. /\ sweep'[c].todo = todo /\ sweep'[c].idle = idle /\ sweep'[c].hand = {s}
          /\ pc'[c] = "read"
      BY <3>1 DEF TypeOK
    <3>3. QED
      BY <2>1, <3>2 DEF ListedOnce, OutrankedOnly
  <2>5. QED
    BY <2>3, <2>4
<1>3. CASE ReadLastUse(c)
  <2>1. PICK s \in sweep[c].hand :
           ProbeOrRank(c, sweep[c].todo, sweep[c].idle \cup {[id |-> s, at |-> accessed[s]]})
    BY <1>3 DEF ReadLastUse
  <2> DEFINE seen == [id |-> s, at |-> accessed[s]]
             todo == sweep[c].todo
             idle == sweep[c].idle \cup {seen}
  <2>2. s \in Calls /\ accessed[s] \in Nat /\ seen \in Entry /\ seen.id = s /\ seen.at = accessed[s]
    BY DEF TypeOK, Entry
  <2>3. /\ \A e, f \in sweep[c].idle : e.id = f.id => e = f
        /\ \A e \in sweep[c].idle : e.id \notin todo /\ e.id # s
        /\ s \notin todo
    BY <1>3 DEF ReadLastUse, ListedOnce
  <2>4. \A e \in sweep[c].idle : e.at <= accessed[e.id]
    BY DEF SweepsAreOld
  <2>5. todo \in SUBSET Calls /\ sweep[c].idle \in SUBSET Entry
    BY DEF TypeOK
  <2>6. ProbeOrRank(c, todo, idle)
    BY <2>1
  <2> HIDE DEF seen, todo
  <2>7. \A e, f \in idle : e.id = f.id => e = f
    BY <2>2, <2>3
  <2>8. \A e \in idle : e.id \notin todo /\ e.at <= accessed[e.id]
    BY <2>2, <2>3, <2>4
  <2>9. idle \in SUBSET Entry
    BY <2>2, <2>5
  <2> HIDE DEF idle
  <2>10. QED
    BY <1>0, <2>5, <2>6, <2>7, <2>8, <2>9, RankedSweep
<1>4. CASE EvictCheck(c) \/ EvictCommit(c)
  <2>1. pc[c] \in {"evict", "commit"} /\ pc'[c] \notin {"probe", "read"}
    BY <1>4 DEF EvictCheck, EvictCommit, EvictOrReturn, Goto, TypeOK
  <2>2. sweep'[c].idle \subseteq sweep[c].idle
    <3>1. PICK e \in sweep[c].idle :
             \/ sweep' = [sweep EXCEPT ![c].hand = {e.id}]
             \/ sweep' = [sweep EXCEPT ![c].idle = @ \ {e}]
             \/ sweep' = [sweep EXCEPT ![c].hand = {}, ![c].idle = @ \ {e}]
      BY <1>4 DEF EvictCheck, EvictCommit
    <3>2. sweep'[c].idle = sweep[c].idle \/ sweep'[c].idle = sweep[c].idle \ {e}
      BY <3>1 DEF TypeOK
    <3>3. QED
      BY <3>2
  <2>3. QED
    BY <1>0, <2>1, <2>2, ShrunkSweep
<1>5. QED
  BY <1>1, <1>2, <1>3, <1>4 DEF Sweep

\* Outside its sweeps a call is not evicting, and its list is left or dropped.
LEMMA RestMove ==
    ASSUME TypeOK, NEW c \in Calls, Step(c), ~Sweep(c)
    PROVE  /\ pc'[c] \notin {"probe", "read", "evict", "commit"}
           /\ sweep'[c].idle \subseteq sweep[c].idle
<1> USE DEF TypeOK, Goto
<1>1. CASE SpawnArrives(c) \/ (\E s \in Calls : InputArrives(c, s))
  BY <1>1 DEF SpawnArrives, InputArrives
<1>2. CASE CreateSession(c) \/ InsertSession(c) \/ LookupSession(c) \/ ClaimSession(c)
           \/ AcquireCapacity(c) \/ ReserveTurn(c)
  BY <1>2 DEF CreateSession, InsertSession, LookupSession, ClaimSession, AcquireCapacity, ReserveTurn
<1>3. CASE CancelBeforeDispatch(c) \/ UndoReservation(c) \/ CredentialMissing(c)
           \/ StartRun(c) \/ SettleTurn(c) \/ ReleaseLease(c) \/ RemoveSession(c)
           \/ RequestCancel(c)
  BY <1>3 DEF CancelBeforeDispatch, UndoReservation, CredentialMissing, StartRun,
              SettleTurn, ReleaseLease, RemoveSession, RequestCancel
<1>4. CASE AbortTask(c)
  <2>1. pc'[c] = "done" /\ sweep'[c].idle = {}
    BY <1>4 DEF AbortTask, NoSweep
  <2>2. QED
    BY <2>1
<1>5. QED
  BY <1>1, <1>2, <1>3, <1>4, StepActions DEF Sweep

LEMMA AccessOnlyLater ==
    ASSUME TypeOK, Phases, ClockLeads, NEW c \in Calls, Step(c)
    PROVE  \A t \in Calls : accessed[t] <= accessed'[t]
<1>1. CASE UseKept(c)
  BY <1>1 DEF UseKept, TypeOK
<1>2. CASE UseStamped(c)
  <2>1. accessed' = [accessed EXCEPT ![target[c]] = clock + 1]
    BY <1>2 DEF UseStamped, Touch
  <2>2. \A t \in Calls : accessed[t] \in Nat /\ clock \in Nat /\ accessed[t] <= clock
    BY DEF TypeOK, ClockLeads
  <2>3. \A t \in Calls : accessed'[t] = accessed[t] \/ accessed'[t] = clock + 1
    BY <2>1 DEF TypeOK
  <2>4. QED
    BY <2>2, <2>3
<1>3. QED
  BY <1>1, <1>2, UseMove

LEMMA RankStep ==
    ASSUME IInv, IInv', SweepsListOnce, SweepsOutranked, NEW c \in Calls, Step(c)
    PROVE  SweepsListOnce' /\ SweepsOutranked'
<1> SUFFICES ASSUME NEW d \in Calls PROVE ListedOnce(d)' /\ OutrankedOnly(d)'
  BY DEF SweepsListOnce, SweepsOutranked
<1>1. TypeOK /\ TypeOK' /\ Phases /\ SweepsAreOld /\ ClockLeads
  BY DEF IInv
<1>2. ListedOnce(d) /\ OutrankedOnly(d)
  BY DEF SweepsListOnce, SweepsOutranked
<1>3. CASE d = c /\ Sweep(c)
  BY <1>1, <1>2, <1>3, SweepRanks
<1>4. CASE d = c /\ ~Sweep(c)
  BY <1>1, <1>2, <1>4, RestMove DEF ListedOnce, OutrankedOnly
<1>5. CASE d # c
  <2>1. pc'[d] = pc[d] /\ sweep'[d] = sweep[d]
    BY <1>1, <1>5, OthersUnmoved DEF Unmoved
  <2>2. \A t \in Calls : accessed[t] <= accessed'[t]
    BY <1>1, AccessOnlyLater
  <2>3. \A e \in sweep[d].idle : e.at \in Nat
    BY <1>1 DEF TypeOK, Entry
  <2>4. ASSUME NEW e \in sweep[d].idle, Outranked(e)
        PROVE  Outranked(e)'
    BY <1>1, <2>2, <2>3, <2>4, UsedAfterGrows DEF Outranked
  <2>5. ListedOnce(d)'
    BY <1>2, <2>1 DEF ListedOnce
  <2>6. OutrankedOnly(d)'
    BY <1>2, <2>1, <2>4 DEF OutrankedOnly
  <2>7. QED
    BY <2>5, <2>6
<1>6. QED
  BY <1>3, <1>4, <1>5

\* While a call has the map locked, only a sweep takes a session out of it, and the
\* one it takes was not used since it was listed.
LEMMA LockedRemoval ==
    ASSUME IInv, SweepsOutranked, NEW c \in Calls, Step(c),
           NEW d \in Calls, pc[d] = "commit", NEW s \in retained \ retained'
    PROVE  Cardinality({t \in Calls : accessed[t] > accessed[s]}) >= MaxIdle
<1>1. ~UndoReservation(c) \/ retained' = retained
  BY DEF UndoReservation, MapUnlocked
<1>2. ~RemoveSession(c)
  BY DEF RemoveSession, MapUnlocked
<1>3. EvictCommit(c)
  BY <1>1, <1>2, StepActions DEF SpawnArrives, InputArrives, Snapshot, Probe, ReadLastUse, EvictCheck,
     CreateSession, InsertSession, LookupSession, ClaimSession, AcquireCapacity, ReserveTurn,
     CancelBeforeDispatch, CredentialMissing, StartRun, SettleTurn,
     ReleaseLease, RequestCancel, AbortTask
<1>4. PICK e \in sweep[c].idle :
         retained' = IF UsedSinceListed(e) THEN retained ELSE retained \ {e.id}
  BY <1>3 DEF EvictCommit
<1>5. s = e.id /\ accessed[s] = e.at
  BY <1>4 DEF UsedSinceListed
<1>6. Outranked(e)
  BY <1>3 DEF EvictCommit, SweepsOutranked, OutrankedOnly
<1>7. QED
  BY <1>5, <1>6 DEF Outranked, UsedAfter

\* cleanup_idle_sessions evicts by age although its ranking is stale by then: a
\* session it removes has at least MaxIdle sessions that were used after it.
THEOREM EvictionSafety == Spec => MostRecentSurvive
<1> DEFINE Ranks == SweepsListOnce /\ SweepsOutranked
           Fair == \A c, s \in Calls : pc[c] = "commit" /\ s \in retained \ retained'
                      => Cardinality({t \in Calls : accessed[t] > accessed[s]}) >= MaxIdle
<1>1. Init => Ranks
  BY DEF Init, NoSweep, SweepsListOnce, SweepsOutranked, ListedOnce, OutrankedOnly
<1>2. IInv /\ IInv' /\ Ranks /\ [Next]_vars => Ranks'
  <2> SUFFICES ASSUME IInv, IInv', Ranks, [Next]_vars PROVE Ranks'
    OBVIOUS
  <2>1. ASSUME NEW c \in Calls, Step(c)
        PROVE  Ranks'
    BY <2>1, RankStep
  <2>2. CASE UNCHANGED vars
    BY <2>2 DEF vars, SweepsListOnce, SweepsOutranked, ListedOnce, OutrankedOnly,
                Outranked, UsedAfter
  <2>3. QED
    BY <2>1, <2>2 DEF Next, Step, AllDone
<1>3. IInv /\ Ranks /\ [Next]_vars => [Fair]_vars
  <2> SUFFICES ASSUME IInv, Ranks, Next PROVE Fair
    OBVIOUS
  <2>1. ASSUME NEW c \in Calls, Step(c)
        PROVE  Fair
    BY <2>1, LockedRemoval
  <2>2. CASE AllDone
    BY <2>2 DEF AllDone, vars
  <2>3. QED
    BY <2>1, <2>2 DEF Next, Step
<1>4. QED
  BY <1>1, <1>2, <1>3, Invariant, PTL DEF Spec, MostRecentSurvive
=============================================================================

--------------------------- MODULE SessionLedger ---------------------------
(***************************************************************************)
(* What the agent runtime promises about one session, whatever its locks,  *)
(* flags and cleanups do: turns on it happen one at a time, each begins on *)
(* a boundary that is known, and once a turn was lost or failed for good   *)
(* the session never runs again.  AgentRuntime implements it.              *)
(***************************************************************************)
CONSTANTS Turns, Sessions

VARIABLES
    live,       \* <<turn, session>>: turns begun and not settled
    begun,      \* turns ever begun
    state       \* "fresh", "open" to another turn, or "closed"

ledgerVars == <<live, begun, state>>

LedgerInit ==
    /\ live = {}
    /\ begun = {}
    /\ state = [s \in Sessions |-> "fresh"]

\* A turn begins once, alone, and closes the session until it settles.
Begin(t, s) ==
    /\ t \notin begun
    /\ \A l \in live : l[2] # s
    /\ state[s] \in {"fresh", "open"}
    /\ live' = live \cup {<<t, s>>}
    /\ begun' = begun \cup {t}
    /\ state' = [state EXCEPT ![s] = "closed"]

\* It ends and leaves the session open, or closed for ever.
Settle(t, s) ==
    /\ <<t, s>> \in live
    /\ live' = live \ {<<t, s>>}
    /\ \E next \in {"open", "closed"} : state' = [state EXCEPT ![s] = next]
    /\ UNCHANGED begun

LedgerNext == \E t \in Turns, s \in Sessions : Begin(t, s) \/ Settle(t, s)
LedgerSpec == LedgerInit /\ [][LedgerNext]_ledgerVars
=============================================================================

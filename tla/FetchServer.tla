----------------------------- MODULE FetchServer ----------------------------
(***************************************************************************)
(* The fetch server, src/fetch: a client that reads a page through the     *)
(* fetch tool, following the hints where to go on, or through the fetch    *)
(* prompt.  The server keeps nothing between two calls: it asks for        *)
(* robots.txt and for the whole page anew each time.                       *)
(*                                                                         *)
(* Left out: the parsing of URLs, the conversion of HTML (the content is   *)
(* what it leaves), and how a robots file is matched.  Assumed: no proxy   *)
(* is set in the environment.  The client would send its requests through  *)
(* it, and the addresses they are bound to would not count.                *)
(***************************************************************************)
EXTENDS ContentPages, ToolPolicy

CONSTANTS
    Addresses, Public,  \* the addresses of hosts, and those that validate_public_ip accepts
    Sites,              \* bound: what is behind the URL
    MaxLengths,         \* bound: the lengths a client asks for
    Statuses,           \* bound: HTTP status codes
    Denials, Grants,    \* bound: selectors of --deny and of --allow
    MaxResult           \* MAX_TOOL_RESULT_BYTES

FetchTool == [id |-> "fetch/fetch", capability |-> "network.fetch"]

\* A URL has at most 8192 characters of 4 bytes and a content type 256 bytes, so
\* that the header leaves room for a character and a hint.
ASSUME FetchAssumption ==
    /\ MaxResult \in Nat
    /\ MaxLengths \subseteq Int
    /\ Public \subseteq Addresses /\ "name" \notin Addresses
    /\ \A site \in Sites :
        /\ IsText(site.content) /\ site.header \in Nat
        /\ site.header + 4 + HintText + MaxDigits + 1 <= MaxResult

VARIABLES
    settings,   \* the server's options
    site,       \* the host of the URL, its content and the header of every result
    kind,       \* the tool or the prompt
    pc,
    max, start, \* the arguments of the current call
    goal,       \* what is being requested, robots.txt or the page
    pinned,     \* the addresses the request is bound to
    got,        \* the positions of the characters the client has read
    reply,
    log         \* history: the requests of the current call

vars == <<settings, site, kind, pc, max, start, goal, pinned, got, reply, log>>
fixed == <<settings, site, kind>>

Settings ==
    [network : {"public", "unrestricted"}, robots : BOOLEAN,
     policy : {FromSelectors(allow, deny) :
                  allow \in {g \in Grants : Parses(g, {FetchTool})},
                  deny \in {d \in Denials : Parses(d, {FetchTool})}}]

Offered ==
    IF kind = "tool" THEN Allows(settings.policy, FetchTool)
    ELSE AllowsAuxiliarySurface(settings.policy, FetchTool.capability, FetchTool)

MaxFetchLength == 50000        \* MAX_FETCH_MAX_LENGTH
LengthsAllowed == 1..MaxFetchLength
End(how) == pc' = "done" /\ reply' = how

-----------------------------------------------------------------------------

\* The client asks for the page, or for the next part of it.
Ask ==
    /\ pc = "idle"
    /\ \E length \in MaxLengths : max' = length
    /\ pc' = "check" /\ log' = <<>>
    /\ UNCHANGED <<fixed, start, goal, pinned, got, reply>>

Check ==
    /\ pc = "check"
    /\ IF Offered /\ (kind = "tool" => max \in LengthsAllowed)
       THEN /\ pc' = "resolve"
            /\ goal' = IF kind = "tool" /\ settings.robots THEN "robots" ELSE "page"
            /\ UNCHANGED reply
       ELSE End("error") /\ UNCHANGED goal
    /\ UNCHANGED <<fixed, max, start, pinned, got, log>>

\* resolve_network_target: under the public policy a host that is an address is
\* checked as it is, a name by all that it resolves to.
Resolve ==
    /\ pc = "resolve"
    /\ \/ /\ \/ settings.network = "unrestricted"
             \/ site.host \in Public
          /\ pc' = "send" /\ pinned' = {}
          /\ UNCHANGED reply
       \/ /\ settings.network = "public" /\ site.host = "name"
          /\ \E found \in SUBSET Public :
                found # {} /\ pinned' = found
          /\ pc' = "send"
          /\ UNCHANGED reply
       \* a name that does not resolve, or not to public addresses only
       \/ /\ settings.network = "public" /\ site.host \notin Public
          /\ End("error") /\ UNCHANGED pinned
    /\ UNCHANGED <<fixed, max, start, goal, got, log>>

\* Where the request may go: without an override the connection looks up the name.
Anywhere == IF site.host \in Addresses THEN {site.host} ELSE Addresses    \* mutant: no pinning
Reachable ==
    IF site.host \in Addresses THEN {site.host}
    ELSE IF pinned = {} THEN Addresses ELSE pinned

Send ==
    /\ pc = "send"
    /\ \E to \in Reachable : log' = Append(log, [goal |-> goal, to |-> to, allowed |-> FALSE])
    /\ pc' = "receive"
    /\ UNCHANGED <<fixed, max, start, goal, pinned, got, reply>>

\* No connection, a timeout, a body that breaks off or exceeds its limit.
RequestFails ==
    /\ pc \in {"send", "receive"}
    /\ End("error")
    /\ UNCHANGED <<fixed, max, start, goal, pinned, got, log>>

\* check_may_fetch: `matches' is what the file says about the URL.
MayFetch(status, matches) ==
    IF status \in 400..499 THEN status \notin {401, 403}
    ELSE status \in 200..299 /\ matches

ReceiveRobots ==
    /\ pc = "receive" /\ goal = "robots"
    /\ \E status \in Statuses, matches \in BOOLEAN :
        IF MayFetch(status, matches)
        THEN /\ log' = [log EXCEPT ![Len(log)].allowed = TRUE]
             /\ goal' = "page" /\ pc' = "resolve"
             /\ UNCHANGED reply
        ELSE End("error") /\ UNCHANGED <<goal, log>>
    /\ UNCHANGED <<fixed, max, start, pinned, got>>

\* render_fetch_result; the prompt shows what fits and has no pages.
BudgetOfRest == MaxResult - 2 * site.header      \* mutant: the header counts twice
Budget == MaxResult - site.header
Part == [n \in 1..Returned(site.content, start, max, Budget) |-> start + n]

ReceivePage ==
    /\ pc = "receive" /\ goal = "page"
    /\ \E status \in Statuses :
        IF status >= 300 THEN End("error") /\ UNCHANGED <<start, got>>
        ELSE IF kind = "prompt" THEN End("ok") /\ UNCHANGED <<start, got>>
        ELSE /\ got' = got \o Part
             /\ IF HasHint(site.content, start, max, Budget)
                THEN /\ start' = Next(site.content, start, max, Budget)
                     /\ pc' = "idle" /\ UNCHANGED reply
                ELSE End("ok") /\ UNCHANGED start
    /\ UNCHANGED <<fixed, max, goal, pinned, log>>

-----------------------------------------------------------------------------

Init ==
    /\ settings \in Settings
    /\ site \in Sites
    /\ kind \in {"tool", "prompt"}
    /\ pc = "idle"
    /\ max = 1 /\ start = 0
    /\ goal = "page"
    /\ pinned = {}
    /\ got = <<>>
    /\ reply = "none"
    /\ log = <<>>

Step == Ask \/ Check \/ Resolve \/ Send \/ RequestFails \/ ReceiveRobots \/ ReceivePage
Over == pc = "done" /\ UNCHANGED vars
NextStep == Step \/ Over

\* DNS and HTTP have timeouts, so the server always goes on; the client follows
\* the hints.
Spec == Init /\ [][NextStep]_vars /\ WF_vars(Step)

-----------------------------------------------------------------------------

TypeOK ==
    /\ settings \in Settings /\ site \in Sites /\ kind \in {"tool", "prompt"}
    /\ pc \in {"idle", "check", "resolve", "send", "receive", "done"}
    /\ max \in Int /\ start \in Nat
    /\ goal \in {"robots", "page"}
    /\ pinned \subseteq Addresses
    /\ got \in Seq(Nat)
    /\ reply \in {"none", "ok", "error"}
    /\ log \in Seq([goal : {"robots", "page"}, to : Addresses, allowed : BOOLEAN])

\* The parts a client reads by following the hints are the content: no character
\* is left out or read twice, whatever lengths it asks for, and the last part
\* ends it (content_page, src/fetch/mod.rs:190).
PagesJoin ==
    /\ kind = "tool" /\ pc # "done" => got = [n \in 1..start |-> n]
    /\ kind = "tool" /\ reply = "ok" => got = [n \in 1..Len(site.content) |-> n]

\* A page is requested by the tool only after the robots file that this same
\* call asked for allowed it, where the server respects it; only of public
\* addresses under the public policy, though names are looked up in one step
\* and connected to in another; and by a prompt only if the tool may be used.
AskedOnlyWhenAllowed ==
    \A n \in DOMAIN log :
        /\ settings.network = "public" => log[n].to \in Public
        /\ log[n].goal = "page" /\ kind = "tool" /\ settings.robots =>
              \E m \in 1..n - 1 : log[m].goal = "robots" /\ log[m].allowed
        /\ Allows(settings.policy, FetchTool)

\* A client that follows the hints comes to an end (src/fetch/mod.rs:218).
ReaderFinishes == <>(pc = "done")
=============================================================================

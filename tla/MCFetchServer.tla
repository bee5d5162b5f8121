---------------------------- MODULE MCFetchServer ---------------------------
EXTENDS FetchServer

\* One long text of characters of every size, a short and an empty one.  The
\* header of each leaves between 9 and 13 bytes for a page and its hint.
MCSites ==
    {[host |-> h, content |-> c, header |-> 2] :
        h \in {"name"} \cup Addresses, c \in {<<>>, <<1, 4>>}}
    \cup {[host |-> "name", content |-> <<1, 2, 1, 4, 1, 1, 3, 4, 1, 1, 1, 1>>, header |-> n] :
        n \in {2, 4, 6}}
    \cup {[host |-> "local", content |-> <<1>>, header |-> 2]}
MCStatuses == {200, 299, 301, 401, 403, 404, 500}
MCGrants == {{}, {"network.fetch"}, {"fetch/fetch"}, {"fetch/get"}}
MCDenials == {{}, {"network.fetch"}, {"fetch/fetch"}}
=============================================================================

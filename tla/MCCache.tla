------------------------------ MODULE MCCache ------------------------------
EXTENDS Cache

CONSTANTS n1, n2, list, entry

OneNode == {n1}
TwoNodes == {n1, n2}

\* A page of an entry list, and a count or an entry.
Lists == {list}
Others == {entry}

\* Only the prefix clear of one tenant, as the writes of the SDK issue it.
ByPattern == \A n \in Nodes : task[n] # NoTask => task[n].scope = "pattern"
=============================================================================

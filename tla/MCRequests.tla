----------------------------- MODULE MCRequests -----------------------------
\* What becomes of a request, one half at a time: whether it may run, and what is
\* answered when it asks for a check.
EXTENDS MCCheckEvaluation, ApiAccess, TLC

CONSTANTS admin, reader, minted, wrong, proxy, here, there, doc, group

\* Workloads.  Four requests from two addresses, one of which forges a chain, and three
\* where the replicas do not share what they count; three of one address; and one of
\* any kind while keys come and go.
Ask(route, cred, chain, namespaces) ==
    [route |-> route, cred |-> cred, chain |-> chain, namespaces |-> namespaces]

Direct == <<proxy, here>>
Forged == <<proxy, here, there>>

Floods == [requests |-> {Ask(MetricsRoute, admin, Direct, {}), Ask(MetricsRoute, wrong, Forged, {})},
           redis |-> {TRUE}, total |-> 4, keys |-> FALSE]
Apart == [Floods EXCEPT !.redis = {FALSE}, !.total = 3]
Bursts == [requests |-> {Ask(DocumentRoute, Absent, Direct, {}), Ask(DocumentRoute, wrong, Direct, {})},
           redis |-> BOOLEAN, total |-> 3, keys |-> FALSE]
Kinds == [requests |-> { Ask(r, c, Direct, n) : r \in Endpoints,
                           c \in {admin, reader, minted, Absent}, n \in {{doc}, {doc, group}} },
          redis |-> {TRUE}, total |-> 1, keys |-> TRUE]
Workloads == [floods |-> Floods, apart |-> Apart, bursts |-> Bursts, kinds |-> Kinds]
OnlyFloods == [floods |-> Floods]

Maxes == [l \in Limiters \cup {"flood"} |-> IF l = "metrics" THEN 1 ELSE 2]
SomeScopes == {{Absent}, {doc}, {}}

VARIABLE scene

\* What the other half looks at.
Unasked == workload = "kinds" /\ redis = TRUE
Unstored == schema = << >>

RequestsInit == /\ AccessInit
                /\ \/ scene = "access" /\ Unstored /\ rows = [t \in Tuples |-> "absent"]
                   \/ scene = "check" /\ Unasked /\ GraphInit

RequestsNext == \/ scene = "access" /\ AccessNext /\ UNCHANGED <<scene, graphVars>>
                \/ scene = "check" /\ GraphNext /\ UNCHANGED <<scene, accessVars>>

RequestsSpec == RequestsInit /\ [][RequestsNext]_<<scene, accessVars, graphVars>>

Symmetry == Permutations(Slots) \cup Permutations(Replicas)
=============================================================================

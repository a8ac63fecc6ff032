---------------------------- MODULE SchemaGraph -----------------------------
(***************************************************************************)
(* The graph that the schema verifier walks instead of a schema            *)
(* (tools/schema-verifier/src/ir).  A relation, a permission and every     *)
(* operator inside a permission is a node; a reference to a name is an     *)
(* edge to that name's node.  The node of an operator is its place in the  *)
(* rewrite rule of the permission that owns it.                            *)
(***************************************************************************)
EXTENDS ProductionResolver

Named(ns, name) == [ns |-> ns, name |-> name, place |-> << >>]

\* graph.nodes: what is declared, and the operators inside it.
InGraph(node) == node.place # << >> \/ Declares(node.ns, node.name) \/ Defines(node.ns, node.name)

Operands(rule) == CASE rule.kind \in {"union", "intersection"} -> rule.children
                    [] rule.kind = "exclusion" -> <<rule.base, rule.subtract>>
                    [] OTHER -> << >>

RECURSIVE RuleAt(_, _)
RuleAt(rule, place) ==
  IF place = << >> THEN rule ELSE RuleAt(Operands(rule)[Head(place)], Tail(place))

RuleOf(node) == RuleAt(schema[node.ns].permissions[node.name], node.place)

\* What kind of edges leave a node, if any do.
KindOf(node) == CASE ~InGraph(node) -> "none"
                  [] Declares(node.ns, node.name) -> "direct"
                  [] OTHER -> RuleOf(node).kind

\* resolve: a name has a node already, an operator gets one of its own.
Resolved(node, i) ==
  LET operand == Operands(RuleOf(node))[i]
  IN  IF operand.kind = "computedUserset" THEN Named(node.ns, operand.name)
                                          ELSE [node EXCEPT !.place = Append(@, i)]

Operators(node) == [i \in DOMAIN Operands(RuleOf(node)) |-> Resolved(node, i)]

\* The subject types of a relation in some order, each with the node it leads to.
SubjectTypes(ns, relation) == SetToSeq(schema[ns].relations[relation])
Leads(type) == type.relation # None /\ InGraph(Named(type.ns, type.relation))

\* One target for each namespace that the followed relation may lead to.
TargetsOf(node) ==
  LET rule == RuleOf(node)
  IN  SetToSeq({Named(type.ns, rule.computedUserset) : type \in schema[node.ns].relations[rule.relation]})

ChildrenOf(node) ==
  LET kind == KindOf(node)
  IN  CASE kind = "none" -> {}
        [] kind = "direct" -> {Named(type.ns, type.relation) :
                                 type \in {t \in schema[node.ns].relations[node.name] : Leads(t)}}
        [] kind = "computedUserset" -> {Named(node.ns, RuleOf(node).name)}
        [] kind = "tupleToUserset" -> ToSet(TargetsOf(node))
        [] OTHER -> ToSet(Operators(node))

RECURSIVE ReachedFrom(_, _)
ReachedFrom(nodes, seen) ==
  LET next == UNION {ChildrenOf(node) : node \in nodes} \ seen
  IN  IF next = {} THEN seen ELSE ReachedFrom(next, seen \cup next)

\* scanReachability
Reached(goal) == ReachedFrom({goal}, {goal})
Monotone(goal) == \A node \in Reached(goal) : KindOf(node) \notin {"intersection", "exclusion"}
RelationsReached(goal) == {node \in Reached(goal) : KindOf(node) = "direct"}

\* A depth-first search meets a node of its own path.
IsRecursive(goal) ==
  \E node \in Reached(goal) : node \in ReachedFrom(ChildrenOf(node), ChildrenOf(node))
=============================================================================

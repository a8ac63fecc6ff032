----------------------------- MODULE ListUsers -----------------------------
(***************************************************************************)
(* Who has a permission: expand() reads the tree of everything that could  *)
(* grant it, and listUsers() evaluates that tree to a set of subjects.  A  *)
(* set may hold whole namespaces, through the wildcard, and is             *)
(* unenumerable when it would be a namespace less some of its subjects.    *)
(* Also the candidates of listObjects().                                   *)
(***************************************************************************)
EXTENDS TupleGraph

CONSTANT MaxCandidates   \* LIST_OBJECTS_MAX_CANDIDATES

(***************************************************************************)
(* expand()                                                                *)
(***************************************************************************)
CycleGuard == [kind |-> "cycleGuard"]
DepthLimitReached == [kind |-> "depthLimitReached"]
Undeclared == [kind |-> "undeclared"]

TuplesOn(object, relation) == {t \in Live : t.object = object /\ t.relation = relation}

RECURSIVE ExpandName(_, _, _, _, _), ExpandRewrite(_, _, _, _, _)

ExpandRelation(object, relation, visiting, depth, maxDepth) ==
  LET tuples == TuplesOn(object, relation)
  IN  [kind |-> "relation",
       direct |-> {t.subject : t \in {t \in tuples : t.subjectRelation = None}},
       children |-> {ExpandName(t.subject, t.subjectRelation, visiting, depth + 1, maxDepth) :
                       t \in {t \in tuples : t.subjectRelation # None}}]

ExpandRewrite(rule, object, visiting, depth, maxDepth) ==
  CASE rule.kind = "computedUserset" ->
         ExpandName(object, rule.name, visiting, depth + 1, maxDepth)
    [] rule.kind \in {"union", "intersection"} ->
         [kind |-> rule.kind,
          children |-> {ExpandRewrite(rule.children[i], object, visiting, depth, maxDepth) :
                          i \in DOMAIN rule.children}]
    [] rule.kind = "exclusion" ->
         [kind |-> "exclusion",
          base |-> ExpandRewrite(rule.base, object, visiting, depth, maxDepth),
          subtract |-> ExpandRewrite(rule.subtract, object, visiting, depth, maxDepth)]
    [] rule.kind = "tupleToUserset" ->
         [kind |-> "tupleToUserset",
          children |-> {ExpandName(t.subject, rule.computedUserset, visiting, depth + 1, maxDepth) :
                          t \in TuplesOn(object, rule.relation)}]

ExpandName(object, name, visiting, depth, maxDepth) ==
  LET key == <<object, name>>
  IN  IF depth > maxDepth THEN DepthLimitReached
      ELSE IF key \in visiting THEN CycleGuard
      ELSE IF Declares(object.ns, name)
           THEN ExpandRelation(object, name, visiting \cup {key}, depth, maxDepth)
      ELSE IF Defines(object.ns, name)
           THEN ExpandRewrite(schema[object.ns].permissions[name], object,
                              visiting \cup {key}, depth, maxDepth)
      ELSE Undeclared

Expand(object, name, maxDepth) == ExpandName(object, name, {}, 0, maxDepth)

(***************************************************************************)
(* The sets that listUsers() computes with.                                *)
(***************************************************************************)
Members(concrete, wildcardNs) ==
  [concrete |-> {e \in concrete : e.ns \notin wildcardNs}, wildcardNs |-> wildcardNs,
   enumerable |-> TRUE]
NoMembers == Members({}, {})
Unenumerable == [NoMembers EXCEPT !.enumerable = FALSE]

Covers(set, entity) == entity.ns \in set.wildcardNs \/ entity \in set.concrete

DirectMembers(subjects) ==
  LET everyone == {e \in subjects : e.id = Wildcard}
  IN  Members(subjects \ everyone, {e.ns : e \in everyone})

UnionMembers(sets) ==
  IF \E s \in sets : ~s.enumerable THEN Unenumerable
  ELSE Members(UNION {s.concrete : s \in sets}, UNION {s.wildcardNs : s \in sets})

IntersectMembers(sets) ==
  IF \E s \in sets : ~s.enumerable THEN Unenumerable
  ELSE Members({e \in UNION {s.concrete : s \in sets} : \A s \in sets : Covers(s, e)},
               {ns \in UNION {s.wildcardNs : s \in sets} : \A s \in sets : ns \in s.wildcardNs})

\* Mutant: a subject is looked up by name only, not under the wildcard.
SubtractByKey(base, subtract) ==
  IF ~base.enumerable \/ ~subtract.enumerable THEN Unenumerable
  ELSE Members(base.concrete \ subtract.concrete, base.wildcardNs \ subtract.wildcardNs)

SubtractMembers(base, subtract) ==
  IF \/ ~base.enumerable
     \/ ~subtract.enumerable
     \/ \E ns \in base.wildcardNs \ subtract.wildcardNs, e \in subtract.concrete : e.ns = ns
  THEN Unenumerable
  ELSE Members({e \in base.concrete : ~Covers(subtract, e)},
               base.wildcardNs \ subtract.wildcardNs)

RECURSIVE EvaluateExpandNode(_)
EvaluateExpandNode(node) ==
  CASE node.kind \in {"union", "tupleToUserset"} ->
         UnionMembers({EvaluateExpandNode(c) : c \in node.children})
    [] node.kind = "intersection" ->
         IntersectMembers({EvaluateExpandNode(c) : c \in node.children})
    [] node.kind = "exclusion" ->
         SubtractMembers(EvaluateExpandNode(node.base), EvaluateExpandNode(node.subtract))
    [] node.kind = "relation" ->
         UnionMembers({DirectMembers(node.direct)}
                        \cup {EvaluateExpandNode(c) : c \in node.children})
    [] node.kind \in {"cycleGuard", "depthLimitReached", "undeclared"} -> NoMembers

UsersOf(object, name, maxDepth) == EvaluateExpandNode(Expand(object, name, maxDepth))

(***************************************************************************)
(* listObjects() without the index: the objects of the namespace that any  *)
(* row names, expired rows included, in the order of their ids up to a     *)
(* limit, each of them then checked.                                       *)
(***************************************************************************)
StoredObjects(ns) == {t.object : t \in {t \in Tuples : rows[t] # "absent" /\ t.object.ns = ns}}

\* Mutant: the query is limited to the candidates that are kept.
CandidatesWithoutOneMore(ns) ==
  LET stored == StoredObjects(ns)
  IN  [truncated |-> FALSE,
       objects |-> CHOOSE kept \in SUBSET stored :
                     Cardinality(kept) = (IF Cardinality(stored) > MaxCandidates
                                          THEN MaxCandidates ELSE Cardinality(stored))]

Candidates(ns) ==
  LET stored == StoredObjects(ns)
  IN  [truncated |-> Cardinality(stored) > MaxCandidates,
       objects |-> CHOOSE kept \in SUBSET stored :
                     Cardinality(kept) = (IF Cardinality(stored) > MaxCandidates
                                          THEN MaxCandidates ELSE Cardinality(stored))]
=============================================================================

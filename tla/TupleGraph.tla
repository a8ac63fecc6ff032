---------------------------- MODULE TupleGraph -----------------------------
(***************************************************************************)
(* The data that a check is evaluated over: one published schema and the   *)
(* tuples stored under it.  Writers are atomic here (TupleStore.tla is     *)
(* what they do in detail), for a check reads one snapshot                 *)
(* (PinnedCheck.tla).  An entity is a record of a namespace and an id.     *)
(* Also the steps that both resolvers return beside an answer.             *)
(***************************************************************************)
EXTENDS Integers, Sequences, FiniteSets

CONSTANTS Schemas,    \* the schemas a run looks at, each compiled without error
          Tuples,     \* the tuples callers may try to write
          MayExpire,  \* those of them that a caller may give a validity window
          None,       \* no relation after the subject
          MaxNesting  \* how deep rules are nested: the parser bounds what an expression opens

VARIABLES schema,     \* namespace |-> its relations and permissions
          rows        \* relation_tuples: what is stored for each tuple

graphVars == <<schema, rows>>

Wildcard == "*"

\* Rewrite rules, as the compiler leaves them.
Computed(name) == [kind |-> "computedUserset", name |-> name]
Union(children) == [kind |-> "union", children |-> children]
Intersection(children) == [kind |-> "intersection", children |-> children]
Exclusion(base, subtract) == [kind |-> "exclusion", base |-> base, subtract |-> subtract]
TupleToUserset(relation, name) ==
  [kind |-> "tupleToUserset", relation |-> relation, computedUserset |-> name]

\* The rules that are nested no deeper than h.
Rewrites[h \in Nat] ==
  [kind : {"computedUserset"}, name : STRING]
    \cup [kind : {"tupleToUserset"}, relation : STRING, computedUserset : STRING]
    \cup (IF h = 0 THEN {}
          ELSE [kind : {"union", "intersection"}, children : Seq(Rewrites[h - 1])]
                 \cup [kind : {"exclusion"}, base : Rewrites[h - 1], subtract : Rewrites[h - 1]])

AllRewrites == Rewrites[MaxNesting]

Entity == [ns : STRING, id : STRING]
Keys == Entity \X STRING   \* a name on an entity

\* What a resolver's recursion is called with.
Calls == [rule : AllRewrites, object : Entity, visited : SUBSET Keys, depth : Nat]
Call(rule, object, visited, depth) ==
  [rule |-> rule, object |-> object, visited |-> visited, depth |-> depth]

\* The subject types of a relation: entities of a namespace, the usersets of
\* one of its relations, or everybody in it.
Plain(ns) == [ns |-> ns, relation |-> None, wildcard |-> FALSE]
Userset(ns, relation) == [ns |-> ns, relation |-> relation, wildcard |-> FALSE]
Everyone(ns) == [ns |-> ns, relation |-> None, wildcard |-> TRUE]

\* A compiled schema: its namespaces and names are finitely many.
IsSchema(s) ==
  /\ IsFiniteSet(DOMAIN s)
  /\ \A ns \in DOMAIN s :
       /\ ns \in STRING
       /\ IsFiniteSet(DOMAIN s[ns].relations) /\ DOMAIN s[ns].relations \subseteq STRING
       /\ IsFiniteSet(DOMAIN s[ns].permissions) /\ DOMAIN s[ns].permissions \subseteq STRING
       /\ \A name \in DOMAIN s[ns].permissions : s[ns].permissions[name] \in AllRewrites

ASSUME GraphAssumption ==
  /\ MaxNesting \in Nat
  /\ IsFiniteSet(Tuples)
  /\ Tuples \subseteq [object : Entity, relation : STRING, subject : Entity,
                       subjectRelation : STRING \cup {None}]
  /\ \A s \in Schemas : IsSchema(s)

Declares(ns, relation) == /\ ns \in DOMAIN schema
                          /\ relation \in DOMAIN schema[ns].relations

Defines(ns, permission) == /\ ns \in DOMAIN schema
                           /\ permission \in DOMAIN schema[ns].permissions

\* The validation that precedes a write.
SubjectTypeAllowed(t) ==
  \E st \in schema[t.object.ns].relations[t.relation] :
     /\ st.ns = t.subject.ns
     /\ IF t.subject.id = Wildcard THEN st.wildcard
                                   ELSE ~st.wildcard /\ st.relation = t.subjectRelation

WildcardStructureOK(t) == t.subject.id = Wildcard => t.subjectRelation = None

Accepted(t) ==
  /\ WildcardStructureOK(t)
  /\ Declares(t.object.ns, t.relation)
  /\ SubjectTypeAllowed(t)
  /\ (t.subjectRelation # None /\ t.subject.ns \in DOMAIN schema)
        => Declares(t.subject.ns, t.subjectRelation)

\* The rows a read sees: those whose validity window, if any, is still open.
Live == {t \in Tuples : rows[t] \in {"permanent", "expiring"}}
Expiring == {t \in Tuples : rows[t] = "expiring"}

GraphInit == /\ schema \in Schemas
             /\ rows = [t \in Tuples |-> "absent"]

\* A write of a tuple that is stored, be it expired, does nothing.
WriteTuple(t) == /\ Accepted(t)
                 /\ rows[t] = "absent"
                 /\ \E s \in {"permanent"} \cup (IF t \in MayExpire THEN {"expiring"} ELSE {}) :
                      rows' = [rows EXCEPT ![t] = s]
                 /\ UNCHANGED schema

DeleteTuple(t) == /\ rows[t] # "absent"
                  /\ rows' = [rows EXCEPT ![t] = "absent"]
                  /\ UNCHANGED schema

\* The clock passes the end of some windows; the rows stay where they are.
Ended(ts) == [t \in Tuples |-> IF t \in ts THEN "expired" ELSE rows[t]]

Expire == /\ \E ts \in SUBSET Expiring \ {{}} : rows' = Ended(ts)
          /\ UNCHANGED schema

GraphNext == \/ \E t \in Tuples : WriteTuple(t) \/ DeleteTuple(t)
             \/ Expire

GraphSpec == GraphInit /\ [][GraphNext]_graphVars

(***************************************************************************)
(* What a resolver returns beside its answer: a tree of steps that proves  *)
(* an allowed answer, or a tree of disproofs of a denied one.  Both        *)
(* resolvers build the same steps, but for the tuples of a relation, which *)
(* production disproves all at once and the reference one by one.          *)
(***************************************************************************)
\* via is "wildcard" when the stored subject is everybody.
DirectGrant(object, relation, subject, via) ==
  [kind |-> "directGrant", object |-> object, relation |-> relation, subject |-> subject,
   via |-> via]
UsersetMembership(object, relation, userset, usersetRelation, member) ==
  [kind |-> "usersetMembership", object |-> object, relation |-> relation,
   userset |-> userset, usersetRelation |-> usersetRelation, member |-> member]
UnionStep(object, i, branch) ==
  [kind |-> "union", object |-> object, branchIndex |-> i, branch |-> branch]
IntersectionStep(object, branches) ==
  [kind |-> "intersection", object |-> object, branches |-> branches]
ExclusionStep(object, base, subtractDisproof) ==
  [kind |-> "exclusion", object |-> object, base |-> base, subtractDisproof |-> subtractDisproof]
TupleToUsersetStep(object, rule, through, member) ==
  [kind |-> "tupleToUserset", object |-> object, relation |-> rule.relation,
   computedUserset |-> rule.computedUserset, through |-> through, member |-> member]

\* A relation is disproved by all that the query reached, with its tuples.
ClosureNode(key, tuples) == [key |-> key, tuples |-> tuples]
RelationDisproof(object, relation, nodes) ==
  [kind |-> "relationDisproof", object |-> object, relation |-> relation, nodes |-> nodes]
UnionDisproof(object, branches) ==
  [kind |-> "unionDisproof", object |-> object, branches |-> branches]
IntersectionDisproof(object, i, branch) ==
  [kind |-> "intersectionDisproof", object |-> object, branchIndex |-> i, branch |-> branch]
ExclusionDisproof(object, reason, step) ==
  [kind |-> "exclusionDisproof", object |-> object, reason |-> reason, step |-> step]
TupleToUsersetDisproof(object, relation, followed) ==
  [kind |-> "tupleToUsersetDisproof", object |-> object, relation |-> relation,
   followed |-> followed]
BoundReached(object, name) ==
  [kind |-> "boundReached", object |-> object, name |-> name]
UndeclaredName(object, name) ==
  [kind |-> "undeclaredName", object |-> object, name |-> name]

\* The reference resolver disproves the tuples of a relation one by one.
SubjectMismatch(subject) == [kind |-> "subjectMismatch", subject |-> subject]
UsersetNotMember(userset, usersetRelation, disproof) ==
  [kind |-> "usersetNotMember", userset |-> userset, usersetRelation |-> usersetRelation,
   disproof |-> disproof]
TuplesDisproof(object, relation, tupleDisproofs) ==
  [kind |-> "tuplesDisproof", object |-> object, relation |-> relation,
   tupleDisproofs |-> tupleDisproofs]
=============================================================================

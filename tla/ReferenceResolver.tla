------------------------- MODULE ReferenceResolver -------------------------
(***************************************************************************)
(* The resolver that fuzzing compares the production resolver with: one    *)
(* recursion for permissions, stored usersets and links alike, with one    *)
(* cycle guard and one depth limit for all of them.                        *)
(***************************************************************************)
EXTENDS TupleGraph, SequencesExt

Deny(certain, disproof) == [allowed |-> FALSE, certain |-> certain, why |-> disproof]
Allow(proof) == [allowed |-> TRUE, certain |-> TRUE, why |-> proof]

ReadTuples(object, relation) == {t \in Live : t.object = object /\ t.relation = relation}

IsMatch(t, subject) == /\ t.subject.ns = subject.ns
                       /\ t.subject.id = subject.id \/ t.subject.id = Wildcard

\* The first branch that allows decides.
AnyOf(object, outcomes) ==
  LET first == SelectInSeq(outcomes, LAMBDA o : o.allowed)
  IN  IF first # 0 THEN Allow(UnionStep(object, first, outcomes[first].why))
      ELSE Deny(\A i \in DOMAIN outcomes : outcomes[i].certain,
                UnionDisproof(object, [i \in DOMAIN outcomes |-> outcomes[i].why]))

\* The first branch that denies decides.
AllOf(object, outcomes) ==
  LET first == SelectInSeq(outcomes, LAMBDA o : ~o.allowed)
  IN  IF first = 0 THEN Allow(IntersectionStep(object, [i \in DOMAIN outcomes |-> outcomes[i].why]))
      ELSE Deny(outcomes[first].certain, IntersectionDisproof(object, first, outcomes[first].why))

ButNot(object, base, subtract) ==
  IF ~base.allowed THEN Deny(base.certain, ExclusionDisproof(object, "baseDisproven", base.why))
  ELSE IF subtract.allowed
       THEN Deny(TRUE, ExclusionDisproof(object, "subtractProven", subtract.why))
  ELSE IF subtract.certain THEN Allow(ExclusionStep(object, base.why, subtract.why))
  ELSE Deny(FALSE, ExclusionDisproof(object, "subtractUnprovable", subtract.why))

\* Tuples are followed in the order of an array, whatever it is: followed is a
\* set of tuples with their outcomes.
Followed(object, rule, followed) ==
  IF \E f \in followed : f.outcome.allowed
  THEN LET first == CHOOSE f \in followed : f.outcome.allowed
       IN  Allow(TupleToUsersetStep(object, rule, first.tuple.subject, first.outcome.why))
  ELSE Deny(\A f \in followed : f.outcome.certain,
            TupleToUsersetDisproof(object, rule.relation,
              {[through |-> f.tuple.subject, disproof |-> f.outcome.why] : f \in followed}))

(***************************************************************************)
(* The recursion, as in ProductionResolver.tla.  Every call of             *)
(* resolveMembership but the first is one deeper than its caller.          *)
(***************************************************************************)
RefRelation(below, subject, object, relation, visiting, depth) ==
  LET tuples  == ReadTuples(object, relation)
      plain   == {t \in tuples : t.subjectRelation = None}
      matches == {t \in plain : IsMatch(t, subject)}
      members == {[tuple |-> t, outcome |-> below[Call(Computed(t.subjectRelation), t.subject,
                                                  visiting, depth)]] : t \in tuples \ plain}
  IN  IF matches # {}
      THEN Allow(DirectGrant(object, relation, subject,
                   IF \E t \in matches : t.subject = subject THEN None ELSE "wildcard"))
      ELSE IF \E m \in members : m.outcome.allowed
      THEN LET first == CHOOSE m \in members : m.outcome.allowed
           IN  Allow(UsersetMembership(object, relation, first.tuple.subject,
                                       first.tuple.subjectRelation, first.outcome.why))
      ELSE Deny(\A m \in members : m.outcome.certain,
                TuplesDisproof(object, relation,
                  {SubjectMismatch(t.subject) : t \in plain}
                    \cup {UsersetNotMember(m.tuple.subject, m.tuple.subjectRelation, m.outcome.why) :
                            m \in members}))

ResolveMembership(below, subject, object, name, visiting, depth, maxDepth) ==
  LET key == <<object, name>>
  IN  IF depth > maxDepth \/ key \in visiting THEN Deny(FALSE, BoundReached(object, name))
      ELSE IF Declares(object.ns, name)
           THEN RefRelation(below, subject, object, name, visiting \cup {key}, depth)
      ELSE IF Defines(object.ns, name)
           THEN below[Call(schema[object.ns].permissions[name], object, visiting \cup {key}, depth)]
      ELSE Deny(TRUE, UndeclaredName(object, name))

\* below[Call(Computed(name), ...)] is what becomes of a name one level deeper.
RefRewrite(below, subject, node, object, visiting, depth, maxDepth) ==
  CASE node.kind = "computedUserset" ->
         ResolveMembership(below, subject, object, node.name, visiting, depth + 1, maxDepth)
    [] node.kind = "union" ->
         AnyOf(object, [i \in DOMAIN node.children |->
                          below[Call(node.children[i], object, visiting, depth)]])
    [] node.kind = "intersection" ->
         AllOf(object, [i \in DOMAIN node.children |->
                          below[Call(node.children[i], object, visiting, depth)]])
    [] node.kind = "exclusion" ->
         ButNot(object, below[Call(node.base, object, visiting, depth)],
                below[Call(node.subtract, object, visiting, depth)])
    [] node.kind = "tupleToUserset" ->
         Followed(object, node,
           {[tuple |-> t, outcome |-> ResolveMembership(below, subject, t.subject,
                                        node.computedUserset, visiting, depth + 1, maxDepth)] :
              t \in ReadTuples(object, node.relation)})

RefHeight(maxDepth) == (maxDepth + 2) * (MaxNesting + 2)

ReferenceWalk(subject, maxDepth) ==
  LET walk[h \in Nat] ==
        [c \in Calls |->
           IF h = 0 THEN Deny(FALSE, None)
           ELSE RefRewrite(walk[h - 1], subject, c.rule, c.object, c.visited, c.depth, maxDepth)]
  IN  walk

ReferenceCheck(subject, object, name, maxDepth) ==
  ResolveMembership(ReferenceWalk(subject, maxDepth)[RefHeight(maxDepth)], subject, object, name,
                    {}, 0, maxDepth)
=============================================================================

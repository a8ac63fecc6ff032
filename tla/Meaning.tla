------------------------------ MODULE Meaning ------------------------------
(***************************************************************************)
(* The meaning of a name on an object, to hold the code against: its       *)
(* well-founded model, in which a subject has a permission, does not have  *)
(* it, or, when an exclusion depends on its own complement, neither.       *)
(***************************************************************************)
EXTENDS ProductionResolver

CONSTANT Subjects   \* whom the questions are about

Entities == {t.object : t \in Tuples} \cup {t.subject : t \in Tuples}
NamesOf(ns) == DOMAIN schema[ns].relations \cup DOMAIN schema[ns].permissions
Pairs == UNION {{Key(e, n) : e \in {e \in Entities : e.ns = ns}, n \in NamesOf(ns)} :
                  ns \in DOMAIN schema}

(***************************************************************************)
(* The well-founded model, by the alternating fixpoint: pos holds what is  *)
(* taken as true and neg what is taken as possible, with the roles changed *)
(* on the subtracted side of an exclusion.                                 *)
(***************************************************************************)
Questions == [rule : AllRewrites, object : Entity, pos : SUBSET Keys, neg : SUBSET Keys]
Question(rule, object, pos, neg) == [rule |-> rule, object |-> object, pos |-> pos, neg |-> neg]

SatRule(below, rule, object, pos, neg) ==
  \/ rule.kind = "computedUserset" /\ Key(object, rule.name) \in pos
  \/ /\ rule.kind = "union"
     /\ \E i \in DOMAIN rule.children : below[Question(rule.children[i], object, pos, neg)]
  \/ /\ rule.kind = "intersection"
     /\ \A i \in DOMAIN rule.children : below[Question(rule.children[i], object, pos, neg)]
  \/ /\ rule.kind = "exclusion"
     /\ below[Question(rule.base, object, pos, neg)]
     /\ ~below[Question(rule.subtract, object, neg, pos)]
  \/ /\ rule.kind = "tupleToUserset"
     /\ \E t \in Live : /\ OnKey(t, Key(object, rule.relation))
                        /\ Key(t.subject, rule.computedUserset) \in pos

\* For rules of less than h levels.
Sat[h \in Nat] ==
  [q \in Questions |-> h > 0 /\ SatRule(Sat[h - 1], q.rule, q.object, q.pos, q.neg)]

Satisfied(rule, object, pos, neg) == Sat[MaxNesting + 1][Question(rule, object, pos, neg)]

Follows(subject, key, pos, neg) ==
  LET ns == key[1].ns
  IN  IF Declares(ns, key[2])
      THEN \E t \in Live : /\ OnKey(t, key)
                           /\ IF t.subjectRelation = None THEN SubjectMatches(t.subject, subject)
                                                          ELSE Target(t) \in pos
      ELSE Satisfied(schema[ns].permissions[key[2]], key[1], pos, neg)

\* Round after round of what follows, until nothing more does.
Least(subject, pairs, neg) ==
  LET least[n \in Nat] ==
        [pos \in SUBSET pairs |->
           LET next == {k \in pairs : k \in pos \/ Follows(subject, k, pos, neg)}
           IN  IF n = 0 \/ next = pos THEN pos ELSE least[n - 1][next]]
  IN  least[Cardinality(pairs)][{}]

Alternate(subject, pairs) ==
  LET alternate[n \in Nat] ==
        [true \in SUBSET pairs |->
           LET possible == Least(subject, pairs, true)
               next     == Least(subject, pairs, possible)
           IN  IF n = 0 \/ next = true THEN [true |-> true, possible |-> possible]
               ELSE alternate[n - 1][next]]
  IN  alternate[Cardinality(pairs)][{}]

\* The pairs that are true for the subject, and those that are not false.
Model(subject) == Alternate(subject, Pairs)
=============================================================================

------------------------- MODULE ProductionResolver ------------------------
(***************************************************************************)
(* The walk of one production check over one snapshot, with the relation   *)
(* index off (LeopardIndex.tla has it on): a recursion over permissions,   *)
(* and one recursive query per relation.  An outcome says whether the      *)
(* subject is allowed, whether a denial is certain, whether a row with a   *)
(* validity window was among those read, and why: a proof or a disproof.   *)
(* A walk ends at the first branch that decides it.                        *)
(***************************************************************************)
EXTENDS TupleGraph, SequencesExt

Key(object, name) == <<object, name>>

OnKey(t, key) == t.object = key[1] /\ t.relation = key[2]
Target(t) == Key(t.subject, t.subjectRelation)

SubjectMatches(tupleSubject, subject) ==
  /\ tupleSubject.ns = subject.ns
  /\ tupleSubject.id \in {subject.id, Wildcard}

(***************************************************************************)
(* The recursive query.  Each round joins the rows of the round before     *)
(* with the usersets stored on them; "distinct on" keeps one row per key,  *)
(* and which one it keeps is up to the database.                           *)
(***************************************************************************)
Extends(t, m, maxDepth) == /\ OnKey(t, m.key)
                           /\ t.subjectRelation # None
                           /\ m.depth < maxDepth
                           /\ Target(t) \notin Range(m.path)

Joined(level, maxDepth) ==
  UNION {{[key |-> Target(t), depth |-> m.depth + 1, path |-> Append(m.path, Target(t))] :
            t \in {t \in Live : Extends(t, m, maxDepth)}} : m \in level}

DistinctOn(rs) == {s \in SUBSET rs : /\ \A r \in rs : \E q \in s : q.key = r.key
                                     /\ \A q, r \in s : q.key = r.key => q = r}

\* The rows after n rounds and the last of them, whatever rows were kept.
Rounds(start, maxDepth) ==
  LET rounds[n \in Nat] ==
        IF n = 0 THEN {[rows |-> start, level |-> start]}
        ELSE UNION {{[rows |-> r.rows \cup next, level |-> next] :
                        next \in DistinctOn(Joined(r.level, maxDepth))} : r \in rounds[n - 1]}
  IN  rounds

StartRow(key) == [key |-> key, depth |-> 0, path |-> <<key>>]

\* Every result the query may return.
ReachableFrontiers(object, relation, maxDepth) ==
  {r.rows : r \in Rounds({StartRow(Key(object, relation))}, maxDepth)[maxDepth]}

\* Mutant: the last row of a key is kept, not the shallowest.
DedupeKeepingLast(rs) == {r \in rs : \A q \in rs : q.key = r.key => q.depth <= r.depth}

DedupeFrontier(rs) == {r \in rs : \A q \in rs : q.key = r.key => r.depth <= q.depth}

TuplesOnFrontier(frontier) == {t \in Live : \E r \in frontier : OnKey(t, r.key)}

DepthReached(rs) == CHOOSE d \in {r.depth : r \in rs} : \A r \in rs : r.depth <= d

\* Mutant: a query that stops at the limit is taken to have ended by itself.
CeilingNeverBinds(frontier, depthReached, maxDepth) == FALSE

\* Did the depth limit keep the query from a key that it never read?
DepthCeilingBinding(frontier, depthReached, maxDepth) ==
  /\ depthReached = maxDepth
  /\ \E r \in frontier, t \in Live :
       /\ r.depth = maxDepth
       /\ OnKey(t, r.key)
       /\ t.subjectRelation # None
       /\ \A q \in frontier : q.key # Target(t)

Denied(certain, touched, disproof) ==
  [allowed |-> FALSE, certain |-> certain, touched |-> touched, why |-> disproof]
Allowed(touched, proof) ==
  [allowed |-> TRUE, certain |-> TRUE, touched |-> touched, why |-> proof]

\* Mutant: a proof does not say that the stored subject is everybody.
ProofWithoutVia(path, subject, via) ==
  FoldRight(LAMBDA i, member : UsersetMembership(path[i][1], path[i][2],
                                                 path[i + 1][1], path[i + 1][2], member),
            [i \in 1..(Len(path) - 1) |-> i],
            DirectGrant(path[Len(path)][1], path[Len(path)][2], subject, None))

\* From the grant on the last key of the path back to the relation asked for.
ReconstructProof(path, subject, via) ==
  FoldRight(LAMBDA i, member : UsersetMembership(path[i][1], path[i][2],
                                                 path[i + 1][1], path[i + 1][2], member),
            [i \in 1..(Len(path) - 1) |-> i],
            DirectGrant(path[Len(path)][1], path[Len(path)][2], subject, via))

BuildRelationDisproof(object, relation, frontier, read) ==
  RelationDisproof(object, relation,
    {ClosureNode(r.key, {t \in read : OnKey(t, r.key)}) : r \in frontier})

Grants(t, row, subject) == /\ OnKey(t, row.key)
                           /\ t.subjectRelation = None
                           /\ SubjectMatches(t.subject, subject)

\* The rows are gone through by depth, and the first that matches is the proof.
OutcomeOfRows(rs, object, relation, subject, maxDepth) ==
  LET frontier == DedupeFrontier(rs)
      read     == TuplesOnFrontier(frontier)
      touched  == read \cap Expiring # {}
      matches  == {m \in frontier \X read : Grants(m[2], m[1], subject)}
  IN  IF matches # {}
      THEN LET first == CHOOSE m \in matches : \A n \in matches : m[1].depth <= n[1].depth
           IN  Allowed(touched, ReconstructProof(first[1].path, subject,
                 IF first[2].subject = subject THEN None ELSE "wildcard"))
      ELSE Denied(~DepthCeilingBinding(frontier, DepthReached(rs), maxDepth), touched,
                  BuildRelationDisproof(object, relation, frontier, read))

SqlRelationMembership(object, relation, subject, maxDepth) ==
  OutcomeOfRows(CHOOSE rs \in ReachableFrontiers(object, relation, maxDepth) : TRUE,
                object, relation, subject, maxDepth)

(***************************************************************************)
(* The combinators, over the outcomes of the branches in their order.      *)
(***************************************************************************)
TouchedUpTo(outcomes, n) == \E i \in 1..n : outcomes[i].touched

OfUnion(object, outcomes) ==
  LET first == SelectInSeq(outcomes, LAMBDA o : o.allowed)
  IN  IF first # 0
      THEN Allowed(TouchedUpTo(outcomes, first), UnionStep(object, first, outcomes[first].why))
      ELSE Denied(\A i \in DOMAIN outcomes : outcomes[i].certain,
                  TouchedUpTo(outcomes, Len(outcomes)),
                  UnionDisproof(object, [i \in DOMAIN outcomes |-> outcomes[i].why]))

OfIntersection(object, outcomes) ==
  LET first == SelectInSeq(outcomes, LAMBDA o : ~o.allowed)
  IN  IF first = 0
      THEN Allowed(TouchedUpTo(outcomes, Len(outcomes)),
                   IntersectionStep(object, [i \in DOMAIN outcomes |-> outcomes[i].why]))
      ELSE Denied(outcomes[first].certain, TouchedUpTo(outcomes, first),
                  IntersectionDisproof(object, first, outcomes[first].why))

\* Mutant: a subtracted side that was cut short counts as disproved.
ExclusionOfUnproved(object, base, subtract) ==
  IF ~base.allowed
  THEN Denied(base.certain, base.touched, ExclusionDisproof(object, "baseDisproven", base.why))
  ELSE LET touched == base.touched \/ subtract.touched
       IN  IF subtract.allowed
           THEN Denied(TRUE, touched, ExclusionDisproof(object, "subtractProven", subtract.why))
           ELSE Allowed(touched, ExclusionStep(object, base.why, subtract.why))

OfExclusion(object, base, subtract) ==
  IF ~base.allowed
  THEN Denied(base.certain, base.touched, ExclusionDisproof(object, "baseDisproven", base.why))
  ELSE LET touched == base.touched \/ subtract.touched
       IN  IF subtract.allowed
           THEN Denied(TRUE, touched, ExclusionDisproof(object, "subtractProven", subtract.why))
           ELSE IF ~subtract.certain
           THEN Denied(FALSE, touched,
                       ExclusionDisproof(object, "subtractUnprovable", subtract.why))
           ELSE Allowed(touched, ExclusionStep(object, base.why, subtract.why))

\* Mutant: the window of the link that was followed is not reported.
MembersAlone(object, rule, linkTouched, members) ==
  LET proofs == {m \in members : m.outcome.allowed}
      proof  == CHOOSE m \in proofs : TRUE
  IN  IF proofs # {}
      THEN Allowed(\A m \in proofs : m.outcome.touched,
                   TupleToUsersetStep(object, rule, proof.through, proof.outcome.why))
      ELSE Denied(\A m \in members : m.outcome.certain, \E m \in members : m.outcome.touched,
                  TupleToUsersetDisproof(object, rule.relation,
                    {[through |-> m.through, disproof |-> m.outcome.why] : m \in members}))

\* The rows of a tuple-to-userset come in no particular order, so that an
\* allowed walk may have followed nothing but the member that allowed it.
OfTupleToUserset(object, rule, linkTouched, members) ==
  LET proofs == {m \in members : m.outcome.allowed}
      proof  == CHOOSE m \in proofs : TRUE
  IN  IF proofs # {}
      THEN Allowed(linkTouched \/ \A m \in proofs : m.outcome.touched,
                   TupleToUsersetStep(object, rule, proof.through, proof.outcome.why))
      ELSE Denied(\A m \in members : m.outcome.certain,
                  linkTouched \/ \E m \in members : m.outcome.touched,
                  TupleToUsersetDisproof(object, rule.relation,
                    {[through |-> m.through, disproof |-> m.outcome.why] : m \in members}))

TupleSubjects(object, relation) == {t \in Live : OnKey(t, Key(object, relation))}

(***************************************************************************)
(* The recursion.  below is what the calls one further up the stack        *)
(* return, for any rule, object, names being visited and depth; Height is  *)
(* more than the stack ever holds, for every visit to a permission costs   *)
(* one of depth and takes no more calls than its rule is nested.           *)
(***************************************************************************)
Resolve(below, subject, object, name, visited, depth, maxDepth) ==
  IF depth > maxDepth \/ Key(object, name) \in visited
  THEN Denied(FALSE, FALSE, BoundReached(object, name))
  ELSE IF Declares(object.ns, name)
       THEN SqlRelationMembership(object, name, subject, maxDepth - depth)
  ELSE IF Defines(object.ns, name)
       THEN below[Call(schema[object.ns].permissions[name], object, visited \cup {Key(object, name)},
                  depth + 1)]
  ELSE Denied(TRUE, FALSE, UndeclaredName(object, name))

EvalRewrite(below, subject, rule, object, visited, depth, maxDepth) ==
  CASE rule.kind = "computedUserset" ->
         Resolve(below, subject, object, rule.name, visited, depth, maxDepth)
    [] rule.kind = "union" ->
         OfUnion(object, [i \in DOMAIN rule.children |->
                            below[Call(rule.children[i], object, visited, depth)]])
    [] rule.kind = "intersection" ->
         OfIntersection(object, [i \in DOMAIN rule.children |->
                                   below[Call(rule.children[i], object, visited, depth)]])
    [] rule.kind = "exclusion" ->
         OfExclusion(object, below[Call(rule.base, object, visited, depth)],
                     below[Call(rule.subtract, object, visited, depth)])
    [] rule.kind = "tupleToUserset" ->
         LET links == TupleSubjects(object, rule.relation)
         IN  OfTupleToUserset(object, rule, links \cap Expiring # {},
               {[through |-> t.subject,
                 outcome |-> Resolve(below, subject, t.subject, rule.computedUserset, visited,
                                     depth, maxDepth)] : t \in links})

Height(maxDepth) == (maxDepth + 2) * (MaxNesting + 1)
OverHeight == Denied(FALSE, FALSE, None)

ProductionWalk(subject, maxDepth) ==
  LET walk[h \in Nat] ==
        [c \in Calls |->
           IF h = 0 THEN OverHeight
           ELSE EvalRewrite(walk[h - 1], subject, c.rule, c.object, c.visited, c.depth, maxDepth)]
  IN  walk

ProductionCheck(subject, object, name, maxDepth) ==
  Resolve(ProductionWalk(subject, maxDepth)[Height(maxDepth)], subject, object, name, {}, 0, maxDepth)
=============================================================================

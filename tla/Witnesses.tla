----------------------------- MODULE Witnesses ------------------------------
(***************************************************************************)
(* A reading of the steps that the resolvers return, against the stored    *)
(* tuples and the schema and nothing else: does a proof derive what was    *)
(* asked, and does a disproof leave no way to derive it?                   *)
(***************************************************************************)
EXTENDS Meaning

Matches(t, subject) == t.subjectRelation = None /\ SubjectMatches(t.subject, subject)

\* The stored subject that a direct grant names.
Granted(step) == IF step.via = None THEN step.subject
                 ELSE [ns |-> step.subject.ns, id |-> Wildcard]

\* Every tuple of a node is on it, none is the subject's, and where one of
\* them leads to is a node as well.
Closed(nodes, subject) ==
  \A n \in nodes :
    /\ n.tuples = {t \in Live : OnKey(t, n.key)}
    /\ \A t \in n.tuples : ~Matches(t, subject)
    /\ \A t \in n.tuples : t.subjectRelation # None => \E m \in nodes : m.key = Target(t)

RECURSIVE Proves(_, _, _, _), ProvesRule(_, _, _, _),
          Disproves(_, _, _, _), DisprovesRule(_, _, _, _)

Proves(step, subject, object, name) ==
  IF Declares(object.ns, name)
  THEN /\ step.object = object /\ step.relation = name
       /\ \/ /\ step.kind = "directGrant"
             /\ step.subject = subject
             /\ \E t \in Live : /\ OnKey(t, Key(object, name))
                                /\ t.subjectRelation = None /\ t.subject = Granted(step)
          \/ /\ step.kind = "usersetMembership"
             /\ \E t \in Live : /\ OnKey(t, Key(object, name))
                                /\ t.subjectRelation # None
                                /\ Target(t) = Key(step.userset, step.usersetRelation)
             /\ Proves(step.member, subject, step.userset, step.usersetRelation)
  ELSE /\ Defines(object.ns, name)
       /\ ProvesRule(step, subject, object, schema[object.ns].permissions[name])

ProvesRule(step, subject, object, rule) ==
  IF rule.kind = "computedUserset" THEN Proves(step, subject, object, rule.name)
  ELSE /\ step.kind = rule.kind /\ step.object = object
       /\ CASE rule.kind = "union" ->
                 ProvesRule(step.branch, subject, object, rule.children[step.branchIndex])
            [] rule.kind = "intersection" ->
                 \A i \in DOMAIN rule.children :
                   ProvesRule(step.branches[i], subject, object, rule.children[i])
            [] rule.kind = "exclusion" ->
                 /\ ProvesRule(step.base, subject, object, rule.base)
                 /\ DisprovesRule(step.subtractDisproof, subject, object, rule.subtract)
            [] rule.kind = "tupleToUserset" ->
                 /\ \E t \in Live : /\ OnKey(t, Key(object, rule.relation))
                                    /\ t.subject = step.through
                 /\ Proves(step.member, subject, step.through, rule.computedUserset)

Disproves(step, subject, object, name) ==
  IF Declares(object.ns, name)
  THEN \/ /\ step.kind = "relationDisproof"
          /\ \E n \in step.nodes : n.key = Key(object, name)
          /\ Closed(step.nodes, subject)
       \/ /\ step.kind = "tuplesDisproof"
          /\ \A t \in {t \in Live : OnKey(t, Key(object, name))} :
               /\ ~Matches(t, subject)
               /\ \E d \in step.tupleDisproofs :
                    \/ d.kind = "subjectMismatch" /\ t.subjectRelation = None /\ d.subject = t.subject
                    \/ /\ d.kind = "usersetNotMember" /\ t.subjectRelation # None
                       /\ Target(t) = Key(d.userset, d.usersetRelation)
                       /\ Disproves(d.disproof, subject, d.userset, d.usersetRelation)
  ELSE IF Defines(object.ns, name)
       THEN DisprovesRule(step, subject, object, schema[object.ns].permissions[name])
  ELSE step.kind = "undeclaredName"

DisprovesRule(step, subject, object, rule) ==
  IF rule.kind = "computedUserset" THEN Disproves(step, subject, object, rule.name)
  ELSE CASE step.kind = "unionDisproof" ->
              \A i \in DOMAIN rule.children :
                DisprovesRule(step.branches[i], subject, object, rule.children[i])
         [] step.kind = "intersectionDisproof" ->
              DisprovesRule(step.branch, subject, object, rule.children[step.branchIndex])
         [] step.kind = "exclusionDisproof" ->
              \/ /\ step.reason = "baseDisproven"
                 /\ DisprovesRule(step.step, subject, object, rule.base)
              \/ /\ step.reason = "subtractProven"
                 /\ ProvesRule(step.step, subject, object, rule.subtract)
         [] step.kind = "tupleToUsersetDisproof" ->
              \A t \in {t \in Live : OnKey(t, Key(object, rule.relation))} :
                \E f \in step.followed :
                  /\ f.through = t.subject
                  /\ Disproves(f.disproof, subject, f.through, rule.computedUserset)
         [] OTHER -> FALSE

\* An allowed outcome comes with a proof, and a denied one says that it is
\* certain exactly when what it comes with is a disproof.
Reverifies(o, subject, object, name) ==
  IF o.allowed THEN Proves(o.why, subject, object, name)
  ELSE o.certain <=> Disproves(o.why, subject, object, name)
=============================================================================

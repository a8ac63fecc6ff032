---------------------------- MODULE Monotonicity -----------------------------
(***************************************************************************)
(* src/metamorphic/monotonicity.ts: can a tuple that is written take away  *)
(* what a name grants?  classifyMonotone keeps what it has found out about *)
(* a schema between calls; findFlippableExclusion looks for an exclusion   *)
(* that two tuples can show at work.                                       *)
(***************************************************************************)
EXTENDS TupleGraph, SequencesExt

CONSTANT Nothing   \* no exclusion located

\* A walk carries the cache of the schema and what is grey; Found is the answer.
Found(value, walk) == [value |-> value, walk |-> walk]
Remember(walk, key, value) ==
  [cache |-> [k \in DOMAIN walk.cache \cup {key} |-> IF k = key THEN value ELSE walk.cache[k]],
   grey  |-> walk.grey \ {key}]

\* Mutant: a node that is met again is taken to be monotone.
MetAgain(walk) == Found(TRUE, walk)

\* A grey node: a cycle, of which nothing is claimed.
OnCycle(walk) == Found(FALSE, walk)

RECURSIVE ClassifyNode(_, _, _, _), ClassifyRule(_, _, _, _)

\* Every target is visited, also after one that is not monotone.
AllMonotone(targets, step(_, _), walk) ==
  FoldLeft(LAMBDA found, target :
             LET next == step(target, found.walk)
             IN  Found(found.value /\ next.value, next.walk),
           Found(TRUE, walk), targets)

ClassifyRule(s, ns, rule, walk) ==
  CASE rule.kind = "computedUserset" -> ClassifyNode(s, ns, rule.name, walk)
    [] rule.kind \in {"union", "intersection"} ->
         AllMonotone(rule.children, LAMBDA child, w : ClassifyRule(s, ns, child, w), walk)
    [] rule.kind = "exclusion" -> Found(FALSE, walk)
    [] rule.kind = "tupleToUserset" ->
         AllMonotone(SetToSeq({ type.ns : type \in s[ns].relations[rule.relation] } \cap DOMAIN s),
                     LAMBDA target, w : ClassifyNode(s, target, rule.computedUserset, w), walk)

ClassifyNode(s, ns, name, walk) ==
  LET key == <<ns, name>>
  IN  CASE key \in DOMAIN walk.cache -> Found(walk.cache[key], walk)
        [] key \in walk.grey -> OnCycle(walk)
        [] key \notin DOMAIN walk.cache \cup walk.grey ->
             LET found == IF name \in DOMAIN s[ns].relations THEN Found(TRUE, walk)
                          ELSE ClassifyRule(s, ns, s[ns].permissions[name],
                                            [walk EXCEPT !.grey = @ \cup {key}])
             IN  Found(found.value, Remember(found.walk, key, found.value))

\* classifyMonotone, given what is cached: the answer and what is cached then.
ClassifyMonotone(s, ns, name, cache) ==
  LET found == ClassifyNode(s, ns, name, [cache |-> cache, grey |-> {}])
  IN  [value |-> found.value, cache |-> found.walk.cache]

-----------------------------------------------------------------------------
(* findFlippableExclusion.                                                 *)

Seen(found, visited) == [found |-> found, visited |-> visited]

\* Mutant: the walk goes into intersections as well.
RECURSIVE WalkThroughBoth(_, _, _)
WalkThroughBoth(config, rule, visited) ==
  CASE rule.kind = "exclusion" -> Seen(rule, visited)
    [] rule.kind \in {"union", "intersection"} ->
         FoldLeft(LAMBDA so, child : IF so.found # Nothing THEN so
                                     ELSE WalkThroughBoth(config, child, so.visited),
                  Seen(Nothing, visited), rule.children)
    [] rule.kind = "computedUserset" ->
         IF rule.name \in visited \/ rule.name \notin DOMAIN config.permissions
         THEN Seen(Nothing, visited \cup {rule.name})
         ELSE WalkThroughBoth(config, config.permissions[rule.name], visited \cup {rule.name})
    [] OTHER -> Seen(Nothing, visited)

\* The first exclusion a rule leads to through unions and names of the namespace;
\* a permission is entered once.
RECURSIVE WalkRule(_, _, _)
WalkRule(config, rule, visited) ==
  CASE rule.kind = "exclusion" -> Seen(rule, visited)
    [] rule.kind = "union" ->
         FoldLeft(LAMBDA so, child : IF so.found # Nothing THEN so
                                     ELSE WalkRule(config, child, so.visited),
                  Seen(Nothing, visited), rule.children)
    [] rule.kind = "computedUserset" ->
         IF rule.name \in visited \/ rule.name \notin DOMAIN config.permissions
         THEN Seen(Nothing, visited \cup {rule.name})
         ELSE WalkRule(config, config.permissions[rule.name], visited \cup {rule.name})
    [] OTHER -> Seen(Nothing, visited)

\* Both sides have to be relations, and two of them.
FindFlippableExclusion(config, name) ==
  LET rule == WalkRule(config, Computed(name), {}).found
  IN  IF /\ rule # Nothing
         /\ {rule.base.kind, rule.subtract.kind} = {"computedUserset"}
         /\ {rule.base.name, rule.subtract.name} \subseteq DOMAIN config.relations
         /\ rule.base.name # rule.subtract.name
      THEN [base |-> rule.base.name, subtract |-> rule.subtract.name]
      ELSE Nothing
=============================================================================

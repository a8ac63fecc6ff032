--------------------------- MODULE ResolverProofs ---------------------------
(***************************************************************************)
(* Proofs about Decisions.tla: what the two resolvers decide is what the   *)
(* schema means, the rows that the recursive query keeps do not show, a    *)
(* larger depth limit only decides more, and an answer that saw no window  *)
(* outlives the windows.                                                   *)
(***************************************************************************)
EXTENDS Decisions, NumberLemmas

-----------------------------------------------------------------------------
(***************************************************************************)
(* Recursion.  Every recursive function of the model is a function on Nat  *)
(* each value of which is made from the one before: prev is that value,    *)
(* and p and q are what the operator around the function is applied to.    *)
(***************************************************************************)
RewritesStep(h, prev) ==
  [kind : {"computedUserset"}, name : STRING]
    \cup [kind : {"tupleToUserset"}, relation : STRING, computedUserset : STRING]
    \cup (IF h = 0 THEN {}
          ELSE [kind : {"union", "intersection"}, children : Seq(prev)]
                 \cup [kind : {"exclusion"}, base : prev, subtract : prev])

SatStep(h, prev) ==
  [q \in Questions |-> h > 0 /\ SatRule(prev, q.rule, q.object, q.pos, q.neg)]

NextPos(subject, pairs, neg, pos) == {k \in pairs : k \in pos \/ Follows(subject, k, pos, neg)}

LeastStep(subject, pairs, neg, h, prev) ==
  [pos \in SUBSET pairs |->
     IF h = 0 \/ NextPos(subject, pairs, neg, pos) = pos THEN pos
     ELSE prev[NextPos(subject, pairs, neg, pos)]]

AlternateStep(subject, pairs, h, prev) ==
  [true \in SUBSET pairs |->
     LET possible == Least(subject, pairs, true)
         next     == Least(subject, pairs, possible)
     IN  IF h = 0 \/ next = true THEN [true |-> true, possible |-> possible]
         ELSE prev[next]]

RoundsStep(start, maxDepth, h, prev) ==
  IF h = 0 THEN {[rows |-> start, level |-> start]}
  ELSE UNION {{[rows |-> r.rows \cup next, level |-> next] :
                  next \in DistinctOn(Joined(r.level, maxDepth))} : r \in prev}

ProductionStep(subject, maxDepth, h, prev) ==
  [c \in Calls |->
     IF h = 0 THEN OverHeight
     ELSE EvalRewrite(prev, subject, c.rule, c.object, c.visited, c.depth, maxDepth)]

ReferenceStep(subject, maxDepth, h, prev) ==
  [c \in Calls |->
     IF h = 0 THEN Deny(FALSE, None)
     ELSE RefRewrite(prev, subject, c.rule, c.object, c.visited, c.depth, maxDepth)]

PositivesStep(h, prev) ==
  [kind : {"computedUserset"}, name : STRING]
    \cup [kind : {"tupleToUserset"}, relation : STRING, computedUserset : STRING]
    \cup (IF h = 0 THEN {} ELSE [kind : {"union", "intersection"}, children : Seq(prev)])

RecursionStep(which, p, q, r, h, prev) ==
  IF which = 1 THEN RewritesStep(h, prev)
  ELSE IF which = 2 THEN SatStep(h, prev)
  ELSE IF which = 3 THEN LeastStep(p, q, r, h, prev)
  ELSE IF which = 4 THEN AlternateStep(p, q, h, prev)
  ELSE IF which = 5 THEN RoundsStep(p, q, h, prev)
  ELSE IF which = 6 THEN ProductionStep(p, q, h, prev)
  ELSE IF which = 7 THEN ReferenceStep(p, q, h, prev)
  ELSE PositivesStep(h, prev)

\* The first step takes nothing from the one before it.
LEMMA FirstStep ==
    ASSUME NEW which, NEW p, NEW q, NEW r, NEW x, NEW y
    PROVE  RecursionStep(which, p, q, r, 0, x) = RecursionStep(which, p, q, r, 0, y)
<1>1. RewritesStep(0, x) = RewritesStep(0, y)
  BY DEF RewritesStep
<1>2. SatStep(0, x) = SatStep(0, y)
  BY DEF SatStep
<1>3. LeastStep(p, q, r, 0, x) = LeastStep(p, q, r, 0, y)
  BY DEF LeastStep
<1>4. AlternateStep(p, q, 0, x) = AlternateStep(p, q, 0, y)
  BY DEF AlternateStep
<1>5. RoundsStep(p, q, 0, x) = RoundsStep(p, q, 0, y)
  BY DEF RoundsStep
<1>6. ProductionStep(p, q, 0, x) = ProductionStep(p, q, 0, y)
  BY DEF ProductionStep
<1>7. ReferenceStep(p, q, 0, x) = ReferenceStep(p, q, 0, y)
  BY DEF ReferenceStep
<1>8. PositivesStep(0, x) = PositivesStep(0, y)
  BY DEF PositivesStep
<1> QED BY <1>1, <1>2, <1>3, <1>4, <1>5, <1>6, <1>7, <1>8 DEF RecursionStep

\* Each of the recursions defines a function.
IsRecursion(f, which, p, q, r) == f = [h \in Nat |-> RecursionStep(which, p, q, r, h, f[h - 1])]

LEMMA RecursionsAreDefined ==
    ASSUME NEW which, NEW p, NEW q, NEW r
    PROVE  \E f : IsRecursion(f, which, p, q, r)
<1> DEFINE Step(h, prev) == RecursionStep(which, p, q, r, h, prev)
           Is(g, n) == /\ DOMAIN g = 0..n
                       /\ \A h \in 0..n : g[h] = Step(h, g[h - 1])
           Bad == {n \in Nat : ~ \E g : Is(g, n)}
<1>1. \A x, y : Step(0, x) = Step(0, y)
  BY FirstStep
<1> HIDE DEF Step
<1>2. ASSUME NEW n \in Bad, \A m \in Bad : n <= m PROVE FALSE
  <2>1. CASE n = 0
    <3> DEFINE g == [h \in 0..0 |-> Step(0, 0)]
    <3>1. Is(g, 0)
      BY <1>1
    <3> QED BY <2>1, <3>1
  <2>2. CASE n # 0
    <3>1. n - 1 \in Nat /\ n - 1 \notin Bad
      <4> HIDE DEF Bad
      <4>1. n \in Nat
        BY DEF Bad
      <4> QED BY <1>2, <2>2, <4>1
    <3>2. PICK g : Is(g, n - 1)
      BY <3>1
    <3> DEFINE more == [h \in 0..n |-> IF h = n THEN Step(n, g[n - 1]) ELSE g[h]]
    <3>3. ASSUME NEW h \in 0..n PROVE more[h] = Step(h, more[h - 1])
      <4>1. CASE h = 0
        <5>1. more[h] = g[0] /\ 0 \in 0..(n - 1)
          BY <2>2, <3>1, <4>1
        <5>2. g[0] = Step(0, g[0 - 1])
          BY <3>2, <5>1
        <5> QED BY <1>1, <4>1, <5>1, <5>2
      <4>2. CASE h # 0
        <5>1. h - 1 \in 0..n /\ h - 1 # n
          BY <3>1, <4>2
        <5>2. more[h - 1] = g[h - 1]
          BY <5>1
        <5>3. CASE h = n
          BY <5>2, <5>3
        <5>4. CASE h # n
          <6>1. h \in 0..(n - 1) /\ more[h] = g[h]
            BY <3>1, <5>4
          <6> QED BY <3>2, <5>2, <6>1
        <5> QED BY <5>3, <5>4
      <4> QED BY <4>1, <4>2
    <3>4. Is(more, n)
      BY <3>3
    <3> HIDE DEF more
    <3> QED BY <3>4
  <2> QED BY <2>1, <2>2
<1>3. ASSUME NEW n \in Nat PROVE \E g : Is(g, n)
  <2>1. SUFFICES ASSUME Bad # {} PROVE FALSE
    OBVIOUS
  <2>2. Bad \subseteq Nat
    OBVIOUS
  <2> HIDE DEF Bad
  <2> QED BY <1>2, <2>1, <2>2, LeastNumber
<1>4. ASSUME NEW n \in Nat, NEW m \in Nat, n <= m, NEW g, NEW k, Is(g, n), Is(k, m)
      PROVE  g[n] = k[n]
  <2> DEFINE Same == {h \in 0..n : g[h] = k[h]}
  <2>1. 0 \in Same
    <3>1. g[0] = Step(0, g[0 - 1]) /\ k[0] = Step(0, k[0 - 1])
      BY <1>4
    <3>2. Step(0, g[0 - 1]) = Step(0, k[0 - 1])
      BY <1>1
    <3> QED BY <3>1, <3>2
  <2>2. ASSUME NEW h \in 1..n, h - 1 \in Same PROVE h \in Same
    <3>1. h \in 0..n /\ h \in 0..m
      BY <1>4
    <3>2. g[h] = Step(h, g[h - 1]) /\ k[h] = Step(h, k[h - 1])
      BY <1>4, <3>1
    <3> QED BY <2>2, <3>1, <3>2
  <2>3. 0..n \subseteq Same
    <3> HIDE DEF Same
    <3> QED BY <2>1, <2>2, Along
  <2> QED BY <2>3
<1> DEFINE of(n) == CHOOSE g : Is(g, n)
           f == [h \in Nat |-> of(h)[h]]
<1>5. \A n \in Nat : Is(of(n), n)
  <2> HIDE DEF Is
  <2> QED BY <1>3
<1> HIDE DEF of
<1>6. ASSUME NEW h \in Nat PROVE f[h] = Step(h, f[h - 1])
  <2>1. Is(of(h), h)
    BY <1>5
  <2>2. of(h)[h] = Step(h, of(h)[h - 1])
    BY <2>1
  <2>3. CASE h = 0
    BY <1>1, <2>2, <2>3
  <2>4. CASE h # 0
    <3>1. h - 1 \in Nat /\ h - 1 <= h
      BY <2>4
    <3>2. Is(of(h - 1), h - 1)
      BY <1>5, <3>1
    <3>3. of(h - 1)[h - 1] = of(h)[h - 1]
      <4> HIDE DEF Is
      <4> QED BY <1>4, <2>1, <3>1, <3>2
    <3>4. f[h - 1] = of(h - 1)[h - 1]
      BY <3>1
    <3> QED BY <2>2, <3>3, <3>4
  <2> QED BY <2>3, <2>4
<1>7. f = [h \in Nat |-> Step(h, f[h - 1])]
  <2>1. DOMAIN f = Nat
    OBVIOUS
  <2>2. f = [h \in Nat |-> f[h]]
    OBVIOUS
  <2> HIDE DEF f
  <2> QED BY <1>6, <2>2
<1>8. IsRecursion(f, which, p, q, r)
  <2> HIDE DEF f
  <2> QED BY <1>7 DEF IsRecursion, Step
<1> QED BY <1>8

LEMMA RewritesUnfolds == \A h \in Nat : Rewrites[h] = RewritesStep(h, Rewrites[h - 1])
<1> DEFINE Is(f) == f = [h \in Nat |-> RewritesStep(h, f[h - 1])]
<1>1. PICK f : IsRecursion(f, 1, 0, 0, 0)
  BY RecursionsAreDefined
<1>2. Is(f)
  BY <1>1 DEF IsRecursion, RecursionStep
<1>3. Rewrites = CHOOSE k : Is(k)
  BY DEF Rewrites, RewritesStep
<1>4. Is(Rewrites)
  <2> HIDE DEF Is
  <2> QED BY <1>2, <1>3
<1> QED BY <1>4

LEMMA SatUnfolds == \A h \in Nat : Sat[h] = SatStep(h, Sat[h - 1])
<1> DEFINE Is(f) == f = [h \in Nat |-> SatStep(h, f[h - 1])]
<1>1. PICK f : IsRecursion(f, 2, 0, 0, 0)
  BY RecursionsAreDefined
<1>2. Is(f)
  BY <1>1 DEF IsRecursion, RecursionStep
<1>3. Sat = CHOOSE k : Is(k)
  BY DEF Sat, SatStep
<1>4. Is(Sat)
  <2> HIDE DEF Is
  <2> QED BY <1>2, <1>3
<1> QED BY <1>4

LEMMA RoundsUnfolds ==
    ASSUME NEW start, NEW maxDepth
    PROVE  \A h \in Nat : Rounds(start, maxDepth)[h]
                            = RoundsStep(start, maxDepth, h, Rounds(start, maxDepth)[h - 1])
<1> DEFINE Is(f) == f = [h \in Nat |-> RoundsStep(start, maxDepth, h, f[h - 1])]
<1>1. PICK f : IsRecursion(f, 5, start, maxDepth, 0)
  BY RecursionsAreDefined
<1>2. Is(f)
  BY <1>1 DEF IsRecursion, RecursionStep
<1>3. Rounds(start, maxDepth) = CHOOSE k : Is(k)
  BY DEF Rounds, RoundsStep
<1>4. Is(Rounds(start, maxDepth))
  <2> HIDE DEF Is
  <2> QED BY <1>2, <1>3
<1> QED BY <1>4

LEMMA ProductionUnfolds ==
    ASSUME NEW subject, NEW maxDepth
    PROVE  \A h \in Nat : ProductionWalk(subject, maxDepth)[h]
             = ProductionStep(subject, maxDepth, h, ProductionWalk(subject, maxDepth)[h - 1])
<1> DEFINE Is(f) == f = [h \in Nat |-> ProductionStep(subject, maxDepth, h, f[h - 1])]
<1>1. PICK f : IsRecursion(f, 6, subject, maxDepth, 0)
  BY RecursionsAreDefined
<1>2. Is(f)
  BY <1>1 DEF IsRecursion, RecursionStep
<1>3. ProductionWalk(subject, maxDepth) = CHOOSE k : Is(k)
  BY DEF ProductionWalk, ProductionStep
<1>4. Is(ProductionWalk(subject, maxDepth))
  <2> HIDE DEF Is
  <2> QED BY <1>2, <1>3
<1> QED BY <1>4

LEMMA ReferenceUnfolds ==
    ASSUME NEW subject, NEW maxDepth
    PROVE  \A h \in Nat : ReferenceWalk(subject, maxDepth)[h]
             = ReferenceStep(subject, maxDepth, h, ReferenceWalk(subject, maxDepth)[h - 1])
<1> DEFINE Is(f) == f = [h \in Nat |-> ReferenceStep(subject, maxDepth, h, f[h - 1])]
<1>1. PICK f : IsRecursion(f, 7, subject, maxDepth, 0)
  BY RecursionsAreDefined
<1>2. Is(f)
  BY <1>1 DEF IsRecursion, RecursionStep
<1>3. ReferenceWalk(subject, maxDepth) = CHOOSE k : Is(k)
  BY DEF ReferenceWalk, ReferenceStep
<1>4. Is(ReferenceWalk(subject, maxDepth))
  <2> HIDE DEF Is
  <2> QED BY <1>2, <1>3
<1> QED BY <1>4

LEMMA LeastUnfolds ==
    ASSUME NEW subject, NEW pairs, NEW neg
    PROVE  \E f : /\ \A h \in Nat : f[h] = LeastStep(subject, pairs, neg, h, f[h - 1])
                  /\ Least(subject, pairs, neg) = f[Cardinality(pairs)][{}]
<1> DEFINE Is(f) == f = [h \in Nat |-> LeastStep(subject, pairs, neg, h, f[h - 1])]
<1>1. PICK f : IsRecursion(f, 3, subject, pairs, neg)
  BY RecursionsAreDefined
<1>2. Is(f)
  BY <1>1 DEF IsRecursion, RecursionStep
<1> DEFINE least == CHOOSE k : Is(k)
<1>3. Least(subject, pairs, neg) = least[Cardinality(pairs)][{}]
  BY DEF Least, LeastStep, NextPos
<1>4. Is(least)
  <2> HIDE DEF Is
  <2> QED BY <1>2
<1> HIDE DEF least
<1> QED BY <1>3, <1>4

LEMMA AlternateUnfolds ==
    ASSUME NEW subject, NEW pairs
    PROVE  \E f : /\ \A h \in Nat : f[h] = AlternateStep(subject, pairs, h, f[h - 1])
                  /\ Alternate(subject, pairs) = f[Cardinality(pairs)][{}]
<1> DEFINE Is(f) == f = [h \in Nat |-> AlternateStep(subject, pairs, h, f[h - 1])]
<1>1. PICK f : IsRecursion(f, 4, subject, pairs, 0)
  BY RecursionsAreDefined
<1>2. Is(f)
  BY <1>1 DEF IsRecursion, RecursionStep
<1> DEFINE alternate == CHOOSE k : Is(k)
<1>3. Alternate(subject, pairs) = alternate[Cardinality(pairs)][{}]
  BY DEF Alternate, AlternateStep
<1>4. Is(alternate)
  <2> HIDE DEF Is
  <2> QED BY <1>2
<1> HIDE DEF alternate
<1> QED BY <1>3, <1>4

-----------------------------------------------------------------------------
(***************************************************************************)
(* Rules.                                                                  *)
(***************************************************************************)
\* A rule whose parts are in S.
MadeOf(rule, S) ==
  \/ rule.kind = "computedUserset" /\ rule.name \in STRING
  \/ rule.kind = "tupleToUserset" /\ rule.relation \in STRING /\ rule.computedUserset \in STRING
  \/ rule.kind \in {"union", "intersection"} /\ rule.children \in Seq(S)
  \/ rule.kind = "exclusion" /\ rule.base \in S /\ rule.subtract \in S

LEMMA RewritesGrow == \A h \in Nat : Rewrites[h] \subseteq Rewrites[h + 1]
<1>1. SUFFICES ASSUME NEW n \in Nat PROVE Rewrites[n] \subseteq Rewrites[n + 1]
  OBVIOUS
<1> DEFINE Good == {h \in 0..n : Rewrites[h] \subseteq Rewrites[h + 1]}
<1>2. ASSUME NEW A, NEW B, A \subseteq B PROVE Seq(A) \subseteq Seq(B)
  <2>1. SUFFICES ASSUME NEW s \in Seq(A) PROVE s \in Seq(B)
    OBVIOUS
  <2>2. Len(s) \in Nat /\ s \in [1..Len(s) -> A]
    OBVIOUS
  <2>3. s \in [1..Len(s) -> B]
    BY <1>2, <2>2
  <2> QED BY <2>2, <2>3
<1>3. 0 \in Good
  <2>1. Rewrites[0] = RewritesStep(0, Rewrites[0 - 1]) /\ Rewrites[0 + 1] = RewritesStep(1, Rewrites[0])
    BY RewritesUnfolds
  <2>2. RewritesStep(0, Rewrites[0 - 1]) \subseteq RewritesStep(1, Rewrites[0])
    BY DEF RewritesStep
  <2> QED BY <2>1, <2>2
<1>4. ASSUME NEW h \in 1..n, h - 1 \in Good PROVE h \in Good
  <2>1. Rewrites[h] = RewritesStep(h, Rewrites[h - 1]) /\ Rewrites[h + 1] = RewritesStep(h + 1, Rewrites[h])
    BY RewritesUnfolds
  <2>2. Rewrites[h - 1] \subseteq Rewrites[h]
    BY <1>4
  <2>3. Seq(Rewrites[h - 1]) \subseteq Seq(Rewrites[h])
    BY <1>2, <2>2
  <2>4. RewritesStep(h, Rewrites[h - 1]) \subseteq RewritesStep(h + 1, Rewrites[h])
    BY <2>2, <2>3 DEF RewritesStep
  <2> QED BY <2>1, <2>4
<1>5. 0..n \subseteq Good
  <2> HIDE DEF Good
  <2> QED BY <1>3, <1>4, Along
<1> QED BY <1>5

LEMMA RewriteIsMadeOf ==
    ASSUME NEW h \in Nat, NEW rule \in Rewrites[h]
    PROVE  MadeOf(rule, IF h = 0 THEN {} ELSE Rewrites[h - 1])
<1>1. rule \in RewritesStep(h, Rewrites[h - 1])
  BY RewritesUnfolds
<1> QED BY <1>1 DEF RewritesStep, MadeOf

LEMMA RuleIsMadeOfRules ==
    ASSUME NEW rule \in AllRewrites
    PROVE  MadeOf(rule, AllRewrites)
<1>1. MaxNesting \in Nat
  BY GraphAssumption
<1>2. MadeOf(rule, IF MaxNesting = 0 THEN {} ELSE Rewrites[MaxNesting - 1])
  BY <1>1, RewriteIsMadeOf DEF AllRewrites
<1>3. CASE MaxNesting = 0
  BY <1>2, <1>3 DEF MadeOf
<1>4. CASE MaxNesting # 0
  <2>1. Rewrites[MaxNesting - 1] \subseteq AllRewrites
    BY <1>1, <1>4, RewritesGrow DEF AllRewrites
  <2>2. MadeOf(rule, Rewrites[MaxNesting - 1])
    BY <1>2, <1>4
  <2> QED BY <2>1, <2>2 DEF MadeOf
<1> QED BY <1>3, <1>4

\* The kinds of rules, one by one.
LEMMA RuleKinds ==
    ASSUME NEW rule \in AllRewrites
    PROVE  /\ rule.kind \in {"computedUserset", "tupleToUserset", "union", "intersection", "exclusion"}
           /\ rule.kind = "computedUserset" => rule.name \in STRING
           /\ rule.kind = "tupleToUserset" => rule.relation \in STRING /\ rule.computedUserset \in STRING
           /\ rule.kind \in {"union", "intersection"} => /\ rule.children \in Seq(AllRewrites)
                                                         /\ \A i \in DOMAIN rule.children :
                                                              rule.children[i] \in AllRewrites
           /\ rule.kind = "exclusion" => rule.base \in AllRewrites /\ rule.subtract \in AllRewrites
BY RuleIsMadeOfRules DEF MadeOf

-----------------------------------------------------------------------------
(***************************************************************************)
(* What follows from what: more from more that is taken as true and less   *)
(* that is taken as possible.                                              *)
(***************************************************************************)
SatMore(h) ==
  \A rule \in AllRewrites, object \in Entity, pos, neg, more, less \in SUBSET Keys :
    pos \subseteq more /\ less \subseteq neg /\ Sat[h][Question(rule, object, pos, neg)]
      => Sat[h][Question(rule, object, more, less)]

LEMMA SatValue ==
    ASSUME NEW h \in Nat, NEW rule \in AllRewrites, NEW object \in Entity,
           NEW pos \in SUBSET Keys, NEW neg \in SUBSET Keys
    PROVE  Sat[h][Question(rule, object, pos, neg)]
             = (h > 0 /\ SatRule(Sat[h - 1], rule, object, pos, neg))
<1>1. Sat[h] = SatStep(h, Sat[h - 1])
  BY SatUnfolds
<1>2. Question(rule, object, pos, neg) \in Questions
  BY DEF Question, Questions
<1> QED BY <1>1, <1>2 DEF SatStep, Question

LEMMA SatGrows == \A h \in Nat : SatMore(h)
<1>1. SUFFICES ASSUME NEW n \in Nat PROVE SatMore(n)
  OBVIOUS
<1> DEFINE Good == {h \in 0..n : SatMore(h)}
<1>2. 0 \in Good
  BY SatValue DEF SatMore
<1>3. ASSUME NEW h \in 1..n, h - 1 \in Good PROVE h \in Good
  <2>1. ASSUME NEW rule \in AllRewrites, NEW object \in Entity,
               NEW pos \in SUBSET Keys, NEW neg \in SUBSET Keys,
               NEW more \in SUBSET Keys, NEW less \in SUBSET Keys,
               pos \subseteq more, less \subseteq neg,
               Sat[h][Question(rule, object, pos, neg)]
        PROVE  Sat[h][Question(rule, object, more, less)]
    <3>1. SatMore(h - 1)
      BY <1>3
    <3>2. ASSUME NEW part \in AllRewrites
          PROVE  /\ Sat[h - 1][Question(part, object, pos, neg)]
                      => Sat[h - 1][Question(part, object, more, less)]
                 /\ Sat[h - 1][Question(part, object, less, more)]
                      => Sat[h - 1][Question(part, object, neg, pos)]
      BY <2>1, <3>1 DEF SatMore
    <3>5. h \in Nat /\ h > 0
      OBVIOUS
    <3>6. /\ Sat[h][Question(rule, object, pos, neg)]
               = (h > 0 /\ SatRule(Sat[h - 1], rule, object, pos, neg))
          /\ Sat[h][Question(rule, object, more, less)]
               = (h > 0 /\ SatRule(Sat[h - 1], rule, object, more, less))
      BY <3>5, SatValue
    <3>3. SatRule(Sat[h - 1], rule, object, pos, neg)
      BY <2>1, <3>6
    <3>4. SatRule(Sat[h - 1], rule, object, more, less)
      BY <2>1, <3>2, <3>3, RuleKinds DEF SatRule
    <3> QED BY <3>4, <3>5, <3>6
  <2>2. SatMore(h)
    BY <2>1 DEF SatMore
  <2> QED BY <2>2
<1>4. 0..n \subseteq Good
  <2> HIDE DEF Good
  <2> QED BY <1>2, <1>3, Along
<1> QED BY <1>4

\* Nothing depends on how far a rule is looked into, once it is as far as it goes.
SatSettled(h) ==
  \A rule \in Rewrites[h], object \in Entity, pos, neg \in SUBSET Keys :
    Sat[h + 1][Question(rule, object, pos, neg)] = Sat[h + 2][Question(rule, object, pos, neg)]

LEMMA RewritesWithin ==
    ASSUME NEW h \in Nat, h <= MaxNesting
    PROVE  Rewrites[h] \subseteq AllRewrites
<1> DEFINE Good == {k \in 0..(MaxNesting - h) : Rewrites[h] \subseteq Rewrites[h + k]}
<1>1. MaxNesting \in Nat /\ MaxNesting - h \in Nat
  BY GraphAssumption
<1>2. 0 \in Good
  BY <1>1
<1>3. ASSUME NEW k \in 1..(MaxNesting - h), k - 1 \in Good PROVE k \in Good
  <2>1. h + (k - 1) \in Nat /\ h + (k - 1) + 1 = h + k
    BY <1>1
  <2>2. Rewrites[h + (k - 1)] \subseteq Rewrites[h + k]
    BY <2>1, RewritesGrow
  <2> QED BY <1>1, <1>3, <2>2
<1>4. 0..(MaxNesting - h) \subseteq Good
  <2> HIDE DEF Good
  <2> QED BY <1>1, <1>2, <1>3, Along
<1>5. MaxNesting - h \in Good
  BY <1>1, <1>4
<1>6. h + (MaxNesting - h) = MaxNesting
  BY <1>1
<1> QED BY <1>5, <1>6 DEF AllRewrites

LEMMA SatSettles == \A h \in 0..MaxNesting : SatSettled(h)
<1> DEFINE Good == {h \in 0..MaxNesting : SatSettled(h)}
<1>1. MaxNesting \in Nat
  BY GraphAssumption
<1>2. ASSUME NEW h \in 0..MaxNesting, h = 0 \/ h - 1 \in Good PROVE SatSettled(h)
  <2>1. SUFFICES ASSUME NEW rule \in Rewrites[h], NEW object \in Entity,
                        NEW pos \in SUBSET Keys, NEW neg \in SUBSET Keys
                 PROVE  Sat[h + 1][Question(rule, object, pos, neg)]
                          = Sat[h + 2][Question(rule, object, pos, neg)]
    BY DEF SatSettled
  <2>2. h \in Nat /\ rule \in AllRewrites
    BY <1>1, RewritesWithin
  <2>3. /\ Sat[h + 1][Question(rule, object, pos, neg)] = SatRule(Sat[h], rule, object, pos, neg)
        /\ Sat[h + 2][Question(rule, object, pos, neg)] = SatRule(Sat[h + 1], rule, object, pos, neg)
    <3>1. /\ Sat[h + 1][Question(rule, object, pos, neg)]
               = (h + 1 > 0 /\ SatRule(Sat[h + 1 - 1], rule, object, pos, neg))
          /\ Sat[h + 2][Question(rule, object, pos, neg)]
               = (h + 2 > 0 /\ SatRule(Sat[h + 2 - 1], rule, object, pos, neg))
      BY <2>2, SatValue
    <3>2. h + 1 > 0 /\ h + 2 > 0 /\ h + 1 - 1 = h /\ h + 2 - 1 = h + 1
      BY <2>2
    <3>3. SatRule(Sat[h], rule, object, pos, neg) \in BOOLEAN
          /\ SatRule(Sat[h + 1], rule, object, pos, neg) \in BOOLEAN
      BY DEF SatRule
    <3> QED BY <3>1, <3>2, <3>3
  <2>4. MadeOf(rule, IF h = 0 THEN {} ELSE Rewrites[h - 1])
    BY <2>2, RewriteIsMadeOf
  <2>5. CASE h = 0
    BY <2>3, <2>4, <2>5 DEF MadeOf, SatRule
  <2>6. CASE h # 0
    <3>1. SatSettled(h - 1) /\ MadeOf(rule, Rewrites[h - 1])
      BY <1>2, <2>4, <2>6
    <3>2. h - 1 + 1 = h /\ h - 1 + 2 = h + 1
      BY <2>2
    <3>3. \A part \in Rewrites[h - 1], p, q \in SUBSET Keys :
             Sat[h][Question(part, object, p, q)] = Sat[h + 1][Question(part, object, p, q)]
      BY <3>1, <3>2 DEF SatSettled
    <3> QED BY <2>3, <3>1, <3>3 DEF MadeOf, SatRule
  <2> QED BY <2>5, <2>6
<1>3. 0 \in Good
  BY <1>1, <1>2
<1>4. ASSUME NEW h \in 1..MaxNesting, h - 1 \in Good PROVE h \in Good
  BY <1>1, <1>2, <1>4
<1>5. 0..MaxNesting \subseteq Good
  <2> HIDE DEF Good
  <2> QED BY <1>1, <1>3, <1>4, Along
<1> QED BY <1>5

\* A rule is satisfied as its parts are.
SatisfiedRule(rule, object, pos, neg) ==
  \/ rule.kind = "computedUserset" /\ Key(object, rule.name) \in pos
  \/ /\ rule.kind = "union"
     /\ \E i \in DOMAIN rule.children : Satisfied(rule.children[i], object, pos, neg)
  \/ /\ rule.kind = "intersection"
     /\ \A i \in DOMAIN rule.children : Satisfied(rule.children[i], object, pos, neg)
  \/ /\ rule.kind = "exclusion"
     /\ Satisfied(rule.base, object, pos, neg)
     /\ ~Satisfied(rule.subtract, object, neg, pos)
  \/ /\ rule.kind = "tupleToUserset"
     /\ \E t \in Live : /\ OnKey(t, Key(object, rule.relation))
                        /\ Key(t.subject, rule.computedUserset) \in pos

LEMMA SatisfiedAsParts ==
    ASSUME NEW rule \in AllRewrites, NEW object \in Entity,
           NEW pos \in SUBSET Keys, NEW neg \in SUBSET Keys
    PROVE  Satisfied(rule, object, pos, neg) = SatisfiedRule(rule, object, pos, neg)
<1>1. MaxNesting \in Nat
  BY GraphAssumption
<1>2. Satisfied(rule, object, pos, neg) = SatRule(Sat[MaxNesting], rule, object, pos, neg)
  <2>1. Sat[MaxNesting + 1][Question(rule, object, pos, neg)]
          = (MaxNesting + 1 > 0 /\ SatRule(Sat[MaxNesting + 1 - 1], rule, object, pos, neg))
    BY <1>1, SatValue
  <2>2. MaxNesting + 1 > 0 /\ MaxNesting + 1 - 1 = MaxNesting
    BY <1>1
  <2>3. SatRule(Sat[MaxNesting], rule, object, pos, neg) \in BOOLEAN
    BY DEF SatRule
  <2> QED BY <2>1, <2>2, <2>3 DEF Satisfied
<1>3. MadeOf(rule, IF MaxNesting = 0 THEN {} ELSE Rewrites[MaxNesting - 1])
  BY <1>1, RewriteIsMadeOf DEF AllRewrites
<1>4. CASE MaxNesting = 0
  BY <1>2, <1>3, <1>4 DEF MadeOf, SatRule, SatisfiedRule
<1>5. CASE MaxNesting # 0
  <2>1. MadeOf(rule, Rewrites[MaxNesting - 1]) /\ SatSettled(MaxNesting - 1)
    <3>1. MaxNesting - 1 \in 0..MaxNesting
      BY <1>1, <1>5
    <3> QED BY <1>3, <1>5, <3>1, SatSettles
  <2>2. MaxNesting - 1 + 1 = MaxNesting /\ MaxNesting - 1 + 2 = MaxNesting + 1
    BY <1>1
  <2>3. \A part \in Rewrites[MaxNesting - 1], p, q \in SUBSET Keys :
           Sat[MaxNesting][Question(part, object, p, q)] = Satisfied(part, object, p, q)
    BY <2>1, <2>2 DEF SatSettled, Satisfied
  <2> QED BY <1>2, <2>1, <2>3 DEF MadeOf, SatRule, SatisfiedRule
<1> QED BY <1>4, <1>5

LEMMA SatisfiedGrows ==
    ASSUME NEW rule \in AllRewrites, NEW object \in Entity,
           NEW pos \in SUBSET Keys, NEW neg \in SUBSET Keys,
           NEW more \in SUBSET Keys, NEW less \in SUBSET Keys,
           pos \subseteq more, less \subseteq neg, Satisfied(rule, object, pos, neg)
    PROVE  Satisfied(rule, object, more, less)
<1>1. MaxNesting + 1 \in Nat
  BY GraphAssumption
<1>2. SatMore(MaxNesting + 1)
  BY <1>1, SatGrows
<1> QED BY <1>2 DEF SatMore, Satisfied

-----------------------------------------------------------------------------
(***************************************************************************)
(* The pairs of the model.                                                 *)
(***************************************************************************)
LEMMA EntitiesAreTyped == Entities \subseteq Entity
BY GraphAssumption DEF Entities

LEMMA PairKinds ==
    ASSUME IsSchema(schema), NEW k \in Pairs
    PROVE  /\ k = Key(k[1], k[2])
           /\ k \in Keys /\ k[1] \in Entities /\ k[1] \in Entity /\ k[2] \in STRING
           /\ Declares(k[1].ns, k[2]) \/ Defines(k[1].ns, k[2])
           /\ Defines(k[1].ns, k[2]) => schema[k[1].ns].permissions[k[2]] \in AllRewrites
<1>5. PICK ns \in DOMAIN schema :
             k \in {Key(e, n) : e \in {e \in Entities : e.ns = ns}, n \in NamesOf(ns)}
  BY DEF Pairs
<1>1. PICK e \in Entities, n \in NamesOf(ns) : k = Key(e, n) /\ e.ns = ns
  BY <1>5
<1>2. k[1] = e /\ k[2] = n /\ k = Key(k[1], k[2])
  BY <1>1 DEF Key
<1>3. e \in Entity
  BY EntitiesAreTyped
<1>4. n \in STRING /\ (Declares(ns, n) \/ Defines(ns, n))
  BY DEF NamesOf, IsSchema, Declares, Defines
<1>7. Defines(ns, n) => schema[ns].permissions[n] \in AllRewrites
  BY DEF IsSchema, Defines
<1>6. k \in Keys
  BY <1>2, <1>3, <1>4 DEF Keys, Key
<1> QED BY <1>1, <1>2, <1>3, <1>4, <1>6, <1>7

LEMMA PairOfName ==
    ASSUME NEW object \in Entities, NEW name, Declares(object.ns, name) \/ Defines(object.ns, name)
    PROVE  Key(object, name) \in Pairs
BY DEF Pairs, NamesOf, Declares, Defines

LEMMA ImageIsFinite ==
    ASSUME NEW f, IsFiniteSet(DOMAIN f)
    PROVE  IsFiniteSet({f[x] : x \in DOMAIN f})
<1>1. [x \in DOMAIN f |-> f[x]] \in Surjection(DOMAIN f, {f[x] : x \in DOMAIN f})
  BY DEF Surjection
<1> QED BY <1>1, FS_Surjection

LEMMA PairsAreFinite ==
    ASSUME IsSchema(schema)
    PROVE  IsFiniteSet(Pairs)
<1>1. IsFiniteSet(Entities)
  <2>1. IsFiniteSet({t.object : t \in Tuples}) /\ IsFiniteSet({t.subject : t \in Tuples})
    <3>1. /\ {t.object : t \in Tuples} = {[t \in Tuples |-> t.object][x] : x \in Tuples}
          /\ {t.subject : t \in Tuples} = {[t \in Tuples |-> t.subject][x] : x \in Tuples}
      OBVIOUS
    <3>2. /\ IsFiniteSet(DOMAIN [t \in Tuples |-> t.object])
          /\ IsFiniteSet(DOMAIN [t \in Tuples |-> t.subject])
      BY GraphAssumption
    <3>3. /\ IsFiniteSet({[t \in Tuples |-> t.object][x] : x \in DOMAIN [t \in Tuples |-> t.object]})
          /\ IsFiniteSet({[t \in Tuples |-> t.subject][x] : x \in DOMAIN [t \in Tuples |-> t.subject]})
      BY <3>2, ImageIsFinite
    <3> QED BY <3>1, <3>3
  <2> QED BY <2>1, FS_Union DEF Entities
<1> DEFINE names == UNION {NamesOf(ns) : ns \in DOMAIN schema}
<1>2. IsFiniteSet(names)
  <2>1. ASSUME NEW ns \in DOMAIN schema PROVE IsFiniteSet(NamesOf(ns))
    BY FS_Union DEF NamesOf, IsSchema
  <2>2. IsFiniteSet({NamesOf(ns) : ns \in DOMAIN schema})
    <3>1. IsFiniteSet(DOMAIN schema)
      BY DEF IsSchema
    <3> DEFINE f == [ns \in DOMAIN schema |-> NamesOf(ns)]
    <3>2. DOMAIN f = DOMAIN schema /\ {NamesOf(ns) : ns \in DOMAIN schema} = {f[x] : x \in DOMAIN f}
      OBVIOUS
    <3> HIDE DEF f
    <3> QED BY <3>1, <3>2, ImageIsFinite
  <2>3. \A x \in {NamesOf(ns) : ns \in DOMAIN schema} : IsFiniteSet(x)
    BY <2>1
  <2> QED BY <2>2, <2>3, FS_UNION
<1>3. IsFiniteSet(Entities \X names)
  BY <1>1, <1>2, FS_Product
<1>4. Pairs \subseteq Entities \X names
  BY DEF Pairs, Key
<1> QED BY <1>3, <1>4, FS_Subset

LEMMA FollowsGrows ==
    ASSUME IsSchema(schema), NEW subject, NEW k \in Pairs,
           NEW pos \in SUBSET Keys, NEW neg \in SUBSET Keys,
           NEW more \in SUBSET Keys, NEW less \in SUBSET Keys,
           pos \subseteq more, less \subseteq neg, Follows(subject, k, pos, neg)
    PROVE  Follows(subject, k, more, less)
<1>1. CASE Declares(k[1].ns, k[2])
  BY <1>1 DEF Follows
<1>2. CASE ~Declares(k[1].ns, k[2])
  <2>1. schema[k[1].ns].permissions[k[2]] \in AllRewrites /\ k[1] \in Entity
    BY <1>2, PairKinds
  <2>2. Satisfied(schema[k[1].ns].permissions[k[2]], k[1], pos, neg)
    BY <1>2 DEF Follows
  <2>3. Satisfied(schema[k[1].ns].permissions[k[2]], k[1], more, less)
    BY <2>1, <2>2, SatisfiedGrows
  <2> QED BY <1>2, <2>3 DEF Follows
<1> QED BY <1>1, <1>2

-----------------------------------------------------------------------------
(***************************************************************************)
(* The least fixpoint and the two of the model.                            *)
(***************************************************************************)
\* Nothing more follows from X, and everything in X does.
ClosedUnder(subject, neg, X) == \A k \in Pairs : Follows(subject, k, X, neg) => k \in X
Supported(subject, neg, X) == \A k \in X : Follows(subject, k, X, neg)

IsLeast(subject, neg, L) ==
  /\ L \subseteq Pairs
  /\ ClosedUnder(subject, neg, L)
  /\ \A X \in SUBSET Pairs : ClosedUnder(subject, neg, X) => L \subseteq X

\* What n rounds make of pos.
RoundsSuffice(subject, neg, f, n) ==
  \A pos \in SUBSET Pairs :
    Cardinality(Pairs) - Cardinality(pos) <= n =>
      /\ f[n][pos] \subseteq Pairs
      /\ ClosedUnder(subject, neg, f[n][pos])
      /\ \A X \in SUBSET Pairs : pos \subseteq X /\ ClosedUnder(subject, neg, X) => f[n][pos] \subseteq X

LEMMA PairsAreKeys ==
    ASSUME IsSchema(schema)
    PROVE  Pairs \subseteq Keys
BY PairKinds

LEMMA LeastIsLeast ==
    ASSUME IsSchema(schema), NEW subject, NEW neg \in SUBSET Keys
    PROVE  IsLeast(subject, neg, Least(subject, Pairs, neg))
<1>1. PICK f : /\ \A h \in Nat : f[h] = LeastStep(subject, Pairs, neg, h, f[h - 1])
               /\ Least(subject, Pairs, neg) = f[Cardinality(Pairs)][{}]
  BY LeastUnfolds
<1>2. /\ IsFiniteSet(Pairs) /\ Cardinality(Pairs) \in Nat
      /\ \A pos \in SUBSET Pairs : /\ IsFiniteSet(pos) /\ Cardinality(pos) \in Nat
                                   /\ Cardinality(pos) <= Cardinality(Pairs)
                                   /\ Cardinality(pos) = Cardinality(Pairs) => pos = Pairs
  BY PairsAreFinite, FS_Subset, FS_CardinalityType
<1> DEFINE N == Cardinality(Pairs)
           Good == {n \in 0..N : RoundsSuffice(subject, neg, f, n)}
           next(pos) == NextPos(subject, Pairs, neg, pos)
<1>3. ASSUME NEW n \in 0..N, n = 0 \/ n - 1 \in Good PROVE n \in Good
  <2>1. ASSUME NEW pos \in SUBSET Pairs, Cardinality(Pairs) - Cardinality(pos) <= n
        PROVE  /\ f[n][pos] \subseteq Pairs
               /\ ClosedUnder(subject, neg, f[n][pos])
               /\ \A X \in SUBSET Pairs :
                    pos \subseteq X /\ ClosedUnder(subject, neg, X) => f[n][pos] \subseteq X
    <3>1. n \in Nat /\ f[n] = LeastStep(subject, Pairs, neg, n, f[n - 1])
      BY <1>1, <1>2
    <3>2. f[n][pos] = IF n = 0 \/ next(pos) = pos THEN pos ELSE f[n - 1][next(pos)]
      BY <3>1 DEF LeastStep
    <3>3. pos \subseteq next(pos) /\ next(pos) \subseteq Pairs
      BY DEF NextPos
    <3>4. CASE next(pos) = pos
      <4>1. f[n][pos] = pos
        BY <3>2, <3>4
      <4>2. ClosedUnder(subject, neg, pos)
        BY <3>4 DEF ClosedUnder, NextPos
      <4> HIDE DEF next
      <4> QED BY <4>1, <4>2
    <3>5. CASE n = 0
      <4>1. pos = Pairs
        BY <1>2, <2>1, <3>5
      <4>2. next(pos) = pos
        <5> HIDE DEF next
        <5> QED BY <3>3, <4>1
      <4> QED BY <3>4, <4>2
    <3>6. CASE n # 0 /\ next(pos) # pos
      <4>1. f[n][pos] = f[n - 1][next(pos)]
        BY <3>2, <3>6
      <4>2. Cardinality(pos) < Cardinality(next(pos))
        <5> HIDE DEF next
        <5>1. IsFiniteSet(next(pos)) /\ Cardinality(next(pos)) \in Nat /\ Cardinality(pos) \in Nat
          BY <1>2, <3>3
        <5>2. Cardinality(pos) <= Cardinality(next(pos))
              /\ (Cardinality(next(pos)) = Cardinality(pos) => next(pos) = pos)
          BY <3>3, <5>1, FS_Subset
        <5> QED BY <3>6, <5>1, <5>2
      <4>3. Cardinality(Pairs) - Cardinality(next(pos)) <= n - 1
        <5> HIDE DEF next
        <5> QED BY <1>2, <2>1, <3>1, <3>3, <4>2
      <4>4. RoundsSuffice(subject, neg, f, n - 1)
        BY <1>3, <3>6
      <4>5. /\ f[n - 1][next(pos)] \subseteq Pairs
            /\ ClosedUnder(subject, neg, f[n - 1][next(pos)])
            /\ \A X \in SUBSET Pairs : next(pos) \subseteq X /\ ClosedUnder(subject, neg, X)
                 => f[n - 1][next(pos)] \subseteq X
        <5> HIDE DEF next
        <5> QED BY <3>3, <4>3, <4>4 DEF RoundsSuffice
      <4>6. ASSUME NEW X \in SUBSET Pairs, pos \subseteq X, ClosedUnder(subject, neg, X)
            PROVE  next(pos) \subseteq X
        <5>1. SUFFICES ASSUME NEW k \in Pairs, Follows(subject, k, pos, neg) PROVE k \in X
          BY <4>6 DEF NextPos
        <5>2. Follows(subject, k, X, neg)
          BY <4>6, <5>1, FollowsGrows, PairsAreKeys
        <5> QED BY <4>6, <5>2 DEF ClosedUnder
      <4> HIDE DEF next
      <4> QED BY <4>1, <4>5, <4>6
    <3> QED BY <3>4, <3>5, <3>6
  <2>2. RoundsSuffice(subject, neg, f, n)
    BY <2>1 DEF RoundsSuffice
  <2> QED BY <2>2
<1>4. 0..N \subseteq Good
  <2>1. N \in Nat
    BY <1>2
  <2>2. 0 \in Good /\ \A n \in 1..N : n - 1 \in Good => n \in Good
    <3>1. 0 \in 0..N /\ \A n \in 1..N : n \in 0..N
      BY <2>1
    <3> HIDE DEF Good, N
    <3> QED BY <1>3, <3>1
  <2> HIDE DEF Good, N
  <2> QED BY <2>1, <2>2, Along
<1>5. RoundsSuffice(subject, neg, f, Cardinality(Pairs))
  <2>1. N \in 0..N
    BY <1>2
  <2> QED BY <1>4, <2>1
<1>6. Cardinality(Pairs) - Cardinality({}) <= Cardinality(Pairs)
  BY <1>2, FS_EmptySet
<1> QED BY <1>1, <1>5, <1>6 DEF RoundsSuffice, IsLeast

\* In the least fixpoint there is nothing that does not follow.
LEMMA LeastIsSupported ==
    ASSUME IsSchema(schema), NEW subject, NEW neg \in SUBSET Keys, NEW L, IsLeast(subject, neg, L)
    PROVE  Supported(subject, neg, L)
<1> DEFINE X == {k \in L : Follows(subject, k, L, neg)}
<1>1. L \subseteq Pairs /\ L \in SUBSET Keys /\ X \in SUBSET Pairs /\ X \in SUBSET Keys
  BY PairsAreKeys DEF IsLeast
<1>2. ClosedUnder(subject, neg, X)
  <2>1. SUFFICES ASSUME NEW k \in Pairs, Follows(subject, k, X, neg) PROVE k \in X
    BY DEF ClosedUnder
  <2>2. Follows(subject, k, L, neg)
    <3>1. X \subseteq L
      OBVIOUS
    <3> HIDE DEF X
    <3> QED BY <1>1, <2>1, <3>1, FollowsGrows
  <2>3. k \in L
    BY <2>2 DEF IsLeast, ClosedUnder
  <2> QED BY <2>2, <2>3
<1>3. L \subseteq X
  <2> HIDE DEF X
  <2> QED BY <1>1, <1>2 DEF IsLeast
<1> QED BY <1>3 DEF Supported

\* The more is taken as possible, the less is true.
LEMMA LeastShrinks ==
    ASSUME IsSchema(schema), NEW subject, NEW neg \in SUBSET Keys, NEW wider \in SUBSET Keys,
           neg \subseteq wider
    PROVE  Least(subject, Pairs, wider) \subseteq Least(subject, Pairs, neg)
<1> DEFINE L == Least(subject, Pairs, neg)
<1>1. IsLeast(subject, neg, L) /\ IsLeast(subject, wider, Least(subject, Pairs, wider))
  BY LeastIsLeast
<1> HIDE DEF L
<1>2. L \in SUBSET Pairs /\ L \in SUBSET Keys
  BY <1>1, PairsAreKeys DEF IsLeast
<1>3. ClosedUnder(subject, wider, L)
  <2>1. SUFFICES ASSUME NEW k \in Pairs, Follows(subject, k, L, wider) PROVE k \in L
    BY DEF ClosedUnder
  <2>2. Follows(subject, k, L, neg)
    BY <1>2, <2>1, FollowsGrows
  <2> QED BY <1>1, <2>2 DEF IsLeast, ClosedUnder
<1> QED BY <1>1, <1>2, <1>3 DEF IsLeast, L

\* Each of the two is the least fixpoint for the other.
IsModel(subject, m) == /\ IsLeast(subject, m.possible, m.true)
                       /\ IsLeast(subject, m.true, m.possible)

Grows(subject, true) == true \subseteq Least(subject, Pairs, Least(subject, Pairs, true))

AlternationSuffices(subject, f, n) ==
  \A true \in SUBSET Pairs :
    Cardinality(Pairs) - Cardinality(true) <= n /\ Grows(subject, true)
      => IsModel(subject, f[n][true])

LEMMA ModelParts ==
    ASSUME NEW a, NEW b, NEW m, m = [true |-> a, possible |-> b]
    PROVE  m.true = a /\ m.possible = b
OBVIOUS

LEMMA ModelIsModel ==
    ASSUME IsSchema(schema), NEW subject
    PROVE  IsModel(subject, Model(subject))
<1>1. PICK f : /\ \A h \in Nat : f[h] = AlternateStep(subject, Pairs, h, f[h - 1])
               /\ Alternate(subject, Pairs) = f[Cardinality(Pairs)][{}]
  BY AlternateUnfolds
<1>2. /\ IsFiniteSet(Pairs) /\ Cardinality(Pairs) \in Nat
      /\ \A pos \in SUBSET Pairs : /\ IsFiniteSet(pos) /\ Cardinality(pos) \in Nat
                                   /\ Cardinality(pos) <= Cardinality(Pairs)
                                   /\ Cardinality(pos) = Cardinality(Pairs) => pos = Pairs
  BY PairsAreFinite, FS_Subset, FS_CardinalityType
<1> DEFINE N == Cardinality(Pairs)
           Good == {n \in 0..N : AlternationSuffices(subject, f, n)}
           below(sure) == Least(subject, Pairs, sure)
           next(sure) == Least(subject, Pairs, below(sure))
<1>3. ASSUME NEW sure \in SUBSET Pairs
      PROVE  /\ below(sure) \in SUBSET Pairs /\ next(sure) \in SUBSET Pairs
             /\ IsLeast(subject, sure, below(sure))
             /\ IsLeast(subject, below(sure), next(sure))
  <2>1. IsLeast(subject, sure, below(sure)) /\ below(sure) \in SUBSET Pairs
    BY PairsAreKeys, LeastIsLeast DEF IsLeast
  <2>2. IsLeast(subject, below(sure), next(sure)) /\ next(sure) \in SUBSET Pairs
    <3> HIDE DEF below
    <3> QED BY <2>1, PairsAreKeys, LeastIsLeast DEF IsLeast
  <2> QED BY <2>1, <2>2
<1>4. ASSUME NEW n \in 0..N, n = 0 \/ n - 1 \in Good PROVE n \in Good
  <2>1. ASSUME NEW sure \in SUBSET Pairs, Grows(subject, sure),
               Cardinality(Pairs) - Cardinality(sure) <= n
        PROVE  IsModel(subject, f[n][sure])
    <3>1. n \in Nat /\ f[n] = AlternateStep(subject, Pairs, n, f[n - 1])
      BY <1>1, <1>2
    <3>2. f[n][sure] = IF n = 0 \/ next(sure) = sure
                       THEN [true |-> sure, possible |-> below(sure)]
                       ELSE f[n - 1][next(sure)]
      BY <3>1 DEF AlternateStep
    <3>3. sure \subseteq next(sure)
      BY <2>1 DEF Grows
    <3>4. CASE next(sure) = sure
      <4>1. f[n][sure] = [true |-> sure, possible |-> below(sure)]
        BY <3>2, <3>4
      <4>2. IsLeast(subject, sure, below(sure)) /\ IsLeast(subject, below(sure), sure)
        <5> HIDE DEF next, below
        <5> QED BY <1>3, <3>4
      <4>3. f[n][sure].true = sure /\ f[n][sure].possible = below(sure)
        <5> DEFINE rest == below(sure)
                   m == f[n][sure]
        <5>1. m = [true |-> sure, possible |-> rest]
          BY <4>1
        <5> HIDE DEF rest, m
        <5>2. m.true = sure /\ m.possible = rest
          BY <5>1, ModelParts
        <5> QED BY <5>2 DEF rest, m
      <4> HIDE DEF next, below
      <4> QED BY <4>2, <4>3 DEF IsModel
    <3>5. CASE n = 0
      <4>1. sure = Pairs
        BY <1>2, <2>1, <3>5
      <4>2. next(sure) = sure
        <5> HIDE DEF next
        <5> QED BY <1>3, <3>3, <4>1
      <4> QED BY <3>4, <4>2
    <3>6. CASE n # 0 /\ next(sure) # sure
      <4>1. f[n][sure] = f[n - 1][next(sure)]
        BY <3>2, <3>6
      <4>2. next(sure) \in SUBSET Pairs
        BY <1>3
      <4>3. Cardinality(sure) < Cardinality(next(sure))
        <5> HIDE DEF next
        <5>1. IsFiniteSet(next(sure)) /\ Cardinality(next(sure)) \in Nat /\ Cardinality(sure) \in Nat
          BY <1>2, <4>2
        <5>2. Cardinality(sure) <= Cardinality(next(sure))
              /\ (Cardinality(next(sure)) = Cardinality(sure) => next(sure) = sure)
          BY <3>3, <5>1, FS_Subset
        <5> QED BY <3>6, <5>1, <5>2
      <4>4. Cardinality(Pairs) - Cardinality(next(sure)) <= n - 1
        <5> HIDE DEF next
        <5> QED BY <1>2, <2>1, <3>1, <4>2, <4>3
      <4>5. Grows(subject, next(sure))
        <5>1. Least(subject, Pairs, next(sure)) \subseteq Least(subject, Pairs, sure)
          <6> HIDE DEF next
          <6> QED BY <3>3, <4>2, PairsAreKeys, LeastShrinks
        <5>2. Least(subject, Pairs, next(sure)) \in SUBSET Pairs
          <6> HIDE DEF next
          <6> QED BY <4>2, PairsAreKeys, LeastIsLeast DEF IsLeast
        <5>3. Least(subject, Pairs, Least(subject, Pairs, sure))
                \subseteq Least(subject, Pairs, Least(subject, Pairs, next(sure)))
          <6>1. Least(subject, Pairs, sure) \in SUBSET Keys
            BY <1>3, PairsAreKeys
          <6> HIDE DEF next
          <6> QED BY <5>1, <5>2, <6>1, PairsAreKeys, LeastShrinks
        <5> QED BY <5>3 DEF Grows
      <4>6. AlternationSuffices(subject, f, n - 1)
        BY <1>4, <3>6
      <4>7. IsModel(subject, f[n - 1][next(sure)])
        <5> HIDE DEF next
        <5> QED BY <4>2, <4>4, <4>5, <4>6 DEF AlternationSuffices
      <4> HIDE DEF next
      <4> QED BY <4>1, <4>7
    <3> QED BY <3>4, <3>5, <3>6
  <2>2. AlternationSuffices(subject, f, n)
    BY <2>1 DEF AlternationSuffices
  <2> QED BY <2>2
<1>5. 0..N \subseteq Good
  <2>1. N \in Nat
    BY <1>2
  <2>2. 0 \in Good /\ \A n \in 1..N : n - 1 \in Good => n \in Good
    <3>1. 0 \in 0..N /\ \A n \in 1..N : n \in 0..N
      BY <2>1
    <3> HIDE DEF Good, N
    <3> QED BY <1>4, <3>1
  <2> HIDE DEF Good, N
  <2> QED BY <2>1, <2>2, Along
<1>6. AlternationSuffices(subject, f, Cardinality(Pairs))
  <2>1. N \in 0..N
    BY <1>2
  <2> QED BY <1>5, <2>1
<1>7. Cardinality(Pairs) - Cardinality({}) <= Cardinality(Pairs) /\ Grows(subject, {})
  BY <1>2, FS_EmptySet DEF Grows
<1> QED BY <1>1, <1>6, <1>7 DEF AlternationSuffices, Model

-----------------------------------------------------------------------------
(***************************************************************************)
(* The stored tuples are tuples of the schema.                             *)
(***************************************************************************)
GraphInv ==
  /\ IsSchema(schema)
  /\ rows \in [Tuples -> {"absent", "permanent", "expiring", "expired"}]
  /\ \A t \in Tuples : rows[t] # "absent" => Accepted(t)

LEMMA GraphInvHolds == GraphSpec => []GraphInv
<1>1. GraphInit => GraphInv
  BY GraphAssumption DEF GraphInit, GraphInv
<1>2. GraphInv /\ [GraphNext]_graphVars => GraphInv'
  <2> SUFFICES ASSUME GraphInv, [GraphNext]_graphVars PROVE GraphInv'
    OBVIOUS
  <2>1. schema' = schema /\ \A t : Accepted(t)' = Accepted(t)
    BY DEF GraphNext, WriteTuple, DeleteTuple, Expire, graphVars, Accepted, Declares,
           SubjectTypeAllowed, WildcardStructureOK
  <2>2. IsSchema(schema)'
    BY <2>1 DEF GraphInv, IsSchema
  <2>3. ASSUME NEW t \in Tuples, WriteTuple(t) PROVE GraphInv'
    BY <2>1, <2>2, <2>3 DEF GraphInv, WriteTuple
  <2>4. ASSUME NEW t \in Tuples, DeleteTuple(t) PROVE GraphInv'
    BY <2>1, <2>2, <2>4 DEF GraphInv, DeleteTuple
  <2>5. CASE Expire
    BY <2>1, <2>2, <2>5 DEF GraphInv, Expire, Ended, Expiring
  <2>6. CASE UNCHANGED graphVars
    BY <2>1, <2>2, <2>6 DEF GraphInv, graphVars
  <2> QED BY <2>3, <2>4, <2>5, <2>6 DEF GraphNext
<1> QED BY <1>1, <1>2, PTL DEF GraphSpec

LEMMA LiveTuples ==
    ASSUME GraphInv, NEW t \in Live
    PROVE  /\ t \in Tuples
           /\ t.object \in Entities /\ t.subject \in Entities
           /\ t.object \in Entity /\ t.subject \in Entity
           /\ t.relation \in STRING /\ t.subjectRelation \in STRING \cup {None}
           /\ Declares(t.object.ns, t.relation)
           /\ Key(t.object, t.relation) \in Pairs
           /\ t.subjectRelation # None /\ t.subject.ns \in DOMAIN schema
                => Declares(t.subject.ns, t.subjectRelation)
<1>1. t \in Tuples /\ rows[t] # "absent"
  BY DEF Live
<1>2. t \in [object : Entity, relation : STRING, subject : Entity,
             subjectRelation : STRING \cup {None}]
  BY <1>1, GraphAssumption
<1>3. Accepted(t)
  BY <1>1 DEF GraphInv
<1>4. t.object \in Entities /\ t.subject \in Entities
  BY <1>1 DEF Entities
<1>5. Declares(t.object.ns, t.relation)
  BY <1>3 DEF Accepted
<1> QED BY <1>1, <1>2, <1>3, <1>4, <1>5, PairOfName DEF Accepted

LEMMA KeyParts ==
    ASSUME NEW object, NEW name
    PROVE  Key(object, name)[1] = object /\ Key(object, name)[2] = name
BY DEF Key

\* A tuple on a key that has tuples.
LEMMA OnKeyIsKey ==
    ASSUME GraphInv, NEW t \in Live, NEW key \in Keys, OnKey(t, key)
    PROVE  key = Key(t.object, t.relation) /\ key \in Pairs /\ Declares(key[1].ns, key[2])
<1>1. key = <<key[1], key[2]>>
  BY DEF Keys
<1>2. key = Key(t.object, t.relation)
  BY <1>1 DEF OnKey, Key
<1> QED BY <1>2, LiveTuples DEF OnKey

-----------------------------------------------------------------------------
(***************************************************************************)
(* The recursive query.                                                    *)
(***************************************************************************)
KeysOf(rs) == {r.key : r \in rs}

\* A set of keys that holds a key when it holds a userset that is stored on it.
FollowsLinks(X) ==
  \A t \in Live : t.subjectRelation # None /\ Target(t) \in X => Key(t.object, t.relation) \in X

\* Everything that is granted the key is granted what the query was started for.
Leads(key, start) == \A X : FollowsLinks(X) /\ key \in X => start \in X

\* The key asked for, or one that a stored userset names.
Reached(key, start) == key = start \/ \E t \in Live : t.subjectRelation # None /\ key = Target(t)

GoodRow(q, start, rs, n, maxDepth) ==
  /\ q.key \in Keys
  /\ q.depth \in 0..n /\ q.depth <= maxDepth
  /\ q.path \in Seq(KeysOf(rs))
  /\ Reached(q.key, start) /\ Leads(q.key, start)

\* No userset on the key of a row is missing among the keys.
Followed1(q, rs) ==
  \A t \in Live : OnKey(t, q.key) /\ t.subjectRelation # None => Target(t) \in KeysOf(rs)

GoodRound(r, start, n, maxDepth) ==
  /\ r.level \subseteq r.rows
  /\ start \in KeysOf(r.rows)
  /\ \A q \in r.rows : /\ GoodRow(q, start, r.rows, n, maxDepth)
                       /\ q \in r.level \/ q.depth < n
                       /\ q.depth < n => Followed1(q, r.rows)
  /\ \A q \in r.level : q.depth = n

LEMMA SeqGrows ==
    ASSUME NEW A, NEW B, A \subseteq B
    PROVE  Seq(A) \subseteq Seq(B)
<1>1. SUFFICES ASSUME NEW s \in Seq(A) PROVE s \in Seq(B)
  OBVIOUS
<1>2. Len(s) \in Nat /\ s \in [1..Len(s) -> A]
  OBVIOUS
<1>3. s \in [1..Len(s) -> B]
  BY <1>2
<1> QED BY <1>2, <1>3

LEMMA PathKeys ==
    ASSUME NEW A, NEW path \in Seq(A)
    PROVE  Range(path) \subseteq A
<1>1. path \in [1..Len(path) -> A]
  OBVIOUS
<1> QED BY <1>1 DEF Range

LEMMA KeptRows ==
    ASSUME NEW rs, NEW s \in DistinctOn(rs)
    PROVE  s \subseteq rs /\ KeysOf(s) = KeysOf(rs)
BY DEF DistinctOn, KeysOf

LEMMA KeptRowsExist ==
    ASSUME NEW rs
    PROVE  DistinctOn(rs) # {}
<1> DEFINE pick(k) == CHOOSE r \in rs : r.key = k
           s == {pick(k) : k \in KeysOf(rs)}
<1>1. \A k \in KeysOf(rs) : pick(k) \in rs /\ pick(k).key = k
  BY DEF KeysOf
<1> HIDE DEF pick
<1>2. s \subseteq rs
  BY <1>1
<1>3. \A r \in rs : \E q \in s : q.key = r.key
  BY <1>1 DEF KeysOf
<1>4. \A q, r \in s : q.key = r.key => q = r
  BY <1>1
<1>5. s \in DistinctOn(rs)
  <2> HIDE DEF s
  <2> QED BY <1>2, <1>3, <1>4 DEF DistinctOn
<1> QED BY <1>5

\* The rows that a round joins.
LEMMA JoinedRows ==
    ASSUME NEW level, NEW maxDepth, NEW x \in Joined(level, maxDepth)
    PROVE  \E m \in level : \E t \in Live :
             /\ Extends(t, m, maxDepth)
             /\ x.key = Target(t) /\ x.depth = m.depth + 1 /\ x.path = Append(m.path, Target(t))
BY DEF Joined

LEMMA JoinedKeys ==
    ASSUME NEW level, NEW maxDepth, NEW m \in level, NEW t \in Live, Extends(t, m, maxDepth)
    PROVE  Target(t) \in KeysOf(Joined(level, maxDepth))
<1> DEFINE x == [key |-> Target(t), depth |-> m.depth + 1, path |-> Append(m.path, Target(t))]
<1>1. x \in Joined(level, maxDepth)
  BY DEF Joined
<1>2. x.key = Target(t)
  OBVIOUS
<1> HIDE DEF x
<1> QED BY <1>1, <1>2 DEF KeysOf

LEMMA TargetIsKey ==
    ASSUME GraphInv, NEW t \in Live, t.subjectRelation # None
    PROVE  Target(t) \in Keys
BY LiveTuples DEF Target, Key, Keys

LEMMA FirstRound ==
    ASSUME NEW start \in Keys, NEW maxDepth \in Nat
    PROVE  GoodRound([rows |-> {StartRow(start)}, level |-> {StartRow(start)}], start, 0, maxDepth)
<1> DEFINE q == StartRow(start)
<1>1. q.key = start /\ q.depth = 0 /\ q.path = <<start>>
  BY DEF StartRow
<1> HIDE DEF q
<1>2. KeysOf({q}) = {start}
  BY <1>1 DEF KeysOf
<1>3. GoodRow(q, start, {q}, 0, maxDepth)
  BY <1>1, <1>2 DEF GoodRow, Leads, Reached
<1>4. GoodRound([rows |-> {q}, level |-> {q}], start, 0, maxDepth)
  BY <1>1, <1>2, <1>3 DEF GoodRound
<1> QED BY <1>4 DEF q

LEMMA NextRound ==
    ASSUME GraphInv, NEW start \in Keys, NEW maxDepth \in Nat, NEW n \in Nat, n < maxDepth,
           NEW r, GoodRound(r, start, n, maxDepth),
           NEW next \in DistinctOn(Joined(r.level, maxDepth))
    PROVE  GoodRound([rows |-> r.rows \cup next, level |-> next], start, n + 1, maxDepth)
<1> DEFINE rs == r.rows \cup next
<1>1. next \subseteq Joined(r.level, maxDepth) /\ KeysOf(next) = KeysOf(Joined(r.level, maxDepth))
  BY KeptRows
<1>2. KeysOf(rs) = KeysOf(r.rows) \cup KeysOf(next)
  BY DEF KeysOf
<1> HIDE DEF rs
<1>3. Seq(KeysOf(r.rows)) \subseteq Seq(KeysOf(rs))
  BY <1>2, SeqGrows
<1>4. ASSUME NEW x \in next
      PROVE  GoodRow(x, start, rs, n + 1, maxDepth) /\ x.depth = n + 1
  <2>1. x \in Joined(r.level, maxDepth)
    BY <1>1
  <2>5. PICK m \in r.level : \E t \in Live :
          /\ Extends(t, m, maxDepth)
          /\ x.key = Target(t) /\ x.depth = m.depth + 1 /\ x.path = Append(m.path, Target(t))
    BY <2>1, JoinedRows
  <2>2. PICK t \in Live :
          /\ Extends(t, m, maxDepth)
          /\ x.key = Target(t) /\ x.depth = m.depth + 1 /\ x.path = Append(m.path, Target(t))
    BY <2>5
  <2>3. m \in r.rows /\ m.depth = n /\ GoodRow(m, start, r.rows, n, maxDepth)
    BY DEF GoodRound
  <2>4. x.key \in KeysOf(rs)
    BY <1>2 DEF KeysOf
  <2>6. x.path \in Seq(KeysOf(rs))
    <3>1. m.path \in Seq(KeysOf(rs))
      BY <1>3, <2>3 DEF GoodRow
    <3> QED BY <2>2, <2>4, <3>1
  <2>7. Leads(x.key, start)
    <3>1. SUFFICES ASSUME NEW X, FollowsLinks(X), x.key \in X PROVE start \in X
      BY DEF Leads
    <3>2. t.subjectRelation # None /\ m.key = Key(t.object, t.relation)
      BY <2>2, <2>3, OnKeyIsKey DEF Extends, GoodRow
    <3>3. m.key \in X
      BY <2>2, <3>1, <3>2 DEF FollowsLinks
    <3> QED BY <2>3, <3>1, <3>3 DEF GoodRow, Leads
  <2>8. x.key \in Keys
    BY <2>2, TargetIsKey DEF Extends
  <2>9. x.depth = n + 1 /\ x.depth \in 0..(n + 1) /\ x.depth <= maxDepth
    BY <2>2, <2>3
  <2>10. Reached(x.key, start)
    BY <2>2 DEF Extends, Reached
  <2> QED BY <2>6, <2>7, <2>8, <2>9, <2>10 DEF GoodRow
<1>5. ASSUME NEW q \in r.rows
      PROVE  GoodRow(q, start, rs, n + 1, maxDepth) /\ q.depth < n + 1 /\ Followed1(q, rs)
  <2>1. GoodRow(q, start, r.rows, n, maxDepth) /\ (q \in r.level \/ q.depth < n)
    BY DEF GoodRound
  <2>2. GoodRow(q, start, rs, n + 1, maxDepth) /\ q.depth < n + 1
    BY <1>3, <2>1 DEF GoodRow
  <2>3. CASE q.depth < n
    BY <1>2, <2>2, <2>3 DEF GoodRound, Followed1
  <2>4. CASE ~(q.depth < n)
    <3>1. q \in r.level /\ q.depth = n
      BY <2>1, <2>4 DEF GoodRound
    <3>2. ASSUME NEW t \in Live, OnKey(t, q.key), t.subjectRelation # None
          PROVE  Target(t) \in KeysOf(rs)
      <4>1. CASE Target(t) \in Range(q.path)
        <5>1. q.path \in Seq(KeysOf(r.rows))
          BY <2>1 DEF GoodRow
        <5>2. Range(q.path) \subseteq KeysOf(r.rows)
          BY <5>1, PathKeys
        <5> QED BY <1>2, <4>1, <5>2
      <4>2. CASE Target(t) \notin Range(q.path)
        <5>1. Extends(t, q, maxDepth)
          BY <3>1, <3>2, <4>2 DEF Extends
        <5>2. Target(t) \in KeysOf(Joined(r.level, maxDepth))
          BY <3>1, <5>1, JoinedKeys
        <5> QED BY <1>1, <1>2, <5>2
      <4> QED BY <4>1, <4>2
    <3> QED BY <2>2, <3>2 DEF Followed1
  <2> QED BY <2>3, <2>4
<1>6. start \in KeysOf(rs)
  BY <1>2 DEF GoodRound
<1>7. \A q \in rs : q \in r.rows \/ q \in next
  BY DEF rs
<1>8. \A q \in rs : /\ GoodRow(q, start, rs, n + 1, maxDepth)
                    /\ q \in next \/ q.depth < n + 1
                    /\ q.depth < n + 1 => Followed1(q, rs)
  <2>1. ASSUME NEW q \in next PROVE GoodRow(q, start, rs, n + 1, maxDepth) /\ ~(q.depth < n + 1)
    BY <1>4
  <2> QED BY <1>5, <1>7, <2>1
<1>9. GoodRound([rows |-> rs, level |-> next], start, n + 1, maxDepth)
  <2>1. next \subseteq rs
    BY DEF rs
  <2> QED BY <1>4, <1>6, <1>8, <2>1 DEF GoodRound
<1> QED BY <1>9 DEF rs

LEMMA RoundsAreGood ==
    ASSUME GraphInv, NEW start \in Keys, NEW maxDepth \in Nat, NEW n \in 0..maxDepth
    PROVE  /\ Rounds({StartRow(start)}, maxDepth)[n] # {}
           /\ \A r \in Rounds({StartRow(start)}, maxDepth)[n] : GoodRound(r, start, n, maxDepth)
<1> DEFINE at(k) == Rounds({StartRow(start)}, maxDepth)[k]
           Good == {k \in 0..maxDepth : at(k) # {} /\ \A r \in at(k) : GoodRound(r, start, k, maxDepth)}
<1>1. \A k \in Nat : at(k) = RoundsStep({StartRow(start)}, maxDepth, k, at(k - 1))
  BY RoundsUnfolds
<1> HIDE DEF at
<1>2. 0 \in Good
  <2>1. at(0) = {[rows |-> {StartRow(start)}, level |-> {StartRow(start)}]}
    BY <1>1 DEF RoundsStep
  <2>2. \A r \in at(0) : GoodRound(r, start, 0, maxDepth)
    BY <2>1, FirstRound
  <2>3. at(0) # {}
    BY <2>1, Zenon
  <2>4. 0 \in 0..maxDepth
    OBVIOUS
  <2> QED BY <2>2, <2>3, <2>4
<1>3. ASSUME NEW k \in 1..maxDepth, k - 1 \in Good PROVE k \in Good
  <2>1. at(k) = UNION {{[rows |-> r.rows \cup next, level |-> next] :
                          next \in DistinctOn(Joined(r.level, maxDepth))} : r \in at(k - 1)}
    BY <1>1 DEF RoundsStep
  <2>2. at(k) # {}
    <3>1. PICK r \in at(k - 1) : TRUE
      BY <1>3
    <3>2. PICK next \in DistinctOn(Joined(r.level, maxDepth)) : TRUE
      BY KeptRowsExist
    <3> DEFINE x == [rows |-> r.rows \cup next, level |-> next]
    <3>3. x \in {[rows |-> r.rows \cup more, level |-> more] :
                   more \in DistinctOn(Joined(r.level, maxDepth))}
      BY <3>2
    <3> HIDE DEF x
    <3> DEFINE parts == {{[rows |-> r1.rows \cup more, level |-> more] :
                            more \in DistinctOn(Joined(r1.level, maxDepth))} : r1 \in at(k - 1)}
    <3>4. {[rows |-> r.rows \cup more, level |-> more] :
             more \in DistinctOn(Joined(r.level, maxDepth))} \in parts
      BY <3>1, Zenon
    <3>5. at(k) = UNION parts
      BY <2>1
    <3> HIDE DEF parts
    <3> QED BY <3>3, <3>4, <3>5
  <2>3. ASSUME NEW x \in at(k) PROVE GoodRound(x, start, k, maxDepth)
    <3>1. PICK r \in at(k - 1) : x \in {[rows |-> r.rows \cup next, level |-> next] :
                                          next \in DistinctOn(Joined(r.level, maxDepth))}
      BY <2>1
    <3>2. PICK next \in DistinctOn(Joined(r.level, maxDepth)) :
             x = [rows |-> r.rows \cup next, level |-> next]
      BY <3>1
    <3>3. GoodRound(r, start, k - 1, maxDepth) /\ k - 1 \in Nat /\ k - 1 < maxDepth /\ k - 1 + 1 = k
      BY <1>3
    <3>4. GoodRound(x, start, k - 1 + 1, maxDepth)
      BY <3>2, <3>3, NextRound
    <3> QED BY <3>3, <3>4
  <2> QED BY <2>2, <2>3
<1>4. 0..maxDepth \subseteq Good
  <2> HIDE DEF Good
  <2> QED BY <1>2, <1>3, Along
<1> QED BY <1>4 DEF at

GoodResult(rs, start, maxDepth) ==
  \E r : rs = r.rows /\ GoodRound(r, start, maxDepth, maxDepth)

LEMMA ResultsAreGood ==
    ASSUME GraphInv, NEW object \in Entity, NEW relation \in STRING, NEW maxDepth \in Nat
    PROVE  /\ ReachableFrontiers(object, relation, maxDepth) # {}
           /\ \A rs \in ReachableFrontiers(object, relation, maxDepth) :
                GoodResult(rs, Key(object, relation), maxDepth)
<1> DEFINE last == Rounds({StartRow(Key(object, relation))}, maxDepth)[maxDepth]
<1>1. Key(object, relation) \in Keys
  BY DEF Key, Keys
<1>5. maxDepth \in 0..maxDepth
  OBVIOUS
<1>2. last # {} /\ \A r \in last : GoodRound(r, Key(object, relation), maxDepth, maxDepth)
  BY <1>1, <1>5, RoundsAreGood
<1>3. ReachableFrontiers(object, relation, maxDepth) = {r.rows : r \in last}
  BY DEF ReachableFrontiers
<1> HIDE DEF last
<1>4. ASSUME NEW rs \in ReachableFrontiers(object, relation, maxDepth)
      PROVE  GoodResult(rs, Key(object, relation), maxDepth)
  <2>1. PICK r \in last : rs = r.rows
    BY <1>3
  <2> QED BY <1>2, <2>1 DEF GoodResult
<1> QED BY <1>2, <1>3, <1>4

LEMMA ShallowestRow ==
    ASSUME NEW start, NEW maxDepth \in Nat, NEW rs, GoodResult(rs, start, maxDepth), NEW q \in rs
    PROVE  \E d \in DedupeFrontier(rs) : d.key = q.key
<1>1. \A d \in rs : d.depth \in Nat
  BY DEF GoodResult, GoodRound, GoodRow
<1> DEFINE depths == {d.depth : d \in {d \in rs : d.key = q.key}}
<1>2. depths \subseteq Nat /\ depths # {}
  BY <1>1
<1>3. PICK m \in depths : \A e \in depths : m <= e
  <2> HIDE DEF depths
  <2> QED BY <1>2, LeastNumber
<1>4. PICK d \in rs : d.key = q.key /\ d.depth = m
  OBVIOUS
<1>5. \A e \in rs : e.key = d.key => d.depth <= e.depth
  BY <1>3, <1>4
<1> QED BY <1>4, <1>5 DEF DedupeFrontier

LEMMA ReachedDepth ==
    ASSUME NEW start, NEW maxDepth \in Nat, NEW rs, GoodResult(rs, start, maxDepth),
           NEW q \in rs, q.depth = maxDepth
    PROVE  DepthReached(rs) = maxDepth
<1>1. \A d \in rs : d.depth \in Nat /\ d.depth <= maxDepth
  BY DEF GoodResult, GoodRound, GoodRow
<1> DEFINE depths == {r.depth : r \in rs}
<1>2. maxDepth \in depths /\ \A r \in rs : r.depth <= maxDepth
  BY <1>1
<1>3. \A d \in depths : (\A r \in rs : r.depth <= d) => d = maxDepth
  BY <1>1
<1>4. DepthReached(rs) \in depths /\ \A r \in rs : r.depth <= DepthReached(rs)
  BY <1>2 DEF DepthReached
<1> QED BY <1>3, <1>4

LEMMA RowDepths ==
    ASSUME NEW rs, NEW start, NEW maxDepth \in Nat, GoodResult(rs, start, maxDepth), NEW q \in rs
    PROVE  q.depth \in Nat /\ q.depth <= maxDepth /\ q.key \in Keys
BY DEF GoodResult, GoodRound, GoodRow

\* What is decided depends on nothing but the keys and their depths.
Granted(frontier, subject) == \E r \in frontier, t \in Live : Grants(t, r, subject)
Cut(frontier, maxDepth) ==
  \E r \in frontier, t \in Live : /\ r.depth = maxDepth
                                  /\ OnKey(t, r.key)
                                  /\ t.subjectRelation # None
                                  /\ \A q \in frontier : q.key # Target(t)

LEMMA VerdictOfRows ==
    ASSUME NEW object, NEW relation, NEW subject, NEW maxDepth \in Nat, NEW start,
           NEW rs, GoodResult(rs, start, maxDepth)
    PROVE  Verdict(OutcomeOfRows(rs, object, relation, subject, maxDepth))
             = LET frontier == DedupeFrontier(rs)
                   touched  == TuplesOnFrontier(frontier) \cap Expiring # {}
               IN  IF Granted(frontier, subject) THEN <<TRUE, TRUE, touched>>
                   ELSE <<FALSE, ~Cut(frontier, maxDepth), touched>>
<1> DEFINE frontier == DedupeFrontier(rs)
           read == TuplesOnFrontier(frontier)
           touched == read \cap Expiring # {}
           matches == {m \in frontier \X read : Grants(m[2], m[1], subject)}
           o == OutcomeOfRows(rs, object, relation, subject, maxDepth)
<1>1. matches # {} <=> Granted(frontier, subject)
  <2>1. ASSUME NEW m \in matches PROVE Granted(frontier, subject)
    <3>1. m[1] \in frontier /\ m[2] \in read /\ Grants(m[2], m[1], subject)
      <4>1. m \in frontier \X read /\ Grants(m[2], m[1], subject)
        OBVIOUS
      <4> HIDE DEF frontier, read
      <4> QED BY <4>1
    <3>2. read \subseteq Live
      BY DEF TuplesOnFrontier
    <3> HIDE DEF frontier, read
    <3> QED BY <3>1, <3>2 DEF Granted
  <2>2. ASSUME NEW r \in frontier, NEW t \in Live, Grants(t, r, subject) PROVE matches # {}
    <3>1. t \in read
      BY <2>2 DEF TuplesOnFrontier, Grants
    <3>2. <<r, t>> \in matches
      <4> HIDE DEF frontier, read
      <4> QED BY <2>2, <3>1
    <3> HIDE DEF matches
    <3> QED BY <3>2
  <2> HIDE DEF matches, frontier
  <2> QED BY <2>1, <2>2 DEF Granted
<1>2. DepthCeilingBinding(frontier, DepthReached(rs), maxDepth) <=> Cut(frontier, maxDepth)
  <2>1. ASSUME NEW r \in frontier, r.depth = maxDepth PROVE DepthReached(rs) = maxDepth
    <3>1. r \in rs
      BY DEF DedupeFrontier
    <3> HIDE DEF frontier
    <3> QED BY <2>1, <3>1, ReachedDepth
  <2> HIDE DEF frontier
  <2> QED BY <2>1 DEF DepthCeilingBinding, Cut
<1>3. CASE matches # {}
  <2>1. \E proof : o = Allowed(touched, proof)
    BY <1>3 DEF OutcomeOfRows
  <2>2. Verdict(o) = <<TRUE, TRUE, touched>>
    <3> HIDE DEF o, touched
    <3> QED BY <2>1 DEF Verdict, Allowed
  <2> HIDE DEF matches
  <2> QED BY <1>1, <1>3, <2>2
<1>4. CASE matches = {}
  <2> DEFINE certain == ~DepthCeilingBinding(frontier, DepthReached(rs), maxDepth)
  <2>1. \E disproof : o = Denied(certain, touched, disproof)
    BY <1>4 DEF OutcomeOfRows
  <2>2. Verdict(o) = <<FALSE, certain, touched>>
    <3> HIDE DEF o, touched, certain
    <3> QED BY <2>1 DEF Verdict, Denied
  <2>3. certain = ~Cut(frontier, maxDepth)
    <3> HIDE DEF frontier
    <3>1. certain \in BOOLEAN /\ Cut(frontier, maxDepth) \in BOOLEAN
      BY DEF DepthCeilingBinding, Cut
    <3> QED BY <1>2, <3>1
  <2> HIDE DEF matches, certain
  <2> QED BY <1>1, <1>4, <2>2, <2>3
<1> QED BY <1>3, <1>4

LEMMA DecisionOfRows ==
    ASSUME NEW object, NEW relation, NEW subject, NEW maxDepth \in Nat, NEW start,
           NEW rs, GoodResult(rs, start, maxDepth),
           NEW o, o = OutcomeOfRows(rs, object, relation, subject, maxDepth)
    PROVE  /\ Granted(DedupeFrontier(rs), subject) => o.allowed /\ o.certain
           /\ ~Granted(DedupeFrontier(rs), subject)
                => ~o.allowed /\ (o.certain <=> ~Cut(DedupeFrontier(rs), maxDepth))
           /\ o.allowed \in BOOLEAN
<1> DEFINE frontier == DedupeFrontier(rs)
           touched == TuplesOnFrontier(frontier) \cap Expiring # {}
<1>1. Verdict(o) = IF Granted(frontier, subject) THEN <<TRUE, TRUE, touched>>
                   ELSE <<FALSE, ~Cut(frontier, maxDepth), touched>>
  BY VerdictOfRows
<1> HIDE DEF frontier, touched
<1>2. CASE Granted(frontier, subject)
  BY <1>1, <1>2 DEF Verdict, frontier
<1>3. CASE ~Granted(frontier, subject)
  <2> DEFINE certain == ~Cut(frontier, maxDepth)
  <2>1. Verdict(o) = <<FALSE, certain, touched>>
    BY <1>1, <1>3
  <2> HIDE DEF certain
  <2>2. o.allowed = FALSE /\ o.certain = certain
    BY <2>1 DEF Verdict
  <2> QED BY <1>3, <2>2 DEF certain, frontier
<1> QED BY <1>2, <1>3 DEF frontier

\* A row that grants is as good as the shallowest row of its key.
LEMMA GrantedByRow ==
    ASSUME NEW subject, NEW start, NEW maxDepth \in Nat, NEW rs, GoodResult(rs, start, maxDepth)
    PROVE  Granted(DedupeFrontier(rs), subject) <=> \E r \in rs, t \in Live : Grants(t, r, subject)
<1>1. DedupeFrontier(rs) \subseteq rs
  BY DEF DedupeFrontier
<1>2. ASSUME NEW r \in rs, NEW t \in Live, Grants(t, r, subject)
      PROVE  Granted(DedupeFrontier(rs), subject)
  <2>1. PICK d \in DedupeFrontier(rs) : d.key = r.key
    BY ShallowestRow
  <2> QED BY <1>2, <2>1 DEF Granted, Grants
<1> QED BY <1>1, <1>2 DEF Granted

\* What was not cut short was read to the end.
LEMMA UncutIsFollowed ==
    ASSUME NEW start, NEW maxDepth \in Nat, NEW rs, GoodResult(rs, start, maxDepth),
           ~Cut(DedupeFrontier(rs), maxDepth), NEW r \in rs
    PROVE  Followed1(r, rs)
<1> DEFINE frontier == DedupeFrontier(rs)
<1>1. frontier \subseteq rs
  BY DEF DedupeFrontier
<1>2. PICK d \in frontier : d.key = r.key
  BY ShallowestRow
<1>3. d \in rs /\ d.depth \in Nat /\ d.depth <= maxDepth /\ (d.depth < maxDepth => Followed1(d, rs))
  BY <1>1, RowDepths DEF GoodResult, GoodRound
<1>4. CASE d.depth < maxDepth
  BY <1>2, <1>3, <1>4 DEF Followed1
<1>5. CASE d.depth = maxDepth
  <2>1. ASSUME NEW t \in Live, OnKey(t, r.key), t.subjectRelation # None
        PROVE  Target(t) \in KeysOf(rs)
    <3>1. PICK q \in frontier : q.key = Target(t)
      <4> HIDE DEF frontier
      <4> QED BY <1>2, <1>5, <2>1 DEF Cut, frontier
    <3> QED BY <1>1, <3>1 DEF KeysOf
  <2> QED BY <2>1 DEF Followed1
<1> QED BY <1>3, <1>4, <1>5

\* A relation is true of who has it by a grant on a key that was reached.
LEMMA ClosedFollowsLinks ==
    ASSUME GraphInv, NEW subject, NEW pos, NEW neg, ClosedUnder(subject, neg, pos)
    PROVE  FollowsLinks(pos)
<1>1. SUFFICES ASSUME NEW t \in Live, t.subjectRelation # None, Target(t) \in pos
               PROVE  Key(t.object, t.relation) \in pos
  BY DEF FollowsLinks
<1> DEFINE k == Key(t.object, t.relation)
<1>2. k \in Pairs /\ Declares(k[1].ns, k[2]) /\ OnKey(t, k)
  BY LiveTuples, KeyParts DEF OnKey
<1>3. Follows(subject, k, pos, neg)
  <2> HIDE DEF k
  <2> QED BY <1>1, <1>2 DEF Follows
<1> QED BY <1>2, <1>3 DEF ClosedUnder

LEMMA GrantedIsTrue ==
    ASSUME GraphInv, NEW subject, NEW pos, NEW neg, ClosedUnder(subject, neg, pos),
           NEW start, NEW maxDepth \in Nat, NEW rs, GoodResult(rs, start, maxDepth),
           NEW r \in rs, NEW t \in Live, Grants(t, r, subject)
    PROVE  start \in pos
<1>1. r.key \in Keys /\ Leads(r.key, start)
  BY DEF GoodResult, GoodRound, GoodRow
<1>2. r.key \in Pairs /\ Declares(r.key[1].ns, r.key[2])
  BY <1>1, OnKeyIsKey DEF Grants
<1>3. Follows(subject, r.key, pos, neg)
  BY <1>2 DEF Follows, Grants
<1> QED BY <1>1, <1>2, <1>3, ClosedFollowsLinks DEF ClosedUnder, Leads

\* What was read to the end grants nothing that was not found.
LEMMA UngrantedIsFalse ==
    ASSUME GraphInv, NEW subject, NEW neg \in SUBSET Keys, NEW pos, IsLeast(subject, neg, pos),
           NEW start, NEW rs, start \in KeysOf(rs),
           \A r \in rs : r.key \in Keys /\ Followed1(r, rs),
           \A r \in rs, t \in Live : ~Grants(t, r, subject),
           \A r \in rs : r.key \in Pairs => Declares(r.key[1].ns, r.key[2])
    PROVE  start \notin pos
<1> DEFINE X == {k \in pos : k \notin KeysOf(rs)}
<1>1. pos \in SUBSET Pairs /\ pos \in SUBSET Keys /\ X \in SUBSET Pairs /\ X \in SUBSET Keys
      /\ X \subseteq pos /\ IsSchema(schema)
  BY PairsAreKeys DEF IsLeast, GraphInv
<1>2. ClosedUnder(subject, neg, X)
  <2>1. SUFFICES ASSUME NEW k \in Pairs, Follows(subject, k, X, neg) PROVE k \in X
    BY DEF ClosedUnder
  <2>2. k \in pos
    <3>1. Follows(subject, k, pos, neg)
      <4> HIDE DEF X
      <4> QED BY <1>1, <2>1, FollowsGrows
    <3> QED BY <3>1 DEF IsLeast, ClosedUnder
  <2>3. ASSUME NEW r \in rs, r.key = k PROVE FALSE
    <3>1. Declares(k[1].ns, k[2])
      BY <2>3
    <3>2. PICK t \in Live : /\ OnKey(t, k)
                            /\ IF t.subjectRelation = None THEN SubjectMatches(t.subject, subject)
                                                           ELSE Target(t) \in X
      <4> HIDE DEF X
      <4> QED BY <2>1, <3>1 DEF Follows
    <3>3. t.subjectRelation # None
      BY <2>3, <3>2 DEF Grants
    <3>4. Target(t) \in KeysOf(rs)
      BY <2>3, <3>2, <3>3 DEF Followed1
    <3> QED BY <3>2, <3>3, <3>4
  <2> QED BY <2>2, <2>3 DEF KeysOf
<1>3. pos \subseteq X
  <2> HIDE DEF X
  <2> QED BY <1>1, <1>2 DEF IsLeast
<1> QED BY <1>3

LEMMA ReachedIsDeclared ==
    ASSUME GraphInv, NEW start \in Pairs, Declares(start[1].ns, start[2]),
           NEW key \in Pairs, Reached(key, start)
    PROVE  Declares(key[1].ns, key[2])
<1>1. ASSUME NEW t \in Live, t.subjectRelation # None, key = Target(t)
      PROVE  Declares(key[1].ns, key[2])
  <2>1. key[1] = t.subject /\ key[2] = t.subjectRelation
    BY <1>1, KeyParts DEF Target
  <2>2. Declares(key[1].ns, key[2]) \/ Defines(key[1].ns, key[2])
    BY PairKinds DEF GraphInv
  <2>3. t.subject.ns \in DOMAIN schema
    BY <2>1, <2>2 DEF Declares, Defines
  <2> QED BY <1>1, <2>1, <2>3, LiveTuples
<1> QED BY <1>1 DEF Reached

\* What an outcome says of a pair: an allowed one that it is among pos, a denied one,
\* if certain, that it is not among neg.
Says(o, in, notIn) == (o.allowed => in) /\ (~o.allowed /\ o.certain => notIn)

LEMMA AllowedSays ==
    ASSUME NEW touched, NEW proof, NEW in, NEW notIn, in
    PROVE  Says(Allowed(touched, proof), in, notIn)
BY DEF Says, Allowed

LEMMA DeniedSays ==
    ASSUME NEW certain, NEW touched, NEW disproof, NEW in, NEW notIn, certain => notIn
    PROVE  Says(Denied(certain, touched, disproof), in, notIn)
BY DEF Says, Denied

LEMMA RelationIsSound ==
    ASSUME GraphInv, NEW subject, NEW pos \in SUBSET Keys, NEW neg \in SUBSET Keys,
           IsLeast(subject, neg, pos), IsLeast(subject, pos, neg),
           NEW object \in Entities, NEW relation \in STRING, NEW maxDepth \in Nat,
           Declares(object.ns, relation),
           NEW rs \in ReachableFrontiers(object, relation, maxDepth)
    PROVE  Says(OutcomeOfRows(rs, object, relation, subject, maxDepth),
                Key(object, relation) \in pos, Key(object, relation) \notin neg)
<1> DEFINE start == Key(object, relation)
           frontier == DedupeFrontier(rs)
           o == OutcomeOfRows(rs, object, relation, subject, maxDepth)
<1>1. GoodResult(rs, start, maxDepth)
  BY ResultsAreGood, EntitiesAreTyped
<1>2. start \in Pairs /\ start[1] = object /\ start[2] = relation /\ Declares(start[1].ns, start[2])
  BY PairOfName, KeyParts
<1> HIDE DEF start
<1>3. /\ Granted(frontier, subject) => o.allowed
      /\ ~Granted(frontier, subject) => ~o.allowed /\ (o.certain => ~Cut(frontier, maxDepth))
  BY <1>1, DecisionOfRows
<1> HIDE DEF o, frontier
<1>4. CASE Granted(frontier, subject)
  <2>1. PICK r \in rs, t \in Live : Grants(t, r, subject)
    BY <1>1, <1>4, GrantedByRow DEF frontier
  <2>2. ClosedUnder(subject, neg, pos)
    BY DEF IsLeast
  <2>3. start \in pos
    BY <1>1, <2>1, <2>2, GrantedIsTrue
  <2> QED BY <1>3, <1>4, <2>3 DEF Says, o, start
<1>5. CASE ~Granted(frontier, subject)
  <2>1. ASSUME ~Cut(frontier, maxDepth) PROVE start \notin neg
    <3>1. \A r \in rs : r.key \in Keys /\ Reached(r.key, start) /\ start \in KeysOf(rs)
      BY <1>1 DEF GoodResult, GoodRound, GoodRow
    <3>2. start \in KeysOf(rs)
      BY <1>1 DEF GoodResult, GoodRound
    <3>3. \A r \in rs : Followed1(r, rs)
      BY <1>1, <2>1, UncutIsFollowed DEF frontier
    <3>4. \A r \in rs, t \in Live : ~Grants(t, r, subject)
      BY <1>1, <1>5, GrantedByRow DEF frontier
    <3>5. \A r \in rs : r.key \in Pairs => Declares(r.key[1].ns, r.key[2])
      BY <1>2, <3>1, ReachedIsDeclared
    <3> QED BY <3>1, <3>2, <3>3, <3>4, <3>5, UngrantedIsFalse
  <2> QED BY <1>3, <1>5, <2>1 DEF Says, o, start
<1> QED BY <1>4, <1>5

-----------------------------------------------------------------------------
(***************************************************************************)
(* The combinators.                                                        *)
(***************************************************************************)
LEMMA AllowSays ==
    ASSUME NEW proof, NEW in, NEW notIn, in
    PROVE  Says(Allow(proof), in, notIn)
BY DEF Says, Allow

LEMMA DenySays ==
    ASSUME NEW certain, NEW disproof, NEW in, NEW notIn, certain => notIn
    PROVE  Says(Deny(certain, disproof), in, notIn)
BY DEF Says, Deny

Sound(o, rule, object, pos, neg) ==
  Says(o, Satisfied(rule, object, pos, neg), ~Satisfied(rule, object, neg, pos))

SoundBranches(outcomes, rule, object, pos, neg) ==
  /\ DOMAIN outcomes = DOMAIN rule.children
  /\ \A i \in DOMAIN outcomes : Sound(outcomes[i], rule.children[i], object, pos, neg)

LEMMA MinSelects ==
    ASSUME NEW I, I \subseteq Nat, I # {}
    PROVE  Min(I) \in I
<1>1. \E m \in I : \A n \in I : m <= n
  BY LeastNumber
<1> QED BY <1>1 DEF Min

LEMMA BranchCount ==
    ASSUME NEW rule \in AllRewrites, rule.kind \in {"union", "intersection"},
           NEW outcomes, DOMAIN outcomes = DOMAIN rule.children
    PROVE  Len(outcomes) \in Nat /\ DOMAIN outcomes = 1..Len(outcomes)
<1>1. rule.children \in Seq(AllRewrites)
  BY RuleKinds
<1>2. Len(rule.children) \in Nat /\ DOMAIN rule.children = 1..Len(rule.children)
  BY <1>1
<1> QED BY <1>2

LEMMA FirstAllowed ==
    ASSUME NEW outcomes, Len(outcomes) \in Nat, DOMAIN outcomes = 1..Len(outcomes),
           NEW first, first = SelectInSeq(outcomes, LAMBDA o : o.allowed)
    PROVE  /\ first # 0 => first \in DOMAIN outcomes /\ outcomes[first].allowed
           /\ first = 0 => \A i \in DOMAIN outcomes : ~outcomes[i].allowed
<1> DEFINE I == {i \in 1..Len(outcomes) : outcomes[i].allowed}
<1>1. first = IF I # {} THEN Min(I) ELSE 0
  BY DEF SelectInSeq
<1>2. I \subseteq Nat /\ 0 \notin I
  OBVIOUS
<1>3. I # {} => first \in I
  <2> HIDE DEF I
  <2> QED BY <1>1, <1>2, MinSelects
<1>4. CASE I # {}
  BY <1>2, <1>3, <1>4
<1>5. CASE I = {}
  BY <1>1, <1>5
<1> QED BY <1>4, <1>5

LEMMA FirstDenied ==
    ASSUME NEW outcomes, Len(outcomes) \in Nat, DOMAIN outcomes = 1..Len(outcomes),
           NEW first, first = SelectInSeq(outcomes, LAMBDA o : ~o.allowed)
    PROVE  /\ first # 0 => first \in DOMAIN outcomes /\ ~outcomes[first].allowed
           /\ first = 0 => \A i \in DOMAIN outcomes : outcomes[i].allowed
<1> DEFINE I == {i \in 1..Len(outcomes) : ~outcomes[i].allowed}
<1>1. first = IF I # {} THEN Min(I) ELSE 0
  BY DEF SelectInSeq
<1>2. I \subseteq Nat /\ 0 \notin I
  OBVIOUS
<1>3. I # {} => first \in I
  <2> HIDE DEF I
  <2> QED BY <1>1, <1>2, MinSelects
<1>4. CASE I # {}
  BY <1>2, <1>3, <1>4
<1>5. CASE I = {}
  BY <1>1, <1>5
<1> QED BY <1>4, <1>5
\* A branch that allows decides a union, and one that denies an intersection.
LEMMA UnionSatisfied ==
    ASSUME NEW rule \in AllRewrites, rule.kind = "union", NEW object \in Entity,
           NEW pos \in SUBSET Keys, NEW neg \in SUBSET Keys
    PROVE  Satisfied(rule, object, pos, neg)
             <=> \E i \in DOMAIN rule.children : Satisfied(rule.children[i], object, pos, neg)
BY SatisfiedAsParts DEF SatisfiedRule

LEMMA IntersectionSatisfied ==
    ASSUME NEW rule \in AllRewrites, rule.kind = "intersection", NEW object \in Entity,
           NEW pos \in SUBSET Keys, NEW neg \in SUBSET Keys
    PROVE  Satisfied(rule, object, pos, neg)
             <=> \A i \in DOMAIN rule.children : Satisfied(rule.children[i], object, pos, neg)
BY SatisfiedAsParts DEF SatisfiedRule

LEMMA ExclusionSatisfied ==
    ASSUME NEW rule \in AllRewrites, rule.kind = "exclusion", NEW object \in Entity,
           NEW pos \in SUBSET Keys, NEW neg \in SUBSET Keys
    PROVE  Satisfied(rule, object, pos, neg)
             <=> Satisfied(rule.base, object, pos, neg) /\ ~Satisfied(rule.subtract, object, neg, pos)
BY SatisfiedAsParts DEF SatisfiedRule

LEMMA NameSatisfied ==
    ASSUME NEW rule \in AllRewrites, rule.kind = "computedUserset", NEW object \in Entity,
           NEW pos \in SUBSET Keys, NEW neg \in SUBSET Keys
    PROVE  Satisfied(rule, object, pos, neg) <=> Key(object, rule.name) \in pos
BY SatisfiedAsParts DEF SatisfiedRule

LEMMA LinkSatisfied ==
    ASSUME NEW rule \in AllRewrites, rule.kind = "tupleToUserset", NEW object \in Entity,
           NEW pos \in SUBSET Keys, NEW neg \in SUBSET Keys
    PROVE  Satisfied(rule, object, pos, neg)
             <=> \E t \in Live : /\ OnKey(t, Key(object, rule.relation))
                                 /\ Key(t.subject, rule.computedUserset) \in pos
BY SatisfiedAsParts DEF SatisfiedRule

LEMMA UnionIsSound ==
    ASSUME NEW rule \in AllRewrites, rule.kind = "union", NEW object \in Entity,
           NEW pos \in SUBSET Keys, NEW neg \in SUBSET Keys,
           NEW outcomes, SoundBranches(outcomes, rule, object, pos, neg)
    PROVE  /\ Sound(OfUnion(object, outcomes), rule, object, pos, neg)
           /\ Sound(AnyOf(object, outcomes), rule, object, pos, neg)
<1> DEFINE first == SelectInSeq(outcomes, LAMBDA o : o.allowed)
<1>1. /\ first # 0 => first \in DOMAIN outcomes /\ outcomes[first].allowed
      /\ first = 0 => \A i \in DOMAIN outcomes : ~outcomes[i].allowed
  BY BranchCount, FirstAllowed DEF SoundBranches
<1>2. \E touched, proof, certain, disproof :
        /\ first # 0 => /\ OfUnion(object, outcomes) = Allowed(touched, proof)
                        /\ AnyOf(object, outcomes) = Allow(proof)
        /\ first = 0 => /\ OfUnion(object, outcomes) = Denied(certain, touched, disproof)
                        /\ AnyOf(object, outcomes) = Deny(certain, disproof)
        /\ certain = \A i \in DOMAIN outcomes : outcomes[i].certain
  BY DEF OfUnion, AnyOf
<1> HIDE DEF first
<1>3. PICK touched, proof, certain, disproof :
        /\ first # 0 => /\ OfUnion(object, outcomes) = Allowed(touched, proof)
                        /\ AnyOf(object, outcomes) = Allow(proof)
        /\ first = 0 => /\ OfUnion(object, outcomes) = Denied(certain, touched, disproof)
                        /\ AnyOf(object, outcomes) = Deny(certain, disproof)
        /\ certain = \A i \in DOMAIN outcomes : outcomes[i].certain
  BY <1>2
<1>4. CASE first # 0
  <2>1. Satisfied(rule, object, pos, neg)
    BY <1>1, <1>4, UnionSatisfied DEF SoundBranches, Sound, Says
  <2> QED BY <1>3, <1>4, <2>1, AllowedSays, AllowSays DEF Sound
<1>5. CASE first = 0
  <2>1. certain => ~Satisfied(rule, object, neg, pos)
    BY <1>1, <1>3, <1>5, UnionSatisfied DEF SoundBranches, Sound, Says
  <2> QED BY <1>3, <1>5, <2>1, DeniedSays, DenySays DEF Sound
<1> QED BY <1>4, <1>5

LEMMA IntersectionIsSound ==
    ASSUME NEW rule \in AllRewrites, rule.kind = "intersection", NEW object \in Entity,
           NEW pos \in SUBSET Keys, NEW neg \in SUBSET Keys,
           NEW outcomes, SoundBranches(outcomes, rule, object, pos, neg)
    PROVE  /\ Sound(OfIntersection(object, outcomes), rule, object, pos, neg)
           /\ Sound(AllOf(object, outcomes), rule, object, pos, neg)
<1> DEFINE first == SelectInSeq(outcomes, LAMBDA o : ~o.allowed)
<1>1. /\ first # 0 => first \in DOMAIN outcomes /\ ~outcomes[first].allowed
      /\ first = 0 => \A i \in DOMAIN outcomes : outcomes[i].allowed
  BY BranchCount, FirstDenied DEF SoundBranches
<1>2. \E touched, proof, disproof :
        /\ first = 0 => /\ OfIntersection(object, outcomes) = Allowed(touched, proof)
                        /\ AllOf(object, outcomes) = Allow(proof)
        /\ first # 0 => /\ OfIntersection(object, outcomes)
                             = Denied(outcomes[first].certain, touched, disproof)
                        /\ AllOf(object, outcomes) = Deny(outcomes[first].certain, disproof)
  BY DEF OfIntersection, AllOf
<1> HIDE DEF first
<1>3. PICK touched, proof, disproof :
        /\ first = 0 => /\ OfIntersection(object, outcomes) = Allowed(touched, proof)
                        /\ AllOf(object, outcomes) = Allow(proof)
        /\ first # 0 => /\ OfIntersection(object, outcomes)
                             = Denied(outcomes[first].certain, touched, disproof)
                        /\ AllOf(object, outcomes) = Deny(outcomes[first].certain, disproof)
  BY <1>2
<1>4. CASE first = 0
  <2>1. Satisfied(rule, object, pos, neg)
    BY <1>1, <1>4, IntersectionSatisfied DEF SoundBranches, Sound, Says
  <2> QED BY <1>3, <1>4, <2>1, AllowedSays, AllowSays DEF Sound
<1>5. CASE first # 0
  <2>1. outcomes[first].certain => ~Satisfied(rule, object, neg, pos)
    BY <1>1, <1>5, IntersectionSatisfied DEF SoundBranches, Sound, Says
  <2> QED BY <1>3, <1>5, <2>1, DeniedSays, DenySays DEF Sound
<1> QED BY <1>4, <1>5

LEMMA ExclusionIsSound ==
    ASSUME NEW rule \in AllRewrites, rule.kind = "exclusion", NEW object \in Entity,
           NEW pos \in SUBSET Keys, NEW neg \in SUBSET Keys,
           NEW base, NEW subtract,
           Sound(base, rule.base, object, pos, neg), Sound(subtract, rule.subtract, object, pos, neg)
    PROVE  /\ Sound(OfExclusion(object, base, subtract), rule, object, pos, neg)
           /\ Sound(ButNot(object, base, subtract), rule, object, pos, neg)
<1>1. /\ Satisfied(rule, object, pos, neg)
           <=> Satisfied(rule.base, object, pos, neg) /\ ~Satisfied(rule.subtract, object, neg, pos)
      /\ Satisfied(rule, object, neg, pos)
           <=> Satisfied(rule.base, object, neg, pos) /\ ~Satisfied(rule.subtract, object, pos, neg)
  BY ExclusionSatisfied
<1>2. CASE ~base.allowed
  <2>1. base.certain => ~Satisfied(rule, object, neg, pos)
    BY <1>1, <1>2 DEF Sound, Says
  <2> QED BY <1>2, <2>1, DeniedSays, DenySays DEF Sound, OfExclusion, ButNot
<1>3. CASE base.allowed /\ subtract.allowed
  <2>1. ~Satisfied(rule, object, neg, pos)
    BY <1>1, <1>3 DEF Sound, Says
  <2> QED BY <1>3, <2>1, DeniedSays, DenySays DEF Sound, OfExclusion, ButNot
<1>4. CASE base.allowed /\ ~subtract.allowed /\ ~subtract.certain
  BY <1>4, DeniedSays, DenySays DEF Sound, OfExclusion, ButNot
<1>5. CASE base.allowed /\ ~subtract.allowed /\ subtract.certain
  <2>1. Satisfied(rule, object, pos, neg)
    BY <1>1, <1>5 DEF Sound, Says
  <2> QED BY <1>5, <2>1, AllowedSays, AllowSays DEF Sound, OfExclusion, ButNot
<1> QED BY <1>2, <1>3, <1>4, <1>5

\* The subjects of the tuples that are followed.
Links(rule, object) == {t \in Live : OnKey(t, Key(object, rule.relation))}

SaysOfSubject(o, t, rule, pos, neg) ==
  Says(o, Key(t.subject, rule.computedUserset) \in pos, Key(t.subject, rule.computedUserset) \notin neg)

SoundMembers(members, rule, object, pos, neg) ==
  /\ \A m \in members : \E t \in Links(rule, object) : SaysOfSubject(m.outcome, t, rule, pos, neg)
  /\ \A t \in Links(rule, object) : \E m \in members : SaysOfSubject(m.outcome, t, rule, pos, neg)

LEMMA LinkIsSound ==
    ASSUME NEW rule \in AllRewrites, rule.kind = "tupleToUserset", NEW object \in Entity,
           NEW pos \in SUBSET Keys, NEW neg \in SUBSET Keys,
           NEW members, SoundMembers(members, rule, object, pos, neg), NEW linkTouched
    PROVE  /\ Sound(OfTupleToUserset(object, rule, linkTouched, members), rule, object, pos, neg)
           /\ Sound(Followed(object, rule, members), rule, object, pos, neg)
<1>1. ASSUME NEW m \in members, m.outcome.allowed PROVE Satisfied(rule, object, pos, neg)
  <2>1. PICK t \in Links(rule, object) : SaysOfSubject(m.outcome, t, rule, pos, neg)
    BY DEF SoundMembers
  <2>2. Key(t.subject, rule.computedUserset) \in pos
    BY <1>1, <2>1 DEF SaysOfSubject, Says
  <2> QED BY <2>2, LinkSatisfied DEF Links
<1>2. ASSUME \A m \in members : ~m.outcome.allowed, \A m \in members : m.outcome.certain
      PROVE  ~Satisfied(rule, object, neg, pos)
  <2>1. ASSUME NEW t \in Links(rule, object) PROVE Key(t.subject, rule.computedUserset) \notin neg
    <3>1. PICK m \in members : SaysOfSubject(m.outcome, t, rule, pos, neg)
      BY DEF SoundMembers
    <3> QED BY <1>2, <3>1 DEF SaysOfSubject, Says
  <2> QED BY <2>1, LinkSatisfied DEF Links
<1>3. CASE \E m \in members : m.outcome.allowed
  <2>1. Satisfied(rule, object, pos, neg)
    BY <1>1, <1>3
  <2>2. {m \in members : m.outcome.allowed} # {}
    BY <1>3
  <2>3. /\ \E touched, proof : OfTupleToUserset(object, rule, linkTouched, members) = Allowed(touched, proof)
        /\ \E proof : Followed(object, rule, members) = Allow(proof)
    BY <1>3, <2>2 DEF OfTupleToUserset, Followed
  <2> QED BY <2>1, <2>3, AllowedSays, AllowSays DEF Sound
<1>4. CASE ~ \E m \in members : m.outcome.allowed
  <2> DEFINE certain == \A m \in members : m.outcome.certain
  <2>1. certain => ~Satisfied(rule, object, neg, pos)
    BY <1>2, <1>4
  <2>2. {m \in members : m.outcome.allowed} = {}
    BY <1>4
  <2>3. /\ \E touched, disproof :
             OfTupleToUserset(object, rule, linkTouched, members) = Denied(certain, touched, disproof)
        /\ \E disproof : Followed(object, rule, members) = Deny(certain, disproof)
    BY <1>4, <2>2 DEF OfTupleToUserset, Followed
  <2> HIDE DEF certain
  <2> QED BY <2>1, <2>3, DeniedSays, DenySays DEF Sound
<1> QED BY <1>3, <1>4

-----------------------------------------------------------------------------
(***************************************************************************)
(* The walks.                                                              *)
(***************************************************************************)
\* Each of pos and neg is what is least for the other.
IsPair(subject, pos, neg) == /\ pos \in SUBSET Keys /\ neg \in SUBSET Keys
                             /\ IsLeast(subject, neg, pos) /\ IsLeast(subject, pos, neg)

SoundWalk(below, pos, neg) ==
  \A rule \in AllRewrites, object \in Entities, visited \in SUBSET Keys, depth \in Nat :
    Sound(below[Call(rule, object, visited, depth)], rule, object, pos, neg)

SaysOfName(o, object, name, pos, neg) ==
  Says(o, Key(object, name) \in pos, Key(object, name) \notin neg)

\* What a permission's rule says of it.
LEMMA PermissionIsSound ==
    ASSUME GraphInv, NEW subject, NEW pos, NEW neg, IsPair(subject, pos, neg),
           NEW object \in Entities, NEW name \in STRING,
           ~Declares(object.ns, name), Defines(object.ns, name),
           NEW o, Sound(o, schema[object.ns].permissions[name], object, pos, neg)
    PROVE  SaysOfName(o, object, name, pos, neg)
<1> DEFINE k == Key(object, name)
<1>1. k \in Pairs /\ k[1] = object /\ k[2] = name
  BY PairOfName, KeyParts
<1> HIDE DEF k
<1>2. \A p, q : Follows(subject, k, p, q)
                  = Satisfied(schema[object.ns].permissions[name], object, p, q)
  BY <1>1 DEF Follows
<1>3. Supported(subject, pos, neg)
  BY LeastIsSupported DEF IsPair, GraphInv
<1>4. o.allowed => k \in pos
  BY <1>1, <1>2 DEF IsPair, IsLeast, ClosedUnder, Sound, Says
<1>5. ~o.allowed /\ o.certain => k \notin neg
  BY <1>1, <1>2, <1>3 DEF Supported, Sound, Says
<1> QED BY <1>4, <1>5 DEF SaysOfName, Says, k

LEMMA NoSuchName ==
    ASSUME GraphInv, NEW subject, NEW pos, NEW neg, IsPair(subject, pos, neg),
           NEW object \in Entities, NEW name \in STRING,
           ~Declares(object.ns, name), ~Defines(object.ns, name)
    PROVE  Key(object, name) \notin neg
<1>1. Key(object, name)[1] = object /\ Key(object, name)[2] = name
  BY KeyParts
<1>2. Key(object, name) \notin Pairs
  BY <1>1, PairKinds DEF GraphInv
<1> QED BY <1>2 DEF IsPair, IsLeast

LEMMA VisitIsTyped ==
    ASSUME NEW object \in Entities, NEW name \in STRING, NEW visited \in SUBSET Keys
    PROVE  visited \cup {Key(object, name)} \in SUBSET Keys
<1>1. Key(object, name) \in Keys
  BY EntitiesAreTyped DEF Key, Keys
<1> QED BY <1>1

LEMMA ResolveIsSound ==
    ASSUME GraphInv, NEW subject, NEW pos, NEW neg, IsPair(subject, pos, neg),
           NEW below, SoundWalk(below, pos, neg),
           NEW object \in Entities, NEW name \in STRING, NEW visited \in SUBSET Keys,
           NEW depth \in Nat, NEW maxDepth \in Nat
    PROVE  SaysOfName(Resolve(below, subject, object, name, visited, depth, maxDepth),
                      object, name, pos, neg)
<1> DEFINE o == Resolve(below, subject, object, name, visited, depth, maxDepth)
<1>1. CASE depth > maxDepth \/ Key(object, name) \in visited
  <2>1. o = Denied(FALSE, FALSE, BoundReached(object, name))
    BY <1>1 DEF Resolve
  <2> QED BY <2>1, DeniedSays DEF SaysOfName
<1>2. CASE ~(depth > maxDepth) /\ Key(object, name) \notin visited
  <2>1. CASE Declares(object.ns, name)
    <3>1. o = SqlRelationMembership(object, name, subject, maxDepth - depth)
      BY <1>2, <2>1 DEF Resolve
    <3>6. depth <= maxDepth
      BY <1>2
    <3>2. maxDepth - depth \in Nat
      BY <3>6
    <3>5. object \in Entity
      BY EntitiesAreTyped
    <3> DEFINE rs == CHOOSE rs \in ReachableFrontiers(object, name, maxDepth - depth) : TRUE
    <3>3. rs \in ReachableFrontiers(object, name, maxDepth - depth)
      BY <3>2, <3>5, ResultsAreGood
    <3>4. o = OutcomeOfRows(rs, object, name, subject, maxDepth - depth)
      BY <3>1 DEF SqlRelationMembership
    <3> HIDE DEF rs, o
    <3> QED BY <2>1, <3>2, <3>3, <3>4, RelationIsSound DEF IsPair, SaysOfName, o
  <2>2. CASE ~Declares(object.ns, name) /\ Defines(object.ns, name)
    <3>1. o = below[Call(schema[object.ns].permissions[name], object,
                         visited \cup {Key(object, name)}, depth + 1)]
      BY <1>2, <2>2 DEF Resolve
    <3>2. schema[object.ns].permissions[name] \in AllRewrites
      BY <2>2 DEF GraphInv, IsSchema, Defines
    <3>4. visited \cup {Key(object, name)} \in SUBSET Keys
      BY VisitIsTyped
    <3>5. depth + 1 \in Nat
      OBVIOUS
    <3> HIDE DEF o
    <3>3. Sound(o, schema[object.ns].permissions[name], object, pos, neg)
      BY <3>1, <3>2, <3>4, <3>5 DEF SoundWalk
    <3> QED BY <2>2, <3>3, PermissionIsSound DEF o
  <2>3. CASE ~Declares(object.ns, name) /\ ~Defines(object.ns, name)
    <3>1. o = Denied(TRUE, FALSE, UndeclaredName(object, name))
      BY <1>2, <2>3 DEF Resolve
    <3>2. Key(object, name) \notin neg
      BY <2>3, NoSuchName
    <3> HIDE DEF o
    <3> QED BY <3>1, <3>2, DeniedSays DEF SaysOfName, o
  <2> QED BY <2>1, <2>2, <2>3
<1> QED BY <1>1, <1>2

LEMMA BranchesAreSound ==
    ASSUME NEW pos, NEW neg, NEW below, SoundWalk(below, pos, neg),
           NEW rule \in AllRewrites, rule.kind \in {"union", "intersection"},
           NEW object \in Entities, NEW visited \in SUBSET Keys, NEW depth \in Nat
    PROVE  SoundBranches([i \in DOMAIN rule.children |->
                            below[Call(rule.children[i], object, visited, depth)]],
                         rule, object, pos, neg)
<1>1. \A i \in DOMAIN rule.children : rule.children[i] \in AllRewrites
  BY RuleKinds
<1>2. \A i \in DOMAIN rule.children :
        Sound(below[Call(rule.children[i], object, visited, depth)], rule.children[i], object, pos, neg)
  BY <1>1 DEF SoundWalk
<1> QED BY <1>2 DEF SoundBranches

LEMMA EvalIsSound ==
    ASSUME GraphInv, NEW subject, NEW pos, NEW neg, IsPair(subject, pos, neg),
           NEW below, SoundWalk(below, pos, neg),
           NEW rule \in AllRewrites, NEW object \in Entities, NEW visited \in SUBSET Keys,
           NEW depth \in Nat, NEW maxDepth \in Nat
    PROVE  Sound(EvalRewrite(below, subject, rule, object, visited, depth, maxDepth),
                 rule, object, pos, neg)
<1> DEFINE o == EvalRewrite(below, subject, rule, object, visited, depth, maxDepth)
<1>1. object \in Entity /\ pos \in SUBSET Keys /\ neg \in SUBSET Keys
  BY EntitiesAreTyped DEF IsPair
<1>2. CASE rule.kind = "computedUserset"
  <2>1. o = Resolve(below, subject, object, rule.name, visited, depth, maxDepth)
    BY <1>2 DEF EvalRewrite
  <2>2. rule.name \in STRING
    BY <1>2, RuleKinds
  <2> HIDE DEF o
  <2>3. SaysOfName(o, object, rule.name, pos, neg)
    BY <2>1, <2>2, ResolveIsSound
  <2>4. Sound(o, rule, object, pos, neg)
    BY <1>1, <1>2, <2>3, NameSatisfied DEF SaysOfName, Says, Sound
  <2> QED BY <2>4 DEF o
<1>3. CASE rule.kind = "union"
  <2> DEFINE outcomes == [i \in DOMAIN rule.children |->
                            below[Call(rule.children[i], object, visited, depth)]]
  <2>1. o = OfUnion(object, outcomes)
    BY <1>3 DEF EvalRewrite
  <2>2. SoundBranches(outcomes, rule, object, pos, neg)
    BY <1>3, BranchesAreSound
  <2> HIDE DEF o, outcomes
  <2>3. Sound(o, rule, object, pos, neg)
    BY <1>1, <1>3, <2>1, <2>2, UnionIsSound
  <2> QED BY <2>3 DEF o
<1>4. CASE rule.kind = "intersection"
  <2> DEFINE outcomes == [i \in DOMAIN rule.children |->
                            below[Call(rule.children[i], object, visited, depth)]]
  <2>1. o = OfIntersection(object, outcomes)
    BY <1>4 DEF EvalRewrite
  <2>2. SoundBranches(outcomes, rule, object, pos, neg)
    BY <1>4, BranchesAreSound
  <2> HIDE DEF o, outcomes
  <2>3. Sound(o, rule, object, pos, neg)
    BY <1>1, <1>4, <2>1, <2>2, IntersectionIsSound
  <2> QED BY <2>3 DEF o
<1>5. CASE rule.kind = "exclusion"
  <2> DEFINE base == below[Call(rule.base, object, visited, depth)]
             subtract == below[Call(rule.subtract, object, visited, depth)]
  <2>1. o = OfExclusion(object, base, subtract)
    BY <1>5 DEF EvalRewrite
  <2>2. rule.base \in AllRewrites /\ rule.subtract \in AllRewrites
    BY <1>5, RuleKinds
  <2>3. Sound(base, rule.base, object, pos, neg) /\ Sound(subtract, rule.subtract, object, pos, neg)
    BY <2>2 DEF SoundWalk
  <2> HIDE DEF o, base, subtract
  <2>4. Sound(o, rule, object, pos, neg)
    BY <1>1, <1>5, <2>1, <2>3, ExclusionIsSound
  <2> QED BY <2>4 DEF o
<1>6. CASE rule.kind = "tupleToUserset"
  <2> DEFINE links == TupleSubjects(object, rule.relation)
             outcome(t) == Resolve(below, subject, t.subject, rule.computedUserset, visited,
                                   depth, maxDepth)
             member(t) == [through |-> t.subject, outcome |-> outcome(t)]
             members == {member(t) : t \in links}
  <2>1. o = OfTupleToUserset(object, rule, links \cap Expiring # {}, members)
    BY <1>6 DEF EvalRewrite
  <2>2. links = Links(rule, object) /\ rule.computedUserset \in STRING
    BY <1>6, RuleKinds DEF TupleSubjects, Links
  <2>3. ASSUME NEW t \in Links(rule, object) PROVE SaysOfSubject(member(t).outcome, t, rule, pos, neg)
    <3>1. t.subject \in Entities
      BY LiveTuples DEF Links
    <3>2. SaysOfName(outcome(t), t.subject, rule.computedUserset, pos, neg)
      BY <2>2, <3>1, ResolveIsSound
    <3>3. member(t).outcome = outcome(t)
      OBVIOUS
    <3> HIDE DEF outcome, member
    <3> QED BY <3>2, <3>3 DEF SaysOfName, SaysOfSubject
  <2> HIDE DEF outcome, member, links
  <2>4. SoundMembers(members, rule, object, pos, neg)
    BY <2>2, <2>3 DEF SoundMembers
  <2> HIDE DEF members
  <2>5. \E touched : o = OfTupleToUserset(object, rule, touched, members)
    BY <2>1
  <2> HIDE DEF o
  <2>6. Sound(o, rule, object, pos, neg)
    BY <1>1, <1>6, <2>4, <2>5, LinkIsSound
  <2> QED BY <2>6 DEF o
<1> QED BY <1>2, <1>3, <1>4, <1>5, <1>6, RuleKinds

LEMMA CallIsTyped ==
    ASSUME NEW rule \in AllRewrites, NEW object \in Entities, NEW visited \in SUBSET Keys,
           NEW depth \in Nat, NEW c, c = Call(rule, object, visited, depth)
    PROVE  /\ c \in Calls
           /\ c.rule = rule /\ c.object = object /\ c.visited = visited /\ c.depth = depth
BY EntitiesAreTyped DEF Call, Calls

\* What a walk says of a call.
LEMMA CallValue ==
    ASSUME GraphInv, NEW subject, NEW maxDepth, NEW h \in Nat,
           NEW rule \in AllRewrites, NEW object \in Entities,
           NEW visited \in SUBSET Keys, NEW depth \in Nat
    PROVE  ProductionWalk(subject, maxDepth)[h][Call(rule, object, visited, depth)]
             = IF h = 0 THEN OverHeight
               ELSE EvalRewrite(ProductionWalk(subject, maxDepth)[h - 1], subject, rule, object,
                                visited, depth, maxDepth)
<1> DEFINE walk(k) == ProductionWalk(subject, maxDepth)[k]
           c == Call(rule, object, visited, depth)
<1>1. walk(h) = ProductionStep(subject, maxDepth, h, walk(h - 1))
  BY ProductionUnfolds
<1>2. /\ c \in Calls
      /\ c.rule = rule /\ c.object = object /\ c.visited = visited /\ c.depth = depth
  BY CallIsTyped
<1> HIDE DEF c, walk
<1>3. walk(h)[c] = IF h = 0 THEN OverHeight
                   ELSE EvalRewrite(walk(h - 1), subject, c.rule, c.object, c.visited, c.depth,
                                    maxDepth)
  BY <1>1, <1>2 DEF ProductionStep
<1> QED BY <1>2, <1>3 DEF c, walk

LEMMA ProductionWalkIsSound ==
    ASSUME GraphInv, NEW subject, NEW pos, NEW neg, IsPair(subject, pos, neg),
           NEW maxDepth \in Nat, NEW n \in Nat
    PROVE  SoundWalk(ProductionWalk(subject, maxDepth)[n], pos, neg)
<1> DEFINE walk(h) == ProductionWalk(subject, maxDepth)[h]
           Good == {h \in 0..n : SoundWalk(walk(h), pos, neg)}
<1>1. ASSUME NEW h \in Nat, NEW rule \in AllRewrites, NEW object \in Entities,
             NEW visited \in SUBSET Keys, NEW depth \in Nat
      PROVE  walk(h)[Call(rule, object, visited, depth)]
               = IF h = 0 THEN OverHeight
                 ELSE EvalRewrite(walk(h - 1), subject, rule, object, visited, depth, maxDepth)
  BY CallValue
<1> HIDE DEF walk
<1>2. 0 \in Good
  <2>1. ASSUME NEW rule \in AllRewrites, NEW object \in Entities,
               NEW visited \in SUBSET Keys, NEW depth \in Nat
        PROVE  Sound(walk(0)[Call(rule, object, visited, depth)], rule, object, pos, neg)
    <3>1. walk(0)[Call(rule, object, visited, depth)] = Denied(FALSE, FALSE, None)
      BY <1>1 DEF OverHeight
    <3> QED BY <3>1, DeniedSays DEF Sound
  <2>2. SoundWalk(walk(0), pos, neg)
    BY <2>1 DEF SoundWalk
  <2>3. 0 \in 0..n
    OBVIOUS
  <2> QED BY <2>2, <2>3
<1>3. ASSUME NEW h \in 1..n, h - 1 \in Good PROVE h \in Good
  <2>1. h \in Nat /\ h # 0 /\ SoundWalk(walk(h - 1), pos, neg)
    BY <1>3
  <2>3. ASSUME NEW rule \in AllRewrites, NEW object \in Entities,
               NEW visited \in SUBSET Keys, NEW depth \in Nat
        PROVE  Sound(walk(h)[Call(rule, object, visited, depth)], rule, object, pos, neg)
    <3>1. walk(h)[Call(rule, object, visited, depth)]
            = EvalRewrite(walk(h - 1), subject, rule, object, visited, depth, maxDepth)
      BY <1>1, <2>1
    <3> QED BY <2>1, <3>1, EvalIsSound
  <2>2. SoundWalk(walk(h), pos, neg)
    BY <2>3 DEF SoundWalk
  <2> QED BY <2>2
<1>4. 0..n \subseteq Good
  <2> HIDE DEF Good
  <2> QED BY <1>2, <1>3, Along
<1>5. n \in Good
  <2> HIDE DEF Good
  <2> QED BY <1>4
<1> QED BY <1>5 DEF walk

\* The reference resolver.  A stored userset is a name to look up, one level deeper.
LEMMA NameIsRule ==
    ASSUME NEW name \in STRING
    PROVE  /\ Computed(name) \in AllRewrites
           /\ Computed(name).kind = "computedUserset" /\ Computed(name).name = name
<1>1. Rewrites[MaxNesting] = RewritesStep(MaxNesting, Rewrites[MaxNesting - 1])
  BY GraphAssumption, RewritesUnfolds
<1> QED BY <1>1 DEF AllRewrites, Computed, RewritesStep

LEMMA ReferenceRelationIsSound ==
    ASSUME GraphInv, NEW subject, NEW pos, NEW neg, IsPair(subject, pos, neg),
           NEW below, SoundWalk(below, pos, neg),
           NEW object \in Entities, NEW name \in STRING, NEW visiting \in SUBSET Keys,
           NEW depth \in Nat, Declares(object.ns, name)
    PROVE  SaysOfName(RefRelation(below, subject, object, name, visiting, depth),
                      object, name, pos, neg)
<1> DEFINE tuples  == ReadTuples(object, name)
           plain   == {t \in tuples : t.subjectRelation = None}
           matches == {t \in plain : IsMatch(t, subject)}
           call(t) == Call(Computed(t.subjectRelation), t.subject, visiting, depth)
           member(t) == [tuple |-> t, outcome |-> below[call(t)]]
           members == {member(t) : t \in tuples \ plain}
           o == RefRelation(below, subject, object, name, visiting, depth)
           k == Key(object, name)
<1>1. tuples = {t \in Live : OnKey(t, k)}
  BY KeyParts DEF ReadTuples, OnKey
<1>2. k \in Pairs /\ k[1] = object /\ k[2] = name
  BY PairOfName, KeyParts
<1> HIDE DEF k, tuples
<1>3. \A p, q : Follows(subject, k, p, q) =
        \E t \in Live : /\ OnKey(t, k)
                        /\ IF t.subjectRelation = None THEN SubjectMatches(t.subject, subject)
                                                       ELSE Target(t) \in p
  BY <1>2 DEF Follows
<1>4. \A t : IsMatch(t, subject) <=> SubjectMatches(t.subject, subject)
  BY DEF IsMatch, SubjectMatches
<1>5. Supported(subject, pos, neg) /\ ClosedUnder(subject, neg, pos)
  BY LeastIsSupported DEF IsPair, GraphInv, IsLeast
<1>6. ASSUME NEW t \in tuples \ plain
      PROVE  Says(member(t).outcome, Target(t) \in pos, Target(t) \notin neg)
  <2>1. t \in Live /\ t.subjectRelation # None
    BY <1>1
  <2>2. t.subject \in Entities /\ t.subject \in Entity /\ t.subjectRelation \in STRING
    BY <2>1, LiveTuples
  <2> DEFINE r == Computed(t.subjectRelation)
  <2>3. r \in AllRewrites /\ r.kind = "computedUserset" /\ r.name = t.subjectRelation
    BY <2>2, NameIsRule
  <2>4. member(t).outcome = below[Call(r, t.subject, visiting, depth)]
    OBVIOUS
  <2> HIDE DEF r, member
  <2>5. Sound(member(t).outcome, r, t.subject, pos, neg)
    BY <2>2, <2>3, <2>4 DEF SoundWalk
  <2>6. /\ Satisfied(r, t.subject, pos, neg) <=> Target(t) \in pos
        /\ Satisfied(r, t.subject, neg, pos) <=> Target(t) \in neg
    BY <2>2, <2>3, NameSatisfied DEF IsPair, Target
  <2> QED BY <2>5, <2>6 DEF Sound, Says
<1>7. CASE matches # {}
  <2>1. PICK t \in matches : TRUE
    BY <1>7
  <2>2. t \in Live /\ OnKey(t, k) /\ t.subjectRelation = None /\ SubjectMatches(t.subject, subject)
    BY <1>1, <1>4
  <2>3. k \in pos
    BY <1>2, <1>3, <1>5, <2>2 DEF ClosedUnder
  <2>4. \E proof : o = Allow(proof)
    BY <1>7 DEF RefRelation, tuples
  <2> HIDE DEF o
  <2> QED BY <2>3, <2>4, AllowSays DEF SaysOfName, k, o
<1>8. CASE matches = {} /\ \E m \in members : m.outcome.allowed
  <2>1. \E proof : o = Allow(proof)
    BY <1>8 DEF RefRelation, tuples
  <2> HIDE DEF o
  <2>2. PICK t \in tuples \ plain : member(t).outcome.allowed
    BY <1>8
  <2>3. t \in Live /\ OnKey(t, k) /\ t.subjectRelation # None
    BY <1>1
  <2>4. Target(t) \in pos
    <3> HIDE DEF member
    <3> QED BY <1>6, <2>2 DEF Says
  <2>5. k \in pos
    BY <1>2, <1>3, <1>5, <2>3, <2>4 DEF ClosedUnder
  <2> QED BY <2>1, <2>5, AllowSays DEF SaysOfName, k, o
<1>9. CASE matches = {} /\ ~ \E m \in members : m.outcome.allowed
  <2> DEFINE certain == \A m \in members : m.outcome.certain
  <2>1. \E disproof : o = Deny(certain, disproof)
    BY <1>9 DEF RefRelation, tuples
  <2> HIDE DEF o
  <2>2. ASSUME certain PROVE k \notin neg
    <3>1. ASSUME NEW t \in Live, OnKey(t, k),
                 IF t.subjectRelation = None THEN SubjectMatches(t.subject, subject)
                                             ELSE Target(t) \in neg
          PROVE  FALSE
      <4>1. t \in tuples
        BY <1>1, <3>1
      <4>2. t.subjectRelation # None
        BY <1>4, <1>9, <3>1, <4>1
      <4>3. t \in tuples \ plain /\ member(t) \in members
        BY <4>1, <4>2
      <4>4. ~member(t).outcome.allowed /\ member(t).outcome.certain
        <5> HIDE DEF member, members, matches
        <5> QED BY <1>9, <2>2, <4>3
      <4>5. Target(t) \notin neg
        <5> HIDE DEF member
        <5> QED BY <1>6, <4>3, <4>4 DEF Says
      <4> QED BY <3>1, <4>2, <4>5
    <3>2. ~Follows(subject, k, neg, pos)
      BY <1>3, <3>1
    <3> QED BY <1>5, <3>2 DEF Supported
  <2> HIDE DEF certain
  <2> QED BY <2>1, <2>2, DenySays DEF SaysOfName, k, o
<1> QED BY <1>7, <1>8, <1>9

LEMMA MembershipIsSound ==
    ASSUME GraphInv, NEW subject, NEW pos, NEW neg, IsPair(subject, pos, neg),
           NEW below, SoundWalk(below, pos, neg),
           NEW object \in Entities, NEW name \in STRING, NEW visiting \in SUBSET Keys,
           NEW depth \in Nat, NEW maxDepth \in Nat
    PROVE  SaysOfName(ResolveMembership(below, subject, object, name, visiting, depth, maxDepth),
                      object, name, pos, neg)
<1> DEFINE o == ResolveMembership(below, subject, object, name, visiting, depth, maxDepth)
           more == visiting \cup {Key(object, name)}
           stops == depth > maxDepth \/ Key(object, name) \in visiting
<1>1. more \in SUBSET Keys
  BY VisitIsTyped
<1>2. o = IF stops THEN Deny(FALSE, BoundReached(object, name))
          ELSE IF Declares(object.ns, name)
               THEN RefRelation(below, subject, object, name, more, depth)
          ELSE IF Defines(object.ns, name)
               THEN below[Call(schema[object.ns].permissions[name], object, more, depth)]
          ELSE Deny(TRUE, UndeclaredName(object, name))
  BY DEF ResolveMembership, Key
<1> HIDE DEF o, more, stops
<1>3. CASE stops
  BY <1>2, <1>3, DenySays DEF SaysOfName, o
<1>4. CASE ~stops /\ Declares(object.ns, name)
  BY <1>1, <1>2, <1>4, ReferenceRelationIsSound DEF o
<1>5. CASE ~stops /\ ~Declares(object.ns, name) /\ Defines(object.ns, name)
  <2>1. schema[object.ns].permissions[name] \in AllRewrites
    BY <1>5 DEF GraphInv, IsSchema, Defines
  <2>2. Sound(o, schema[object.ns].permissions[name], object, pos, neg)
    BY <1>1, <1>2, <1>5, <2>1 DEF SoundWalk
  <2> QED BY <1>5, <2>2, PermissionIsSound DEF o
<1>6. CASE ~stops /\ ~Declares(object.ns, name) /\ ~Defines(object.ns, name)
  <2>1. Key(object, name) \notin neg
    BY <1>6, NoSuchName
  <2> QED BY <1>2, <1>6, <2>1, DenySays DEF SaysOfName, o
<1> QED BY <1>3, <1>4, <1>5, <1>6

LEMMA RefRewriteIsSound ==
    ASSUME GraphInv, NEW subject, NEW pos, NEW neg, IsPair(subject, pos, neg),
           NEW below, SoundWalk(below, pos, neg),
           NEW rule \in AllRewrites, NEW object \in Entities, NEW visiting \in SUBSET Keys,
           NEW depth \in Nat, NEW maxDepth \in Nat
    PROVE  Sound(RefRewrite(below, subject, rule, object, visiting, depth, maxDepth),
                 rule, object, pos, neg)
<1> DEFINE o == RefRewrite(below, subject, rule, object, visiting, depth, maxDepth)
<1>1. object \in Entity /\ pos \in SUBSET Keys /\ neg \in SUBSET Keys
  BY EntitiesAreTyped DEF IsPair
<1>7. depth + 1 \in Nat
  OBVIOUS
<1>2. CASE rule.kind = "computedUserset"
  <2>1. o = ResolveMembership(below, subject, object, rule.name, visiting, depth + 1, maxDepth)
    BY <1>2 DEF RefRewrite
  <2>2. rule.name \in STRING
    BY <1>2, RuleKinds
  <2> HIDE DEF o
  <2>3. SaysOfName(o, object, rule.name, pos, neg)
    BY <1>7, <2>1, <2>2, MembershipIsSound
  <2>4. Sound(o, rule, object, pos, neg)
    BY <1>1, <1>2, <2>3, NameSatisfied DEF SaysOfName, Says, Sound
  <2> QED BY <2>4 DEF o
<1>3. CASE rule.kind = "union"
  <2> DEFINE outcomes == [i \in DOMAIN rule.children |->
                            below[Call(rule.children[i], object, visiting, depth)]]
  <2>1. o = AnyOf(object, outcomes)
    BY <1>3 DEF RefRewrite
  <2>2. SoundBranches(outcomes, rule, object, pos, neg)
    BY <1>3, BranchesAreSound
  <2> HIDE DEF o, outcomes
  <2>3. Sound(o, rule, object, pos, neg)
    BY <1>1, <1>3, <2>1, <2>2, UnionIsSound
  <2> QED BY <2>3 DEF o
<1>4. CASE rule.kind = "intersection"
  <2> DEFINE outcomes == [i \in DOMAIN rule.children |->
                            below[Call(rule.children[i], object, visiting, depth)]]
  <2>1. o = AllOf(object, outcomes)
    BY <1>4 DEF RefRewrite
  <2>2. SoundBranches(outcomes, rule, object, pos, neg)
    BY <1>4, BranchesAreSound
  <2> HIDE DEF o, outcomes
  <2>3. Sound(o, rule, object, pos, neg)
    BY <1>1, <1>4, <2>1, <2>2, IntersectionIsSound
  <2> QED BY <2>3 DEF o
<1>5. CASE rule.kind = "exclusion"
  <2> DEFINE base == below[Call(rule.base, object, visiting, depth)]
             subtract == below[Call(rule.subtract, object, visiting, depth)]
  <2>1. o = ButNot(object, base, subtract)
    BY <1>5 DEF RefRewrite
  <2>2. rule.base \in AllRewrites /\ rule.subtract \in AllRewrites
    BY <1>5, RuleKinds
  <2>3. Sound(base, rule.base, object, pos, neg) /\ Sound(subtract, rule.subtract, object, pos, neg)
    BY <2>2 DEF SoundWalk
  <2> HIDE DEF o, base, subtract
  <2>4. Sound(o, rule, object, pos, neg)
    BY <1>1, <1>5, <2>1, <2>3, ExclusionIsSound
  <2> QED BY <2>4 DEF o
<1>6. CASE rule.kind = "tupleToUserset"
  <2> DEFINE tuples == ReadTuples(object, rule.relation)
             outcome(t) == ResolveMembership(below, subject, t.subject, rule.computedUserset,
                                             visiting, depth + 1, maxDepth)
             member(t) == [tuple |-> t, outcome |-> outcome(t)]
             members == {member(t) : t \in tuples}
  <2>1. o = Followed(object, rule, members)
    BY <1>6 DEF RefRewrite
  <2>2. tuples = Links(rule, object) /\ rule.computedUserset \in STRING
    BY <1>6, RuleKinds, KeyParts DEF ReadTuples, Links, OnKey
  <2>3. ASSUME NEW t \in Links(rule, object) PROVE SaysOfSubject(member(t).outcome, t, rule, pos, neg)
    <3>1. t.subject \in Entities
      BY LiveTuples DEF Links
    <3>2. SaysOfName(outcome(t), t.subject, rule.computedUserset, pos, neg)
      BY <1>7, <2>2, <3>1, MembershipIsSound
    <3>3. member(t).outcome = outcome(t)
      OBVIOUS
    <3> HIDE DEF outcome, member
    <3> QED BY <3>2, <3>3 DEF SaysOfName, SaysOfSubject
  <2> HIDE DEF outcome, member, tuples
  <2>4. SoundMembers(members, rule, object, pos, neg)
    BY <2>2, <2>3 DEF SoundMembers
  <2> HIDE DEF members, o
  <2>6. Sound(o, rule, object, pos, neg)
    BY <1>1, <1>6, <2>1, <2>4, LinkIsSound
  <2> QED BY <2>6 DEF o
<1> QED BY <1>2, <1>3, <1>4, <1>5, <1>6, RuleKinds

LEMMA ReferenceWalkIsSound ==
    ASSUME GraphInv, NEW subject, NEW pos, NEW neg, IsPair(subject, pos, neg),
           NEW maxDepth \in Nat, NEW n \in Nat
    PROVE  SoundWalk(ReferenceWalk(subject, maxDepth)[n], pos, neg)
<1> DEFINE walk(h) == ReferenceWalk(subject, maxDepth)[h]
           Good == {h \in 0..n : SoundWalk(walk(h), pos, neg)}
<1>1. ASSUME NEW h \in Nat, NEW rule \in AllRewrites, NEW object \in Entities,
             NEW visited \in SUBSET Keys, NEW depth \in Nat
      PROVE  walk(h)[Call(rule, object, visited, depth)]
               = IF h = 0 THEN Deny(FALSE, None)
                 ELSE RefRewrite(walk(h - 1), subject, rule, object, visited, depth, maxDepth)
  <2>1. walk(h) = ReferenceStep(subject, maxDepth, h, walk(h - 1))
    BY ReferenceUnfolds
  <2> DEFINE c == Call(rule, object, visited, depth)
  <2>2. /\ c \in Calls
        /\ c.rule = rule /\ c.object = object /\ c.visited = visited /\ c.depth = depth
    BY CallIsTyped
  <2> HIDE DEF c, walk
  <2>3. walk(h)[c] = IF h = 0 THEN Deny(FALSE, None)
                     ELSE RefRewrite(walk(h - 1), subject, c.rule, c.object, c.visited, c.depth,
                                     maxDepth)
    BY <2>1, <2>2 DEF ReferenceStep
  <2> QED BY <2>2, <2>3 DEF c
<1> HIDE DEF walk
<1>2. 0 \in Good
  <2>1. ASSUME NEW rule \in AllRewrites, NEW object \in Entities,
               NEW visited \in SUBSET Keys, NEW depth \in Nat
        PROVE  Sound(walk(0)[Call(rule, object, visited, depth)], rule, object, pos, neg)
    <3>1. walk(0)[Call(rule, object, visited, depth)] = Deny(FALSE, None)
      BY <1>1
    <3> QED BY <3>1, DenySays DEF Sound
  <2>2. SoundWalk(walk(0), pos, neg)
    BY <2>1 DEF SoundWalk
  <2>3. 0 \in 0..n
    OBVIOUS
  <2> QED BY <2>2, <2>3
<1>3. ASSUME NEW h \in 1..n, h - 1 \in Good PROVE h \in Good
  <2>1. h \in Nat /\ h # 0 /\ SoundWalk(walk(h - 1), pos, neg)
    BY <1>3
  <2>3. ASSUME NEW rule \in AllRewrites, NEW object \in Entities,
               NEW visited \in SUBSET Keys, NEW depth \in Nat
        PROVE  Sound(walk(h)[Call(rule, object, visited, depth)], rule, object, pos, neg)
    <3>1. walk(h)[Call(rule, object, visited, depth)]
            = RefRewrite(walk(h - 1), subject, rule, object, visited, depth, maxDepth)
      BY <1>1, <2>1
    <3> QED BY <2>1, <3>1, RefRewriteIsSound
  <2>2. SoundWalk(walk(h), pos, neg)
    BY <2>3 DEF SoundWalk
  <2> QED BY <2>2
<1>4. 0..n \subseteq Good
  <2> HIDE DEF Good
  <2> QED BY <1>2, <1>3, Along
<1>5. n \in Good
  <2> HIDE DEF Good
  <2> QED BY <1>4
<1> QED BY <1>5 DEF walk

LEMMA ModelIsPair ==
    ASSUME GraphInv, NEW subject
    PROVE  IsPair(subject, Model(subject).true, Model(subject).possible)
BY ModelIsModel, PairsAreKeys DEF IsModel, IsPair, IsLeast, GraphInv

LEMMA HeightsAreNumbers ==
    ASSUME NEW maxDepth \in Nat
    PROVE  Height(maxDepth) \in Nat /\ RefHeight(maxDepth) \in Nat
<1>1. \A a, b \in Nat : a * b \in Nat
  OBVIOUS
<1>2. maxDepth + 2 \in Nat /\ MaxNesting + 1 \in Nat /\ MaxNesting + 2 \in Nat
  BY GraphAssumption
<1> QED BY <1>1, <1>2 DEF Height, RefHeight

LEMMA ChecksAreSound ==
    ASSUME GraphInv, NEW subject, NEW pos, NEW neg, IsPair(subject, pos, neg),
           NEW object \in Entities, NEW name \in STRING, NEW maxDepth \in Nat
    PROVE  /\ SaysOfName(ProductionCheck(subject, object, name, maxDepth), object, name, pos, neg)
           /\ SaysOfName(ReferenceCheck(subject, object, name, maxDepth), object, name, pos, neg)
<1> DEFINE walk == ProductionWalk(subject, maxDepth)[Height(maxDepth)]
           reference == ReferenceWalk(subject, maxDepth)[RefHeight(maxDepth)]
<1>1. SoundWalk(walk, pos, neg) /\ SoundWalk(reference, pos, neg)
  BY HeightsAreNumbers, ProductionWalkIsSound, ReferenceWalkIsSound
<1> HIDE DEF walk, reference
<1>2. {} \in SUBSET Keys /\ 0 \in Nat
  OBVIOUS
<1>3. SaysOfName(Resolve(walk, subject, object, name, {}, 0, maxDepth), object, name, pos, neg)
  BY <1>1, <1>2, ResolveIsSound
<1>4. SaysOfName(ResolveMembership(reference, subject, object, name, {}, 0, maxDepth),
                 object, name, pos, neg)
  BY <1>1, <1>2, MembershipIsSound
<1> QED BY <1>3, <1>4 DEF ProductionCheck, ReferenceCheck, walk, reference

-----------------------------------------------------------------------------
\* Whatever the schema, the stored tuples and the depth limit, what the production
\* resolver or the reference resolver allows is true in the well-founded model of the
\* schema, and what either denies with certainty is false in it.
THEOREM ResolversDecideWhatIsMeant == GraphSpec => []DecidedMeansMeant
<1>1. GraphInv => DecidedMeansMeant
  <2> SUFFICES ASSUME GraphInv, NEW s \in Subjects, NEW k \in Pairs, NEW d \in Depths
               PROVE  /\ MeansSo(ProductionCheck(s, k[1], k[2], d), Model(s), k)
                      /\ MeansSo(ReferenceCheck(s, k[1], k[2], d), Model(s), k)
    BY DEF DecidedMeansMeant
  <2>1. d \in Nat
    BY DepthsAssumption
  <2>2. k[1] \in Entities /\ k[2] \in STRING /\ k = Key(k[1], k[2])
    BY PairKinds DEF GraphInv
  <2>3. IsPair(s, Model(s).true, Model(s).possible)
    BY ModelIsPair
  <2> DEFINE p == ProductionCheck(s, k[1], k[2], d)
             q == ReferenceCheck(s, k[1], k[2], d)
             m == Model(s)
  <2>4. /\ SaysOfName(p, k[1], k[2], m.true, m.possible)
        /\ SaysOfName(q, k[1], k[2], m.true, m.possible)
    BY <2>1, <2>2, <2>3, ChecksAreSound
  <2> HIDE DEF p, q, m
  <2>5. MeansSo(p, m, k) /\ MeansSo(q, m, k)
    BY <2>2, <2>4 DEF SaysOfName, Says, MeansSo
  <2> QED BY <2>5 DEF p, q, m
<1> QED BY <1>1, GraphInvHolds, PTL

-----------------------------------------------------------------------------
(***************************************************************************)
(* How far the recursive query has come after m rounds does not depend on  *)
(* the rows it keeps, nor on its limit: the keys that are m links or less  *)
(* away.                                                                   *)
(***************************************************************************)
Wider(K) == K \cup {Target(t) : t \in {t \in Live : /\ t.subjectRelation # None
                                                   /\ Key(t.object, t.relation) \in K}}

KeysWithin(rs, m) == {q.key : q \in {q \in rs : q.depth <= m}}

LEMMA WiderIsTyped ==
    ASSUME GraphInv, NEW K \in SUBSET Keys
    PROVE  Wider(K) \in SUBSET Keys /\ K \subseteq Wider(K)
BY TargetIsKey DEF Wider

LEMMA NextKeys ==
    ASSUME GraphInv, NEW start \in Keys, NEW maxDepth \in Nat, NEW n \in Nat, n < maxDepth,
           NEW r, GoodRound(r, start, n, maxDepth),
           NEW next \in DistinctOn(Joined(r.level, maxDepth))
    PROVE  /\ KeysOf(r.rows \cup next) = Wider(KeysOf(r.rows))
           /\ \A x \in next : x.depth = n + 1
<1>1. next \subseteq Joined(r.level, maxDepth) /\ KeysOf(next) = KeysOf(Joined(r.level, maxDepth))
  BY KeptRows
<1>2. KeysOf(r.rows \cup next) = KeysOf(r.rows) \cup KeysOf(next)
  BY DEF KeysOf
<1>3. \A q \in r.rows : /\ GoodRow(q, start, r.rows, n, maxDepth)
                        /\ q \in r.level \/ q.depth < n
                        /\ q.depth < n => Followed1(q, r.rows)
                        /\ q.key \in Keys
  BY DEF GoodRound, GoodRow
<1>4. ASSUME NEW x \in next
      PROVE  x.depth = n + 1 /\ x.key \in Wider(KeysOf(r.rows))
  <2>1. x \in Joined(r.level, maxDepth)
    BY <1>1
  <2>2. PICK m \in r.level : \E t \in Live :
          /\ Extends(t, m, maxDepth)
          /\ x.key = Target(t) /\ x.depth = m.depth + 1 /\ x.path = Append(m.path, Target(t))
    BY <2>1, JoinedRows
  <2>3. PICK t \in Live : Extends(t, m, maxDepth) /\ x.key = Target(t) /\ x.depth = m.depth + 1
    BY <2>2
  <2>4. m \in r.rows /\ m.depth = n
    BY DEF GoodRound
  <2>5. t.subjectRelation # None /\ Key(t.object, t.relation) = m.key
    BY <1>3, <2>3, <2>4, OnKeyIsKey DEF Extends
  <2>6. Key(t.object, t.relation) \in KeysOf(r.rows)
    BY <2>4, <2>5 DEF KeysOf
  <2> QED BY <2>3, <2>4, <2>5, <2>6 DEF Wider
<1>5. ASSUME NEW t \in Live, t.subjectRelation # None, Key(t.object, t.relation) \in KeysOf(r.rows)
      PROVE  Target(t) \in KeysOf(r.rows \cup next)
  <2>1. PICK q \in r.rows : q.key = Key(t.object, t.relation)
    BY <1>5 DEF KeysOf
  <2>2. OnKey(t, q.key)
    BY <2>1, KeyParts DEF OnKey
  <2>3. CASE q.depth < n
    BY <1>2, <1>3, <1>5, <2>2, <2>3 DEF Followed1
  <2>4. CASE ~(q.depth < n)
    <3>1. q \in r.level /\ q.depth = n
      BY <1>3, <2>4 DEF GoodRound
    <3>2. CASE Target(t) \in Range(q.path)
      <4>1. q.path \in Seq(KeysOf(r.rows))
        BY <1>3 DEF GoodRow
      <4>2. Range(q.path) \subseteq KeysOf(r.rows)
        BY <4>1, PathKeys
      <4> QED BY <1>2, <3>2, <4>2
    <3>3. CASE Target(t) \notin Range(q.path)
      <4>1. Extends(t, q, maxDepth)
        BY <1>5, <2>2, <3>1, <3>3 DEF Extends
      <4>2. Target(t) \in KeysOf(Joined(r.level, maxDepth))
        BY <3>1, <4>1, JoinedKeys
      <4> QED BY <1>1, <1>2, <4>2
    <3> QED BY <3>2, <3>3
  <2> QED BY <2>3, <2>4
<1>6. KeysOf(r.rows \cup next) \subseteq Wider(KeysOf(r.rows))
  <2>1. KeysOf(next) \subseteq Wider(KeysOf(r.rows))
    BY <1>4 DEF KeysOf
  <2> QED BY <1>2, <2>1 DEF Wider
<1>7. Wider(KeysOf(r.rows)) \subseteq KeysOf(r.rows \cup next)
  BY <1>2, <1>5 DEF Wider
<1> QED BY <1>4, <1>6, <1>7

\* What n rounds have read.
Spreads(rs, start, n) ==
  /\ KeysWithin(rs, 0) = {start}
  /\ \A m \in 1..n : KeysWithin(rs, m) = Wider(KeysWithin(rs, m - 1))

LEMMA RoundsSpread ==
    ASSUME GraphInv, NEW start \in Keys, NEW maxDepth \in Nat, NEW n \in 0..maxDepth
    PROVE  \A r \in Rounds({StartRow(start)}, maxDepth)[n] : Spreads(r.rows, start, n)
<1> DEFINE at(k) == Rounds({StartRow(start)}, maxDepth)[k]
           Good == {k \in 0..maxDepth : \A r \in at(k) : Spreads(r.rows, start, k)}
<1>1. \A k \in Nat : at(k) = RoundsStep({StartRow(start)}, maxDepth, k, at(k - 1))
  BY RoundsUnfolds
<1>2. \A k \in 0..maxDepth : \A r \in at(k) : GoodRound(r, start, k, maxDepth)
  BY RoundsAreGood
<1> HIDE DEF at
<1>3. 0 \in Good
  <2>1. at(0) = {[rows |-> {StartRow(start)}, level |-> {StartRow(start)}]}
    BY <1>1 DEF RoundsStep
  <2>2. KeysWithin({StartRow(start)}, 0) = {start}
    <3> DEFINE q == StartRow(start)
    <3>1. q.key = start /\ q.depth = 0
      BY DEF StartRow
    <3> HIDE DEF q
    <3>2. KeysWithin({q}, 0) = {start}
      BY <3>1 DEF KeysWithin
    <3> QED BY <3>2 DEF q
  <2>3. ASSUME NEW r \in at(0) PROVE Spreads(r.rows, start, 0)
    <3>1. r.rows = {StartRow(start)}
      BY <2>1
    <3> QED BY <2>2, <3>1 DEF Spreads
  <2>4. 0 \in 0..maxDepth
    OBVIOUS
  <2> QED BY <2>3, <2>4
<1>4. ASSUME NEW k \in 1..maxDepth, k - 1 \in Good PROVE k \in Good
  <2>1. at(k) = UNION {{[rows |-> r.rows \cup next, level |-> next] :
                          next \in DistinctOn(Joined(r.level, maxDepth))} : r \in at(k - 1)}
    BY <1>1 DEF RoundsStep
  <2>2. ASSUME NEW x \in at(k) PROVE Spreads(x.rows, start, k)
    <3>1. PICK r \in at(k - 1) : x \in {[rows |-> r.rows \cup next, level |-> next] :
                                          next \in DistinctOn(Joined(r.level, maxDepth))}
      BY <2>1
    <3>2. PICK next \in DistinctOn(Joined(r.level, maxDepth)) :
             x = [rows |-> r.rows \cup next, level |-> next]
      BY <3>1
    <3>3. /\ k - 1 \in Nat /\ k - 1 \in 0..maxDepth /\ k - 1 < maxDepth /\ k - 1 + 1 = k
          /\ Spreads(r.rows, start, k - 1)
      BY <1>4
    <3>4. GoodRound(r, start, k - 1, maxDepth)
      BY <1>2, <3>3
    <3>5. x.rows = r.rows \cup next
      BY <3>2
    <3>6. KeysOf(x.rows) = Wider(KeysOf(r.rows)) /\ \A y \in next : y.depth = k
      BY <3>3, <3>4, <3>5, NextKeys
    <3>7. \A q \in r.rows : q.depth \in Nat /\ q.depth <= k - 1
      BY <3>4 DEF GoodRound, GoodRow
    <3>8. KeysOf(r.rows) = KeysWithin(r.rows, k - 1)
      BY <3>7 DEF KeysOf, KeysWithin
    <3>9. ASSUME NEW m \in 0..(k - 1) PROVE KeysWithin(x.rows, m) = KeysWithin(r.rows, m)
      <4>1. \A y \in next : ~(y.depth <= m)
        BY <3>6
      <4> QED BY <3>5, <4>1 DEF KeysWithin
    <3>10. KeysWithin(x.rows, k) = KeysOf(x.rows)
      <4>1. \A q \in x.rows : q.depth <= k
        BY <3>5, <3>6, <3>7
      <4> QED BY <4>1 DEF KeysWithin, KeysOf
    <3>11. KeysWithin(x.rows, k) = Wider(KeysWithin(x.rows, k - 1))
      <4>1. k - 1 \in 0..(k - 1)
        OBVIOUS
      <4>2. KeysWithin(x.rows, k - 1) = KeysWithin(r.rows, k - 1)
        BY <3>9, <4>1
      <4> QED BY <3>6, <3>8, <3>10, <4>2
    <3>12. ASSUME NEW m \in 1..k PROVE KeysWithin(x.rows, m) = Wider(KeysWithin(x.rows, m - 1))
      <4>1. CASE m = k
        BY <3>11, <4>1
      <4>2. CASE m # k
        <5>1. m \in 1..(k - 1) /\ m \in 0..(k - 1) /\ m - 1 \in 0..(k - 1)
          BY <4>2
        <5>2. KeysWithin(r.rows, m) = Wider(KeysWithin(r.rows, m - 1))
          BY <3>3, <5>1 DEF Spreads
        <5> QED BY <3>9, <5>1, <5>2
      <4> QED BY <4>1, <4>2
    <3>13. KeysWithin(x.rows, 0) = {start}
      <4>1. 0 \in 0..(k - 1)
        BY <3>3
      <4>2. KeysWithin(r.rows, 0) = {start}
        BY <3>3 DEF Spreads
      <4> QED BY <3>9, <4>1, <4>2
    <3> QED BY <3>12, <3>13 DEF Spreads
  <2> QED BY <2>2
<1>5. 0..maxDepth \subseteq Good
  <2> HIDE DEF Good
  <2> QED BY <1>3, <1>4, Along
<1> QED BY <1>5 DEF at

LEMMA SameSpread ==
    ASSUME NEW rs, NEW other, NEW start, NEW n \in Nat, Spreads(rs, start, n), Spreads(other, start, n)
    PROVE  \A m \in 0..n : KeysWithin(rs, m) = KeysWithin(other, m)
<1> DEFINE Good == {m \in 0..n : KeysWithin(rs, m) = KeysWithin(other, m)}
<1>1. 0 \in Good
  BY DEF Spreads
<1>2. ASSUME NEW m \in 1..n, m - 1 \in Good PROVE m \in Good
  BY <1>2 DEF Spreads
<1>3. 0..n \subseteq Good
  <2> HIDE DEF Good
  <2> QED BY <1>1, <1>2, Along
<1> QED BY <1>3

\* A result of the query, with all that is known of it.
SpreadResult(rs, start, maxDepth) == GoodResult(rs, start, maxDepth) /\ Spreads(rs, start, maxDepth)

LEMMA ResultsSpread ==
    ASSUME GraphInv, NEW object \in Entity, NEW relation \in STRING, NEW maxDepth \in Nat,
           NEW rs \in ReachableFrontiers(object, relation, maxDepth)
    PROVE  SpreadResult(rs, Key(object, relation), maxDepth)
<1> DEFINE last == Rounds({StartRow(Key(object, relation))}, maxDepth)[maxDepth]
<1>1. Key(object, relation) \in Keys
  BY DEF Key, Keys
<1>2. maxDepth \in 0..maxDepth
  OBVIOUS
<1>3. \A r \in last : Spreads(r.rows, Key(object, relation), maxDepth)
  BY <1>1, <1>2, RoundsSpread
<1>4. PICK r \in last : rs = r.rows
  BY DEF ReachableFrontiers
<1>5. GoodResult(rs, Key(object, relation), maxDepth)
  BY ResultsAreGood
<1> QED BY <1>3, <1>4, <1>5 DEF SpreadResult

\* The shallowest row of a key is as deep in every result.
LEMMA SameDepths ==
    ASSUME NEW start, NEW maxDepth \in Nat,
           NEW rs, SpreadResult(rs, start, maxDepth),
           NEW other, SpreadResult(other, start, maxDepth),
           NEW q \in DedupeFrontier(rs)
    PROVE  \E r \in DedupeFrontier(other) : r.key = q.key /\ r.depth = q.depth
<1>1. \A m \in 0..maxDepth : KeysWithin(rs, m) = KeysWithin(other, m)
  BY SameSpread DEF SpreadResult
<1>2. q \in rs /\ \A p \in rs : p.key = q.key => q.depth <= p.depth
  BY DEF DedupeFrontier
<1>3. q.depth \in 0..maxDepth
  BY <1>2, RowDepths DEF SpreadResult
<1>4. q.key \in KeysWithin(rs, q.depth)
  BY <1>2, <1>3 DEF KeysWithin
<1>5. PICK p \in other : p.key = q.key /\ p.depth <= q.depth
  BY <1>1, <1>3, <1>4 DEF KeysWithin
<1>6. PICK r \in DedupeFrontier(other) : r.key = p.key
  BY ShallowestRow DEF SpreadResult
<1>7. r \in other /\ r.depth <= p.depth
  BY <1>6 DEF DedupeFrontier
<1>8. r.depth \in 0..maxDepth
  BY <1>7, RowDepths DEF SpreadResult
<1>9. r.key \in KeysWithin(other, r.depth)
  BY <1>7, <1>8 DEF KeysWithin
<1>10. PICK s \in rs : s.key = r.key /\ s.depth <= r.depth
  BY <1>1, <1>8, <1>9 DEF KeysWithin
<1>11. q.depth <= s.depth
  BY <1>2, <1>5, <1>6, <1>10
<1>12. s.depth \in Nat /\ p.depth \in Nat
  BY RowDepths DEF SpreadResult
<1> QED BY <1>3, <1>5, <1>6, <1>7, <1>8, <1>10, <1>11, <1>12

KeyDepths(frontier) == {<<r.key, r.depth>> : r \in frontier}

LEMMA SameDecisions ==
    ASSUME NEW frontier, NEW other, NEW subject, NEW maxDepth,
           \A q \in frontier : \E r \in other : r.key = q.key /\ r.depth = q.depth,
           \A r \in other : \E q \in frontier : q.key = r.key /\ q.depth = r.depth
    PROVE  /\ KeyDepths(frontier) = KeyDepths(other)
           /\ TuplesOnFrontier(frontier) = TuplesOnFrontier(other)
           /\ Granted(frontier, subject) <=> Granted(other, subject)
           /\ Cut(frontier, maxDepth) <=> Cut(other, maxDepth)
<1>1. KeyDepths(frontier) = KeyDepths(other)
  BY DEF KeyDepths
<1>2. TuplesOnFrontier(frontier) = TuplesOnFrontier(other)
  BY DEF TuplesOnFrontier
<1>3. Granted(frontier, subject) <=> Granted(other, subject)
  BY DEF Granted, Grants
<1>4. Cut(frontier, maxDepth) <=> Cut(other, maxDepth)
  BY DEF Cut
<1> QED BY <1>1, <1>2, <1>3, <1>4

LEMMA SameFinding ==
    ASSUME GraphInv, NEW s, NEW k \in Pairs, Declares(k[1].ns, k[2]), NEW d \in Nat,
           NEW rs \in ReachableFrontiers(k[1], k[2], d), NEW other \in ReachableFrontiers(k[1], k[2], d)
    PROVE  Finding(rs, s, k, d) = Finding(other, s, k, d)
<1>1. k[1] \in Entity /\ k[2] \in STRING
  BY PairKinds DEF GraphInv
<1> DEFINE start == Key(k[1], k[2])
<1>2. SpreadResult(rs, start, d) /\ SpreadResult(other, start, d)
  BY <1>1, ResultsSpread
<1> HIDE DEF start
<1>3. /\ \A q \in DedupeFrontier(rs) : \E r \in DedupeFrontier(other) : r.key = q.key /\ r.depth = q.depth
      /\ \A r \in DedupeFrontier(other) : \E q \in DedupeFrontier(rs) : q.key = r.key /\ q.depth = r.depth
  BY <1>2, SameDepths
<1> DEFINE F == DedupeFrontier(rs)
           G == DedupeFrontier(other)
<1>4. /\ KeyDepths(F) = KeyDepths(G)
      /\ TuplesOnFrontier(F) = TuplesOnFrontier(G)
      /\ Granted(F, s) <=> Granted(G, s)
      /\ Cut(F, d) <=> Cut(G, d)
  <2> HIDE DEF F, G
  <2> QED BY <1>3, SameDecisions DEF F, G
<1>5. (~Cut(F, d)) = (~Cut(G, d))
  BY <1>4 DEF Cut
<1> DEFINE v(f) == Verdict(OutcomeOfRows(f, k[1], k[2], s, d))
           t(f) == TuplesOnFrontier(f) \cap Expiring # {}
<1>6. /\ v(rs) = IF Granted(F, s) THEN <<TRUE, TRUE, t(F)>> ELSE <<FALSE, ~Cut(F, d), t(F)>>
      /\ v(other) = IF Granted(G, s) THEN <<TRUE, TRUE, t(G)>> ELSE <<FALSE, ~Cut(G, d), t(G)>>
  BY <1>2, VerdictOfRows DEF SpreadResult
<1>7. t(F) = t(G)
  <2> HIDE DEF F, G
  <2> QED BY <1>4
<1> HIDE DEF t, F, G, v
<1>8. v(rs) = v(other)
  <2> DEFINE c(f) == ~Cut(f, d)
  <2>1. c(F) = c(G)
    BY <1>5
  <2>2. /\ v(rs) = IF Granted(F, s) THEN <<TRUE, TRUE, t(F)>> ELSE <<FALSE, c(F), t(F)>>
        /\ v(other) = IF Granted(G, s) THEN <<TRUE, TRUE, t(G)>> ELSE <<FALSE, c(G), t(G)>>
    BY <1>6
  <2> HIDE DEF c
  <2>3. CASE Granted(F, s)
    BY <1>4, <1>7, <2>2, <2>3
  <2>4. CASE ~Granted(F, s)
    BY <1>4, <1>7, <2>1, <2>2, <2>4
  <2> QED BY <2>3, <2>4
<1> QED BY <1>4, <1>8 DEF Finding, KeyDepths, F, G, v

-----------------------------------------------------------------------------
\* Whatever rows "distinct on" keeps, the recursive query of a relation finds the same keys
\* at the same depths, and the relation has one answer.
THEOREM KeptRowsDoNotShow == GraphSpec => []AnyRowsSameAnswer
<1>1. GraphInv => AnyRowsSameAnswer
  <2> SUFFICES ASSUME GraphInv, NEW s \in Subjects, NEW k \in Pairs, Declares(k[1].ns, k[2]),
                      NEW d \in Depths
               PROVE  Cardinality({Finding(rs, s, k, d) : rs \in ReachableFrontiers(k[1], k[2], d)}) = 1
    BY DEF AnyRowsSameAnswer
  <2>1. d \in Nat /\ k[1] \in Entity /\ k[2] \in STRING
    BY DepthsAssumption, PairKinds DEF GraphInv
  <2>2. PICK first \in ReachableFrontiers(k[1], k[2], d) : TRUE
    BY <2>1, ResultsAreGood
  <2>3. \A rs \in ReachableFrontiers(k[1], k[2], d) : Finding(rs, s, k, d) = Finding(first, s, k, d)
    BY <2>1, SameFinding
  <2>4. {Finding(rs, s, k, d) : rs \in ReachableFrontiers(k[1], k[2], d)} = {Finding(first, s, k, d)}
    BY <2>2, <2>3
  <2> QED BY <2>4, FS_Singleton
<1> QED BY <1>1, GraphInvHolds, PTL

-----------------------------------------------------------------------------
(***************************************************************************)
(* Two walks of one question, the second with the larger limit.            *)
(***************************************************************************)
\* What the first has decided, the second decides as well, and the same way.
Kept(o, p) ==
  /\ o.allowed \in BOOLEAN /\ p.allowed \in BOOLEAN
  /\ o.allowed => p.allowed /\ p.certain
  /\ ~o.allowed /\ o.certain => ~p.allowed /\ p.certain

LEMMA AllowedKept ==
    ASSUME NEW x, NEW y, NEW v, NEW w
    PROVE  Kept(Allowed(x, y), Allowed(v, w))
BY DEF Kept, Allowed

LEMMA DeniedKept ==
    ASSUME NEW c, NEW x, NEW y, NEW e, NEW v, NEW w, c => e
    PROVE  Kept(Denied(c, x, y), Denied(e, v, w))
BY DEF Kept, Denied

LEMMA UndecidedKept ==
    ASSUME NEW c, NEW x, NEW y, NEW p, ~c, p.allowed \in BOOLEAN
    PROVE  Kept(Denied(c, x, y), p)
BY DEF Kept, Denied

LEMMA OutcomesAreBoolean ==
    ASSUME NEW c, NEW x, NEW y
    PROVE  Denied(c, x, y).allowed \in BOOLEAN /\ Allowed(x, y).allowed \in BOOLEAN
BY DEF Denied, Allowed

LEMMA UnionKept ==
    ASSUME NEW object, NEW f, NEW g, Len(f) \in Nat, DOMAIN f = 1..Len(f),
           Len(g) \in Nat, DOMAIN g = 1..Len(g), DOMAIN f = DOMAIN g,
           \A i \in DOMAIN f : Kept(f[i], g[i])
    PROVE  Kept(OfUnion(object, f), OfUnion(object, g))
<1> DEFINE i == SelectInSeq(f, LAMBDA o : o.allowed)
           j == SelectInSeq(g, LAMBDA o : o.allowed)
           cf == \A n \in DOMAIN f : f[n].certain
           cg == \A n \in DOMAIN g : g[n].certain
<1>1. /\ i # 0 => i \in DOMAIN f /\ f[i].allowed
      /\ i = 0 => \A n \in DOMAIN f : ~f[n].allowed
  BY FirstAllowed
<1>2. /\ j # 0 => j \in DOMAIN g /\ g[j].allowed
      /\ j = 0 => \A n \in DOMAIN g : ~g[n].allowed
  BY FirstAllowed
<1>3. /\ i # 0 => \E x, y : OfUnion(object, f) = Allowed(x, y)
      /\ i = 0 => \E x, y : OfUnion(object, f) = Denied(cf, x, y)
      /\ j # 0 => \E x, y : OfUnion(object, g) = Allowed(x, y)
      /\ j = 0 => \E x, y : OfUnion(object, g) = Denied(cg, x, y)
  BY DEF OfUnion
<1> HIDE DEF i, j, cf, cg
<1>4. CASE i # 0
  <2>1. j # 0
    BY <1>1, <1>2, <1>4 DEF Kept
  <2> QED BY <1>3, <1>4, <2>1, AllowedKept
<1>5. CASE i = 0
  <2>1. PICK x, y : OfUnion(object, f) = Denied(cf, x, y)
    BY <1>3, <1>5
  <2>2. CASE cf
    <3>1. \A n \in DOMAIN f : ~g[n].allowed /\ g[n].certain
      BY <1>1, <1>5, <2>2 DEF Kept, cf
    <3>2. j = 0 /\ cg
      BY <1>2, <3>1 DEF cg
    <3>3. PICK v, w : OfUnion(object, g) = Denied(cg, v, w)
      BY <1>3, <3>2
    <3>4. cf => cg
      BY <3>2
    <3> QED BY <2>1, <3>3, <3>4, DeniedKept
  <2>3. CASE ~cf
    <3>1. OfUnion(object, g).allowed \in BOOLEAN
      BY <1>3, OutcomesAreBoolean
    <3> QED BY <2>1, <2>3, <3>1, UndecidedKept
  <2> QED BY <2>2, <2>3
<1> QED BY <1>4, <1>5

\* The first branch that denies is the first.
LEMMA NoneDeniedBefore ==
    ASSUME NEW f, Len(f) \in Nat, DOMAIN f = 1..Len(f),
           NEW first, first = SelectInSeq(f, LAMBDA o : ~o.allowed), NEW i \in DOMAIN f, i < first
    PROVE  f[i].allowed
<1> DEFINE I == {n \in 1..Len(f) : ~f[n].allowed}
<1>1. first = IF I # {} THEN Min(I) ELSE 0
  BY DEF SelectInSeq
<1>2. I \subseteq Nat
  OBVIOUS
<1>3. ASSUME i \in I PROVE FALSE
  <2>1. PICK m \in I : \A n \in I : m <= n
    <3> HIDE DEF I
    <3> QED BY <1>2, <1>3, LeastNumber
  <2>2. Min(I) \in I /\ \A n \in I : Min(I) <= n
    <3> HIDE DEF I
    <3> QED BY <2>1 DEF Min
  <2>3. first \in Nat /\ first <= i
    <3> HIDE DEF I
    <3> QED BY <1>1, <1>2, <1>3, <2>2
  <2>4. i \in Nat
    OBVIOUS
  <2> QED BY <2>3, <2>4
<1> QED BY <1>3

LEMMA IntersectionKept ==
    ASSUME NEW object, NEW f, NEW g, Len(f) \in Nat, DOMAIN f = 1..Len(f),
           Len(g) \in Nat, DOMAIN g = 1..Len(g), DOMAIN f = DOMAIN g,
           \A i \in DOMAIN f : Kept(f[i], g[i])
    PROVE  Kept(OfIntersection(object, f), OfIntersection(object, g))
<1> DEFINE i == SelectInSeq(f, LAMBDA o : ~o.allowed)
           j == SelectInSeq(g, LAMBDA o : ~o.allowed)
<1>1. /\ i # 0 => i \in DOMAIN f /\ ~f[i].allowed
      /\ i = 0 => \A n \in DOMAIN f : f[n].allowed
      /\ \A n \in DOMAIN f : n < i => f[n].allowed
  BY FirstDenied, NoneDeniedBefore
<1>2. /\ j # 0 => j \in DOMAIN g /\ ~g[j].allowed
      /\ j = 0 => \A n \in DOMAIN g : g[n].allowed
      /\ \A n \in DOMAIN g : n < j => g[n].allowed
  BY FirstDenied, NoneDeniedBefore
<1>3. /\ i = 0 => \E x, y : OfIntersection(object, f) = Allowed(x, y)
      /\ i # 0 => \E x, y : OfIntersection(object, f) = Denied(f[i].certain, x, y)
      /\ j = 0 => \E x, y : OfIntersection(object, g) = Allowed(x, y)
      /\ j # 0 => \E x, y : OfIntersection(object, g) = Denied(g[j].certain, x, y)
  BY DEF OfIntersection
<1> HIDE DEF i, j
<1>4. CASE i = 0
  <2>1. j = 0
    BY <1>1, <1>2, <1>4 DEF Kept
  <2> QED BY <1>3, <1>4, <2>1, AllowedKept
<1>5. CASE i # 0
  <2>1. PICK x, y : OfIntersection(object, f) = Denied(f[i].certain, x, y)
    BY <1>3, <1>5
  <2>2. CASE f[i].certain
    <3>1. ~g[i].allowed /\ g[i].certain
      BY <1>1, <1>5, <2>2 DEF Kept
    <3>2. \A n \in DOMAIN g : n < i => g[n].allowed
      BY <1>1 DEF Kept
    <3>3. j # 0 /\ j \in DOMAIN g
      BY <1>1, <1>2, <1>5, <3>1
    <3>4. ~(j < i) /\ ~(i < j)
      BY <1>1, <1>2, <1>5, <3>1, <3>2, <3>3
    <3>5. i \in Nat /\ j \in Nat
      BY <1>1, <1>5, <3>3
    <3>6. i = j
      BY <3>4, <3>5
    <3>7. PICK v, w : OfIntersection(object, g) = Denied(g[i].certain, v, w)
      BY <1>3, <3>3, <3>6
    <3> QED BY <2>1, <3>1, <3>7, DeniedKept
  <2>3. CASE ~f[i].certain
    <3>1. OfIntersection(object, g).allowed \in BOOLEAN
      BY <1>3, OutcomesAreBoolean
    <3> QED BY <2>1, <2>3, <3>1, UndecidedKept
  <2> QED BY <2>2, <2>3
<1> QED BY <1>4, <1>5

LEMMA ExclusionKept ==
    ASSUME NEW object, NEW b, NEW s, NEW c, NEW t, Kept(b, c), Kept(s, t)
    PROVE  Kept(OfExclusion(object, b, s), OfExclusion(object, c, t))
<1>1. OfExclusion(object, c, t).allowed \in BOOLEAN
  BY OutcomesAreBoolean DEF OfExclusion
<1>2. /\ ~b.allowed => \E x, y : OfExclusion(object, b, s) = Denied(b.certain, x, y)
      /\ b.allowed /\ s.allowed => \E x, y : OfExclusion(object, b, s) = Denied(TRUE, x, y)
      /\ b.allowed /\ ~s.allowed /\ ~s.certain
           => \E x, y : OfExclusion(object, b, s) = Denied(FALSE, x, y)
      /\ b.allowed /\ ~s.allowed /\ s.certain => \E x, y : OfExclusion(object, b, s) = Allowed(x, y)
  BY DEF OfExclusion
<1>3. /\ ~c.allowed => \E x, y : OfExclusion(object, c, t) = Denied(c.certain, x, y)
      /\ c.allowed /\ t.allowed => \E x, y : OfExclusion(object, c, t) = Denied(TRUE, x, y)
      /\ c.allowed /\ ~t.allowed /\ t.certain => \E x, y : OfExclusion(object, c, t) = Allowed(x, y)
  BY DEF OfExclusion
<1>4. CASE ~b.allowed /\ ~b.certain
  BY <1>1, <1>2, <1>4, UndecidedKept
<1>5. CASE ~b.allowed /\ b.certain
  <2>1. ~c.allowed /\ c.certain
    BY <1>5 DEF Kept
  <2>2. PICK x, y : OfExclusion(object, b, s) = Denied(b.certain, x, y)
    BY <1>2, <1>5
  <2>3. PICK v, w : OfExclusion(object, c, t) = Denied(c.certain, v, w)
    BY <1>3, <2>1
  <2> QED BY <2>1, <2>2, <2>3, DeniedKept
<1>6. CASE b.allowed /\ s.allowed
  <2>1. c.allowed /\ t.allowed
    BY <1>6 DEF Kept
  <2>2. PICK x, y : OfExclusion(object, b, s) = Denied(TRUE, x, y)
    BY <1>2, <1>6
  <2>3. PICK v, w : OfExclusion(object, c, t) = Denied(TRUE, v, w)
    BY <1>3, <2>1
  <2> QED BY <2>2, <2>3, DeniedKept
<1>7. CASE b.allowed /\ ~s.allowed /\ ~s.certain
  BY <1>1, <1>2, <1>7, UndecidedKept
<1>8. CASE b.allowed /\ ~s.allowed /\ s.certain
  <2>1. c.allowed /\ ~t.allowed /\ t.certain
    BY <1>8 DEF Kept
  <2> QED BY <1>2, <1>3, <1>8, <2>1, AllowedKept
<1> QED BY <1>4, <1>5, <1>6, <1>7, <1>8

\* The members of the one set are those of the other, under the larger limit.
MembersKept(ms, ns) ==
  /\ \A m \in ms : \E n \in ns : Kept(m.outcome, n.outcome)
  /\ \A n \in ns : \E m \in ms : Kept(m.outcome, n.outcome)

LEMMA LinkKept ==
    ASSUME NEW object, NEW rule, NEW u, NEW v, NEW ms, NEW ns, MembersKept(ms, ns)
    PROVE  Kept(OfTupleToUserset(object, rule, u, ms), OfTupleToUserset(object, rule, v, ns))
<1> DEFINE pm == {m \in ms : m.outcome.allowed}
           pn == {m \in ns : m.outcome.allowed}
           cm == \A m \in ms : m.outcome.certain
           cn == \A m \in ns : m.outcome.certain
<1>1. /\ pm # {} => \E x, y : OfTupleToUserset(object, rule, u, ms) = Allowed(x, y)
      /\ pm = {} => \E x, y : OfTupleToUserset(object, rule, u, ms) = Denied(cm, x, y)
  BY DEF OfTupleToUserset
<1>2. /\ pn # {} => \E x, y : OfTupleToUserset(object, rule, v, ns) = Allowed(x, y)
      /\ pn = {} => \E x, y : OfTupleToUserset(object, rule, v, ns) = Denied(cn, x, y)
  BY DEF OfTupleToUserset
<1>3. pm # {} => pn # {}
  BY DEF MembersKept, Kept
<1>4. pm = {} /\ cm => pn = {} /\ cn
  BY DEF MembersKept, Kept
<1> HIDE DEF pm, pn, cm, cn
<1>5. CASE pm # {}
  BY <1>1, <1>2, <1>3, <1>5, AllowedKept
<1>6. CASE pm = {} /\ cm
  <2>1. PICK x, y : OfTupleToUserset(object, rule, u, ms) = Denied(cm, x, y)
    BY <1>1, <1>6
  <2>2. PICK a, b : OfTupleToUserset(object, rule, v, ns) = Denied(cn, a, b)
    BY <1>2, <1>4, <1>6
  <2>3. cm => cn
    BY <1>4, <1>6
  <2> QED BY <2>1, <2>2, <2>3, DeniedKept
<1>7. CASE pm = {} /\ ~cm
  <2>1. OfTupleToUserset(object, rule, v, ns).allowed \in BOOLEAN
    BY <1>2, OutcomesAreBoolean
  <2> QED BY <1>1, <1>7, <2>1, UndecidedKept
<1> QED BY <1>5, <1>6, <1>7

\* Two results of the recursive query, the second with the larger limit.
LEMMA RowsKept ==
    ASSUME GraphInv, NEW subject, NEW object, NEW relation, NEW start,
           NEW K \in Nat, NEW L \in Nat, K <= L,
           NEW rs, SpreadResult(rs, start, K), NEW other, SpreadResult(other, start, L)
    PROVE  Kept(OutcomeOfRows(rs, object, relation, subject, K),
                OutcomeOfRows(other, object, relation, subject, L))
<1> DEFINE F == DedupeFrontier(rs)
           G == DedupeFrontier(other)
           o == OutcomeOfRows(rs, object, relation, subject, K)
           p == OutcomeOfRows(other, object, relation, subject, L)
<1>1. GoodResult(rs, start, K) /\ GoodResult(other, start, L)
  BY DEF SpreadResult
<1>2. /\ KeysOf(rs) = KeysWithin(rs, K)
      /\ KeysOf(other) = KeysWithin(other, L)
      /\ KeysWithin(other, K) \subseteq KeysOf(other)
  <2>1. \A q \in rs : q.depth <= K
    BY <1>1, RowDepths
  <2>2. \A q \in other : q.depth <= L
    BY <1>1, RowDepths
  <2> QED BY <2>1, <2>2 DEF KeysOf, KeysWithin
<1>3. KeysOf(rs) = KeysWithin(other, K)
  <2>1. Spreads(other, start, K)
    <3>1. \A m \in 1..K : m \in 1..L
      OBVIOUS
    <3> QED BY <3>1 DEF SpreadResult, Spreads
  <2>2. K \in 0..K
    OBVIOUS
  <2>3. KeysWithin(rs, K) = KeysWithin(other, K)
    BY <2>1, <2>2, SameSpread DEF SpreadResult
  <2> QED BY <1>2, <2>3
<1>4. /\ Granted(F, subject) => o.allowed /\ o.certain
      /\ ~Granted(F, subject) => ~o.allowed /\ (o.certain <=> ~Cut(F, K))
      /\ o.allowed \in BOOLEAN
  BY <1>1, DecisionOfRows
<1>5. /\ Granted(G, subject) => p.allowed /\ p.certain
      /\ ~Granted(G, subject) => ~p.allowed /\ (p.certain <=> ~Cut(G, L))
      /\ p.allowed \in BOOLEAN
  BY <1>1, DecisionOfRows
<1>6. /\ Granted(F, subject) <=> \E r \in rs, t \in Live : Grants(t, r, subject)
      /\ Granted(G, subject) <=> \E r \in other, t \in Live : Grants(t, r, subject)
  BY <1>1, GrantedByRow
<1> HIDE DEF F, G, o, p
<1>7. ASSUME Granted(F, subject) PROVE Granted(G, subject)
  <2>1. PICK r \in rs, t \in Live : Grants(t, r, subject)
    BY <1>6, <1>7
  <2>2. r.key \in KeysOf(other)
    BY <1>2, <1>3 DEF KeysOf
  <2>3. PICK q \in other : q.key = r.key
    BY <2>2 DEF KeysOf
  <2>4. Grants(t, q, subject)
    BY <2>1, <2>3 DEF Grants
  <2> QED BY <1>6, <2>4
<1>8. ASSUME ~Granted(F, subject), ~Cut(F, K)
      PROVE  ~Granted(G, subject) /\ ~Cut(G, L)
  <2>1. Wider(KeysOf(rs)) = KeysOf(rs)
    <3>1. ASSUME NEW t \in Live, t.subjectRelation # None,
                 Key(t.object, t.relation) \in KeysOf(rs)
          PROVE  Target(t) \in KeysOf(rs)
      <4>1. PICK r \in rs : r.key = Key(t.object, t.relation)
        BY <3>1 DEF KeysOf
      <4>2. OnKey(t, r.key)
        BY <4>1, KeyParts DEF OnKey
      <4>3. Followed1(r, rs)
        BY <1>1, <1>8, UncutIsFollowed DEF F
      <4> QED BY <3>1, <4>2, <4>3 DEF Followed1
    <3> QED BY <3>1 DEF Wider
  <2> DEFINE Good == {m \in 0..(L - K) : KeysWithin(other, K + m) = KeysOf(rs)}
  <2>2. 0 \in Good
    BY <1>3
  <2>3. ASSUME NEW m \in 1..(L - K), m - 1 \in Good PROVE m \in Good
    <3>1. K + m \in 1..L /\ K + m - 1 = K + (m - 1)
      OBVIOUS
    <3>2. KeysWithin(other, K + m) = Wider(KeysWithin(other, K + m - 1))
      BY <3>1 DEF SpreadResult, Spreads
    <3>3. KeysWithin(other, K + (m - 1)) = KeysOf(rs)
      BY <2>3
    <3>4. KeysWithin(other, K + m) = KeysOf(rs)
      BY <2>1, <3>1, <3>2, <3>3
    <3> QED BY <3>4
  <2>4. L - K \in Nat /\ L - K \in 0..(L - K) /\ K + (L - K) = L
    OBVIOUS
  <2>5. L - K \in Good
    <3>1. 0..(L - K) \subseteq Good
      <4> HIDE DEF Good
      <4> QED BY <2>2, <2>3, <2>4, Along
    <3> HIDE DEF Good
    <3> QED BY <2>4, <3>1
  <2>6. KeysOf(other) = KeysOf(rs)
    BY <1>2, <2>4, <2>5
  <2> HIDE DEF Good
  <2>7. ~Granted(G, subject)
    <3>1. SUFFICES ASSUME NEW q \in other, NEW t \in Live, Grants(t, q, subject) PROVE FALSE
      BY <1>6
    <3>2. PICK r \in rs : r.key = q.key
      BY <2>6 DEF KeysOf
    <3>3. Grants(t, r, subject)
      BY <3>1, <3>2 DEF Grants
    <3> QED BY <1>6, <1>8, <3>3
  <2>8. ~Cut(G, L)
    <3>1. SUFFICES ASSUME NEW q \in G, NEW t \in Live, OnKey(t, q.key), t.subjectRelation # None,
                          \A x \in G : x.key # Target(t)
                   PROVE  FALSE
      BY DEF Cut
    <3>2. q \in other
      BY DEF G, DedupeFrontier
    <3>3. PICK r \in rs : r.key = q.key
      BY <2>6, <3>2 DEF KeysOf
    <3>4. Target(t) \in KeysOf(other)
      BY <1>1, <1>8, <2>6, <3>1, <3>3, UncutIsFollowed DEF F, Followed1
    <3>5. PICK x \in other : x.key = Target(t)
      BY <3>4 DEF KeysOf
    <3>6. PICK y \in G : y.key = x.key
      BY <1>1, ShallowestRow DEF G
    <3> QED BY <3>1, <3>5, <3>6
  <2> QED BY <2>7, <2>8
<1>9. Kept(o, p)
  BY <1>4, <1>5, <1>7, <1>8 DEF Kept
<1> QED BY <1>9 DEF o, p

LEMMA RelationKept ==
    ASSUME GraphInv, NEW subject, NEW object \in Entity, NEW relation \in STRING,
           NEW K \in Nat, NEW L \in Nat, K <= L
    PROVE  Kept(SqlRelationMembership(object, relation, subject, K),
                SqlRelationMembership(object, relation, subject, L))
<1> DEFINE rs == CHOOSE x \in ReachableFrontiers(object, relation, K) : TRUE
           other == CHOOSE x \in ReachableFrontiers(object, relation, L) : TRUE
<1>1. /\ rs \in ReachableFrontiers(object, relation, K)
      /\ other \in ReachableFrontiers(object, relation, L)
  BY ResultsAreGood
<1>2. /\ SqlRelationMembership(object, relation, subject, K)
           = OutcomeOfRows(rs, object, relation, subject, K)
      /\ SqlRelationMembership(object, relation, subject, L)
           = OutcomeOfRows(other, object, relation, subject, L)
  BY DEF SqlRelationMembership
<1> HIDE DEF rs, other
<1>3. SpreadResult(rs, Key(object, relation), K) /\ SpreadResult(other, Key(object, relation), L)
  BY <1>1, ResultsSpread
<1> QED BY <1>2, <1>3, RowsKept

\* Two walks, of which the second decides all that the first has decided.
KeptWalk(f, g) ==
  \A rule \in AllRewrites, object \in Entities, visited \in SUBSET Keys, depth \in Nat :
    Kept(f[Call(rule, object, visited, depth)], g[Call(rule, object, visited, depth)])

\* What becomes of a name.
Undeclared(o) == \E x, y : o = Denied(TRUE, x, y)
Bounded(o) == \E x, y : o = Denied(FALSE, x, y)

LEMMA ResolveBound ==
    ASSUME NEW subject, NEW below, NEW object, NEW name, NEW visited, NEW depth, NEW maxDepth,
           depth > maxDepth \/ Key(object, name) \in visited
    PROVE  Bounded(Resolve(below, subject, object, name, visited, depth, maxDepth))
BY DEF Resolve, Bounded

LEMMA ResolveRelation ==
    ASSUME NEW subject, NEW below, NEW object, NEW name, NEW visited, NEW depth, NEW maxDepth,
           ~(depth > maxDepth), Key(object, name) \notin visited,
           Declares(object.ns, name)
    PROVE  Resolve(below, subject, object, name, visited, depth, maxDepth)
             = SqlRelationMembership(object, name, subject, maxDepth - depth)
BY DEF Resolve

LEMMA ResolveUndeclared ==
    ASSUME NEW subject, NEW below, NEW object, NEW name, NEW visited, NEW depth, NEW maxDepth,
           ~(depth > maxDepth), Key(object, name) \notin visited,
           ~Declares(object.ns, name), ~Defines(object.ns, name)
    PROVE  Undeclared(Resolve(below, subject, object, name, visited, depth, maxDepth))
BY DEF Resolve, Undeclared

LEMMA ResolveKept ==
    ASSUME GraphInv, NEW subject, NEW f, NEW g, KeptWalk(f, g),
           NEW object \in Entities, NEW name \in STRING, NEW visited \in SUBSET Keys,
           NEW depth \in Nat, NEW K \in Nat, NEW L \in Nat, K <= L
    PROVE  Kept(Resolve(f, subject, object, name, visited, depth, K),
                Resolve(g, subject, object, name, visited, depth, L))
<1> DEFINE o == Resolve(f, subject, object, name, visited, depth, K)
           p == Resolve(g, subject, object, name, visited, depth, L)
           rule == schema[object.ns].permissions[name]
           more == visited \cup {Key(object, name)}
<1>0. /\ o = Resolve(f, subject, object, name, visited, depth, K)
      /\ p = Resolve(g, subject, object, name, visited, depth, L)
  OBVIOUS
<1> HIDE DEF o, p
<1>1. /\ more \in SUBSET Keys
      /\ Defines(object.ns, name) => rule \in AllRewrites
  BY VisitIsTyped DEF GraphInv, IsSchema, Defines
<1>2. ASSUME ~(depth > K), ~(depth > L), Key(object, name) \notin visited
      PROVE  /\ Declares(object.ns, name)
                  => /\ o = SqlRelationMembership(object, name, subject, K - depth)
                     /\ p = SqlRelationMembership(object, name, subject, L - depth)
             /\ ~Declares(object.ns, name) /\ Defines(object.ns, name)
                  => /\ o = f[Call(rule, object, more, depth + 1)]
                     /\ p = g[Call(rule, object, more, depth + 1)]
             /\ ~Declares(object.ns, name) /\ ~Defines(object.ns, name)
                  => Undeclared(o) /\ Undeclared(p)
  <2>1. ASSUME Declares(object.ns, name)
        PROVE  /\ o = SqlRelationMembership(object, name, subject, K - depth)
               /\ p = SqlRelationMembership(object, name, subject, L - depth)
    BY <1>0, <1>2, <2>1, ResolveRelation
  <2>2. ASSUME ~Declares(object.ns, name), Defines(object.ns, name)
        PROVE  /\ o = f[Call(rule, object, more, depth + 1)]
               /\ p = g[Call(rule, object, more, depth + 1)]
    BY <1>0, <1>2, <2>2 DEF Resolve
  <2>3. ASSUME ~Declares(object.ns, name), ~Defines(object.ns, name)
        PROVE  Undeclared(o) /\ Undeclared(p)
    BY <1>0, <1>2, <2>3, ResolveUndeclared
  <2> QED BY <2>1, <2>2, <2>3
<1>7. ASSUME ~(depth > L), Key(object, name) \notin visited
      PROVE  /\ Declares(object.ns, name)
                  => p = SqlRelationMembership(object, name, subject, L - depth)
             /\ ~Declares(object.ns, name) /\ Defines(object.ns, name)
                  => p = g[Call(rule, object, more, depth + 1)]
             /\ ~Declares(object.ns, name) /\ ~Defines(object.ns, name)
                  => Undeclared(p)
  <2>1. ASSUME Declares(object.ns, name)
        PROVE  p = SqlRelationMembership(object, name, subject, L - depth)
    BY <1>0, <1>7, <2>1, ResolveRelation
  <2>2. ASSUME ~Declares(object.ns, name), Defines(object.ns, name)
        PROVE  p = g[Call(rule, object, more, depth + 1)]
    BY <1>0, <1>7, <2>2 DEF Resolve
  <2>3. ASSUME ~Declares(object.ns, name), ~Defines(object.ns, name)
        PROVE  Undeclared(p)
    BY <1>0, <1>7, <2>3, ResolveUndeclared
  <2> QED BY <2>1, <2>2, <2>3
<1>8. ASSUME NEW b, NEW d \in Nat, depth > d \/ Key(object, name) \in visited
      PROVE  Bounded(Resolve(b, subject, object, name, visited, depth, d))
  BY <1>8, ResolveBound
<1>3. object \in Entity
  BY EntitiesAreTyped
<1> HIDE DEF rule, more
<1>4. Defines(object.ns, name)
        => Kept(f[Call(rule, object, more, depth + 1)], g[Call(rule, object, more, depth + 1)])
  <2>1. depth + 1 \in Nat
    OBVIOUS
  <2> QED BY <1>1, <2>1 DEF KeptWalk
<1>5. CASE depth > K \/ Key(object, name) \in visited
  <2>1. p.allowed \in BOOLEAN
    <3>1. CASE depth > L \/ Key(object, name) \in visited
      <4>1. Bounded(p)
        BY <1>0, <1>8, <3>1
      <4> QED BY <4>1, OutcomesAreBoolean DEF Bounded
    <3>2. CASE ~(depth > L) /\ Key(object, name) \notin visited
      <4>1. CASE Declares(object.ns, name)
        <5>1. L - depth \in Nat /\ L - depth <= L - depth
          BY <3>2
        <5>2. Kept(SqlRelationMembership(object, name, subject, L - depth),
                   SqlRelationMembership(object, name, subject, L - depth))
          BY <1>3, <5>1, RelationKept
        <5> QED BY <1>7, <3>2, <4>1, <5>2 DEF Kept
      <4>2. CASE ~Declares(object.ns, name) /\ Defines(object.ns, name)
        BY <1>4, <1>7, <3>2, <4>2 DEF Kept
      <4>3. CASE ~Declares(object.ns, name) /\ ~Defines(object.ns, name)
        BY <1>7, <3>2, <4>3, OutcomesAreBoolean DEF Undeclared
      <4> QED BY <4>1, <4>2, <4>3
    <3> QED BY <3>1, <3>2
  <2>4. Bounded(o)
    BY <1>0, <1>5, <1>8
  <2>2. PICK x, y : o = Denied(FALSE, x, y)
    BY <2>4 DEF Bounded
  <2>3. Kept(o, p)
    BY <2>1, <2>2, UndecidedKept
  <2> QED BY <2>3 DEF o, p
<1>6. CASE ~(depth > K) /\ Key(object, name) \notin visited
  <2>1. ~(depth > L) /\ K - depth \in Nat /\ L - depth \in Nat /\ K - depth <= L - depth
    BY <1>6
  <2>2. CASE Declares(object.ns, name)
    <3>1. /\ o = SqlRelationMembership(object, name, subject, K - depth)
          /\ p = SqlRelationMembership(object, name, subject, L - depth)
      BY <1>2, <1>6, <2>1, <2>2
    <3>2. Kept(SqlRelationMembership(object, name, subject, K - depth),
               SqlRelationMembership(object, name, subject, L - depth))
      BY <1>3, <2>1, RelationKept
    <3>3. Kept(o, p)
      BY <3>1, <3>2
    <3> QED BY <3>3 DEF o, p
  <2>3. CASE ~Declares(object.ns, name) /\ Defines(object.ns, name)
    <3>1. Kept(o, p)
      BY <1>2, <1>4, <1>6, <2>1, <2>3
    <3> QED BY <3>1 DEF o, p
  <2>4. CASE ~Declares(object.ns, name) /\ ~Defines(object.ns, name)
    <3>1. PICK x, y : o = Denied(TRUE, x, y)
      BY <1>2, <1>6, <2>1, <2>4 DEF Undeclared
    <3>2. PICK v, w : p = Denied(TRUE, v, w)
      BY <1>2, <1>6, <2>1, <2>4 DEF Undeclared
    <3>3. Kept(o, p)
      BY <3>1, <3>2, DeniedKept
    <3> QED BY <3>3 DEF o, p
  <2> QED BY <2>2, <2>3, <2>4
<1> QED BY <1>5, <1>6

LEMMA EvalKept ==
    ASSUME GraphInv, NEW subject, NEW f, NEW g, KeptWalk(f, g),
           NEW rule \in AllRewrites, NEW object \in Entities, NEW visited \in SUBSET Keys,
           NEW depth \in Nat, NEW K \in Nat, NEW L \in Nat, K <= L
    PROVE  Kept(EvalRewrite(f, subject, rule, object, visited, depth, K),
                EvalRewrite(g, subject, rule, object, visited, depth, L))
<1> DEFINE o == EvalRewrite(f, subject, rule, object, visited, depth, K)
           p == EvalRewrite(g, subject, rule, object, visited, depth, L)
<1>1. CASE rule.kind = "computedUserset"
  <2>1. /\ o = Resolve(f, subject, object, rule.name, visited, depth, K)
        /\ p = Resolve(g, subject, object, rule.name, visited, depth, L)
    BY <1>1 DEF EvalRewrite
  <2>2. rule.name \in STRING
    BY <1>1, RuleKinds
  <2> HIDE DEF o, p
  <2>3. Kept(o, p)
    BY <2>1, <2>2, ResolveKept
  <2> QED BY <2>3 DEF o, p
<1>2. CASE rule.kind \in {"union", "intersection"}
  <2> DEFINE fs == [i \in DOMAIN rule.children |->
                      f[Call(rule.children[i], object, visited, depth)]]
             gs == [i \in DOMAIN rule.children |->
                      g[Call(rule.children[i], object, visited, depth)]]
  <2>1. /\ rule.kind = "union" => o = OfUnion(object, fs) /\ p = OfUnion(object, gs)
        /\ rule.kind = "intersection" => o = OfIntersection(object, fs) /\ p = OfIntersection(object, gs)
    BY DEF EvalRewrite
  <2>2. \A i \in DOMAIN rule.children : rule.children[i] \in AllRewrites
    BY <1>2, RuleKinds
  <2>3. \A i \in DOMAIN fs : Kept(fs[i], gs[i])
    BY <2>2 DEF KeptWalk
  <2>4. DOMAIN fs = DOMAIN rule.children /\ DOMAIN gs = DOMAIN rule.children
    OBVIOUS
  <2> HIDE DEF fs, gs, o, p
  <2>5. /\ Len(fs) \in Nat /\ DOMAIN fs = 1..Len(fs)
        /\ Len(gs) \in Nat /\ DOMAIN gs = 1..Len(gs)
    BY <1>2, <2>4, BranchCount
  <2>6. CASE rule.kind = "union"
    <3>1. Kept(OfUnion(object, fs), OfUnion(object, gs))
      BY <2>3, <2>4, <2>5, UnionKept
    <3> QED BY <2>1, <2>6, <3>1 DEF o, p
  <2>7. CASE rule.kind = "intersection"
    <3>1. Kept(OfIntersection(object, fs), OfIntersection(object, gs))
      BY <2>3, <2>4, <2>5, IntersectionKept
    <3> QED BY <2>1, <2>7, <3>1 DEF o, p
  <2> QED BY <1>2, <2>6, <2>7
<1>3. CASE rule.kind = "exclusion"
  <2> DEFINE b == f[Call(rule.base, object, visited, depth)]
             s == f[Call(rule.subtract, object, visited, depth)]
             c == g[Call(rule.base, object, visited, depth)]
             t == g[Call(rule.subtract, object, visited, depth)]
  <2>1. o = OfExclusion(object, b, s) /\ p = OfExclusion(object, c, t)
    BY <1>3 DEF EvalRewrite
  <2>2. rule.base \in AllRewrites /\ rule.subtract \in AllRewrites
    BY <1>3, RuleKinds
  <2>3. Kept(b, c) /\ Kept(s, t)
    BY <2>2 DEF KeptWalk
  <2> HIDE DEF o, p, b, s, c, t
  <2>4. Kept(o, p)
    BY <2>1, <2>3, ExclusionKept
  <2> QED BY <2>4 DEF o, p
<1>4. CASE rule.kind = "tupleToUserset"
  <2> DEFINE links == TupleSubjects(object, rule.relation)
             x(t) == Resolve(f, subject, t.subject, rule.computedUserset, visited, depth, K)
             y(t) == Resolve(g, subject, t.subject, rule.computedUserset, visited, depth, L)
             m(t) == [through |-> t.subject, outcome |-> x(t)]
             n(t) == [through |-> t.subject, outcome |-> y(t)]
             ms == {m(t) : t \in links}
             ns == {n(t) : t \in links}
  <2>1. \E u : /\ o = OfTupleToUserset(object, rule, u, ms)
               /\ p = OfTupleToUserset(object, rule, u, ns)
    <3>1. /\ o = OfTupleToUserset(object, rule, links \cap Expiring # {}, ms)
          /\ p = OfTupleToUserset(object, rule, links \cap Expiring # {}, ns)
      BY <1>4 DEF EvalRewrite
    <3> HIDE DEF o, p, ms, ns
    <3> QED BY <3>1
  <2>2. rule.computedUserset \in STRING
    BY <1>4, RuleKinds
  <2>3. ASSUME NEW t \in links PROVE Kept(m(t).outcome, n(t).outcome)
    <3>1. t.subject \in Entities
      BY LiveTuples DEF TupleSubjects
    <3>2. Kept(x(t), y(t))
      BY <2>2, <3>1, ResolveKept
    <3>3. m(t).outcome = x(t) /\ n(t).outcome = y(t)
      OBVIOUS
    <3> HIDE DEF x, y, m, n
    <3> QED BY <3>2, <3>3
  <2> HIDE DEF x, y, m, n, links
  <2>4. MembersKept(ms, ns)
    BY <2>3 DEF MembersKept
  <2> HIDE DEF ms, ns, o, p
  <2>5. Kept(o, p)
    BY <2>1, <2>4, LinkKept
  <2> QED BY <2>5 DEF o, p
<1> QED BY <1>1, <1>2, <1>3, <1>4, RuleKinds

\* A walk always answers.  It is kept by itself under its own limit.
LEMMA WalkAnswers ==
    ASSUME GraphInv, NEW subject, NEW maxDepth \in Nat, NEW n \in Nat
    PROVE  KeptWalk(ProductionWalk(subject, maxDepth)[n], ProductionWalk(subject, maxDepth)[n])
<1> DEFINE walk(h) == ProductionWalk(subject, maxDepth)[h]
           Good == {h \in 0..n : KeptWalk(walk(h), walk(h))}
<1>1. ASSUME NEW h \in Nat, NEW rule \in AllRewrites, NEW object \in Entities,
             NEW visited \in SUBSET Keys, NEW depth \in Nat
      PROVE  walk(h)[Call(rule, object, visited, depth)]
               = IF h = 0 THEN OverHeight
                 ELSE EvalRewrite(walk(h - 1), subject, rule, object, visited, depth, maxDepth)
  BY CallValue
<1> HIDE DEF walk
<1>2. 0 \in Good
  <2>1. Kept(OverHeight, OverHeight)
    BY DeniedKept DEF OverHeight
  <2>2. KeptWalk(walk(0), walk(0))
    BY <1>1, <2>1 DEF KeptWalk
  <2>3. 0 \in 0..n
    OBVIOUS
  <2> QED BY <2>2, <2>3
<1>3. ASSUME NEW h \in 1..n, h - 1 \in Good PROVE h \in Good
  <2>1. h \in Nat /\ h # 0 /\ KeptWalk(walk(h - 1), walk(h - 1)) /\ maxDepth <= maxDepth
    BY <1>3
  <2>2. ASSUME NEW rule \in AllRewrites, NEW object \in Entities,
               NEW visited \in SUBSET Keys, NEW depth \in Nat
        PROVE  Kept(walk(h)[Call(rule, object, visited, depth)],
                    walk(h)[Call(rule, object, visited, depth)])
    <3>1. walk(h)[Call(rule, object, visited, depth)]
            = EvalRewrite(walk(h - 1), subject, rule, object, visited, depth, maxDepth)
      BY <1>1, <2>1
    <3> QED BY <2>1, <3>1, EvalKept
  <2>3. KeptWalk(walk(h), walk(h))
    BY <2>2 DEF KeptWalk
  <2> QED BY <2>3
<1>4. 0..n \subseteq Good
  <2> HIDE DEF Good
  <2> QED BY <1>2, <1>3, Along
<1>5. n \in Good
  <2> HIDE DEF Good
  <2> QED BY <1>4
<1> QED BY <1>5 DEF walk

LEMMA WalkKept ==
    ASSUME GraphInv, NEW subject, NEW K \in Nat, NEW L \in Nat, K <= L, NEW n \in Nat, NEW g \in Nat
    PROVE  KeptWalk(ProductionWalk(subject, K)[n], ProductionWalk(subject, L)[n + g])
<1> DEFINE low(h) == ProductionWalk(subject, K)[h]
           high(h) == ProductionWalk(subject, L)[h]
           Good == {h \in 0..n : KeptWalk(low(h), high(h + g))}
<1>1. ASSUME NEW h \in Nat, NEW rule \in AllRewrites, NEW object \in Entities,
             NEW visited \in SUBSET Keys, NEW depth \in Nat
      PROVE  /\ low(h)[Call(rule, object, visited, depth)]
                  = IF h = 0 THEN OverHeight
                    ELSE EvalRewrite(low(h - 1), subject, rule, object, visited, depth, K)
             /\ high(h)[Call(rule, object, visited, depth)]
                  = IF h = 0 THEN OverHeight
                    ELSE EvalRewrite(high(h - 1), subject, rule, object, visited, depth, L)
  BY CallValue
<1>2. KeptWalk(high(g), high(g))
  BY WalkAnswers
<1> HIDE DEF low, high
<1>3. 0 \in Good
  <2>1. ASSUME NEW rule \in AllRewrites, NEW object \in Entities,
               NEW visited \in SUBSET Keys, NEW depth \in Nat
        PROVE  Kept(low(0)[Call(rule, object, visited, depth)],
                    high(g)[Call(rule, object, visited, depth)])
    <3>1. low(0)[Call(rule, object, visited, depth)] = Denied(FALSE, FALSE, None)
      BY <1>1 DEF OverHeight
    <3>2. high(g)[Call(rule, object, visited, depth)].allowed \in BOOLEAN
      BY <1>2 DEF KeptWalk, Kept
    <3> QED BY <3>1, <3>2, UndecidedKept
  <2>2. KeptWalk(low(0), high(0 + g))
    BY <2>1 DEF KeptWalk
  <2>3. 0 \in 0..n
    OBVIOUS
  <2> QED BY <2>2, <2>3
<1>4. ASSUME NEW h \in 1..n, h - 1 \in Good PROVE h \in Good
  <2>1. /\ h \in Nat /\ h # 0 /\ h + g \in Nat /\ h + g # 0 /\ h - 1 + g = h + g - 1
        /\ KeptWalk(low(h - 1), high(h - 1 + g))
    BY <1>4
  <2>2. ASSUME NEW rule \in AllRewrites, NEW object \in Entities,
               NEW visited \in SUBSET Keys, NEW depth \in Nat
        PROVE  Kept(low(h)[Call(rule, object, visited, depth)],
                    high(h + g)[Call(rule, object, visited, depth)])
    <3>1. /\ low(h)[Call(rule, object, visited, depth)]
               = EvalRewrite(low(h - 1), subject, rule, object, visited, depth, K)
          /\ high(h + g)[Call(rule, object, visited, depth)]
               = EvalRewrite(high(h + g - 1), subject, rule, object, visited, depth, L)
      BY <1>1, <2>1
    <3>2. KeptWalk(low(h - 1), high(h + g - 1))
      BY <2>1
    <3> QED BY <3>1, <3>2, EvalKept
  <2>3. KeptWalk(low(h), high(h + g))
    BY <2>2 DEF KeptWalk
  <2> QED BY <2>3
<1>5. 0..n \subseteq Good
  <2> HIDE DEF Good
  <2> QED BY <1>3, <1>4, Along
<1>6. n \in Good
  <2> HIDE DEF Good
  <2> QED BY <1>5
<1> QED BY <1>6 DEF low, high

\* A larger limit never takes an answer back.
LEMMA CheckKept ==
    ASSUME GraphInv, NEW subject, NEW object \in Entities, NEW name \in STRING,
           NEW K \in Nat, NEW L \in Nat, K <= L
    PROVE  Kept(ProductionCheck(subject, object, name, K), ProductionCheck(subject, object, name, L))
<1> DEFINE g == (L - K) * (MaxNesting + 1)
<1>1. \A a, b \in Nat : a * b \in Nat
  OBVIOUS
<1>2. L - K \in Nat /\ MaxNesting \in Nat /\ MaxNesting + 1 \in Nat
  BY GraphAssumption
<1>3. g \in Nat
  BY <1>1, <1>2
<1>4. \A a, b, c \in Nat : (a + b) * c = a * c + b * c
  OBVIOUS
<1>5. Height(L) = Height(K) + g
  <2>1. K + 2 \in Nat /\ (K + 2) + (L - K) = L + 2
    OBVIOUS
  <2>2. ((K + 2) + (L - K)) * (MaxNesting + 1) = (K + 2) * (MaxNesting + 1) + (L - K) * (MaxNesting + 1)
    BY <1>2, <1>4, <2>1
  <2> QED BY <2>1, <2>2 DEF Height
<1> HIDE DEF g
<1>6. KeptWalk(ProductionWalk(subject, K)[Height(K)], ProductionWalk(subject, L)[Height(L)])
  BY <1>3, <1>5, HeightsAreNumbers, WalkKept
<1> DEFINE f == ProductionWalk(subject, K)[Height(K)]
           h == ProductionWalk(subject, L)[Height(L)]
<1>7. {} \in SUBSET Keys /\ 0 \in Nat
  OBVIOUS
<1>8. Kept(Resolve(f, subject, object, name, {}, 0, K), Resolve(h, subject, object, name, {}, 0, L))
  <2> HIDE DEF f, h
  <2>1. KeptWalk(f, h)
    BY <1>6 DEF f, h
  <2> QED BY <1>7, <2>1, ResolveKept
<1> QED BY <1>8 DEF ProductionCheck

-----------------------------------------------------------------------------
(***************************************************************************)
(* Where nothing is subtracted, all that is true is found within as many   *)
(* steps as there are pairs: what is true is true by stages, and a walk    *)
(* that looks up a name leaves for the stages before the one in which the  *)
(* name came in, so that it never comes back to a name.                    *)
(***************************************************************************)
LEMMA PositivesUnfold == \A h \in Nat : Positives[h] = PositivesStep(h, Positives[h - 1])
<1> DEFINE Is(f) == f = [h \in Nat |-> PositivesStep(h, f[h - 1])]
<1>1. PICK f : IsRecursion(f, 8, 0, 0, 0)
  BY RecursionsAreDefined
<1>2. Is(f)
  BY <1>1 DEF IsRecursion, RecursionStep
<1>3. Positives = CHOOSE k : Is(k)
  BY DEF Positives, PositivesStep
<1>4. Is(Positives)
  <2> HIDE DEF Is
  <2> QED BY <1>2, <1>3
<1> QED BY <1>4

LEMMA PositiveKinds ==
    ASSUME NEW h \in Nat, NEW rule \in Positives[h]
    PROVE  /\ rule.kind \in {"computedUserset", "tupleToUserset", "union", "intersection"}
           /\ rule.kind = "computedUserset" => rule.name \in STRING
           /\ rule.kind = "tupleToUserset" => rule.relation \in STRING /\ rule.computedUserset \in STRING
           /\ rule.kind \in {"union", "intersection"} =>
                h # 0 /\ \A i \in DOMAIN rule.children : rule.children[i] \in Positives[h - 1]
<1>1. rule \in PositivesStep(h, Positives[h - 1])
  BY PositivesUnfold
<1>2. CASE rule \in [kind : {"computedUserset"}, name : STRING]
  BY <1>2
<1>3. CASE rule \in [kind : {"tupleToUserset"}, relation : STRING, computedUserset : STRING]
  BY <1>3
<1>4. CASE h # 0 /\ rule \in [kind : {"union", "intersection"}, children : Seq(Positives[h - 1])]
  <2>1. rule.kind \in {"union", "intersection"} /\ rule.children \in Seq(Positives[h - 1])
    BY <1>4
  <2>2. \A i \in DOMAIN rule.children : rule.children[i] \in Positives[h - 1]
    BY <2>1
  <2> QED BY <1>4, <2>1, <2>2
<1> QED BY <1>1, <1>2, <1>3, <1>4 DEF PositivesStep

LEMMA PositivesAreRewrites == \A h \in Nat : Positives[h] \subseteq Rewrites[h]
<1>1. SUFFICES ASSUME NEW n \in Nat PROVE Positives[n] \subseteq Rewrites[n]
  OBVIOUS
<1> DEFINE Good == {h \in 0..n : Positives[h] \subseteq Rewrites[h]}
<1>2. 0 \in Good
  <2>1. /\ Positives[0] = PositivesStep(0, Positives[0 - 1])
        /\ Rewrites[0] = RewritesStep(0, Rewrites[0 - 1])
    BY PositivesUnfold, RewritesUnfolds
  <2> QED BY <2>1 DEF PositivesStep, RewritesStep
<1>3. ASSUME NEW h \in 1..n, h - 1 \in Good PROVE h \in Good
  <2>1. /\ Positives[h] = PositivesStep(h, Positives[h - 1])
        /\ Rewrites[h] = RewritesStep(h, Rewrites[h - 1])
    BY PositivesUnfold, RewritesUnfolds
  <2>2. Seq(Positives[h - 1]) \subseteq Seq(Rewrites[h - 1])
    BY <1>3, SeqGrows
  <2>3. PositivesStep(h, Positives[h - 1]) \subseteq RewritesStep(h, Rewrites[h - 1])
    BY <2>2 DEF PositivesStep, RewritesStep
  <2> QED BY <2>1, <2>3
<1>4. 0..n \subseteq Good
  <2> HIDE DEF Good
  <2> QED BY <1>2, <1>3, Along
<1> QED BY <1>4

\* What is true after m rounds, by the rounds that Least makes.
Staged(at, subject, neg, n) ==
  /\ \A m \in 0..n : at[m] \in SUBSET Pairs
  /\ at[0] = {}
  /\ \A m \in 1..n : at[m] = NextPos(subject, Pairs, neg, at[m - 1])

LEMMA StagesExist ==
    ASSUME NEW subject, NEW neg, NEW n \in Nat
    PROVE  \E at : Staged(at, subject, neg, n)
<1> DEFINE next == [pos \in SUBSET Pairs |-> NextPos(subject, Pairs, neg, pos)]
           s == [m \in 1..n |-> next]
<1>1. next \in [SUBSET Pairs -> SUBSET Pairs]
  BY DEF NextPos
<1>2. s \in [1..n -> [SUBSET Pairs -> SUBSET Pairs]]
  <2> HIDE DEF next
  <2> QED BY <1>1
<1>3. \A m \in 1..n : s[m] = next
  OBVIOUS
<1>4. \A pos \in SUBSET Pairs : next[pos] = NextPos(subject, Pairs, neg, pos)
  OBVIOUS
<1>5. {} \in SUBSET Pairs
  OBVIOUS
<1> HIDE DEF s, next
<1> DEFINE D == SUBSET Pairs
<1>6. PICK at \in [0..n -> D] : at[0] = {} /\ \A m \in 1..n : at[m] = s[m][at[m - 1]]
  <2> HIDE DEF D
  <2>1. {} \in D /\ s \in [1..n -> [D -> D]]
    BY <1>2, <1>5 DEF D
  <2> QED BY <2>1, RecursionDefines
<1>7. \A m \in 0..n : at[m] \in SUBSET Pairs
  BY <1>6
<1>8. ASSUME NEW m \in 1..n PROVE at[m] = NextPos(subject, Pairs, neg, at[m - 1])
  <2>1. m - 1 \in 0..n
    OBVIOUS
  <2>2. at[m - 1] \in SUBSET Pairs
    BY <1>7, <2>1
  <2> QED BY <1>3, <1>4, <1>6, <2>2
<1>9. Staged(at, subject, neg, n)
  BY <1>6, <1>7, <1>8 DEF Staged
<1> QED BY <1>9

LEMMA StagesGrow ==
    ASSUME NEW subject, NEW neg, NEW n \in Nat, NEW at, Staged(at, subject, neg, n),
           NEW m \in 0..n, NEW q \in 0..m
    PROVE  at[q] \subseteq at[m]
<1> DEFINE Good == {k \in 0..(m - q) : at[q] \subseteq at[q + k]}
<1>1. 0 \in Good
  BY DEF Staged
<1>2. ASSUME NEW k \in 1..(m - q), k - 1 \in Good PROVE k \in Good
  <2>1. q + k \in 1..n /\ q + k - 1 = q + (k - 1)
    OBVIOUS
  <2>2. at[q + k] = NextPos(subject, Pairs, neg, at[q + k - 1]) /\ at[q + k - 1] \in SUBSET Pairs
    BY <2>1 DEF Staged
  <2>3. at[q + k - 1] \subseteq at[q + k]
    BY <2>2 DEF NextPos
  <2>4. at[q] \subseteq at[q + (k - 1)]
    BY <1>2
  <2>5. at[q] \subseteq at[q + k]
    BY <2>1, <2>3, <2>4
  <2> QED BY <2>5
<1>3. m - q \in Nat /\ m - q \in 0..(m - q) /\ q + (m - q) = m
  OBVIOUS
<1>4. 0..(m - q) \subseteq Good
  <2> HIDE DEF Good
  <2> QED BY <1>1, <1>2, <1>3, Along
<1>5. m - q \in Good
  <2> HIDE DEF Good
  <2> QED BY <1>3, <1>4
<1> QED BY <1>3, <1>5

\* After as many rounds as there are pairs, nothing more follows.
LEMMA StagesClose ==
    ASSUME IsSchema(schema), NEW subject, NEW neg, NEW at,
           Staged(at, subject, neg, Cardinality(Pairs))
    PROVE  ClosedUnder(subject, neg, at[Cardinality(Pairs)])
<1> DEFINE n == Cardinality(Pairs)
           Good == {m \in 0..n : Cardinality(at[m]) >= m \/ ClosedUnder(subject, neg, at[m])}
<1>1. IsFiniteSet(Pairs) /\ n \in Nat
  BY PairsAreFinite, FS_CardinalityType
<1>2. \A X \in SUBSET Pairs : /\ IsFiniteSet(X) /\ Cardinality(X) \in Nat /\ Cardinality(X) <= n
                              /\ Cardinality(X) = n => X = Pairs
  BY <1>1, FS_Subset, FS_CardinalityType
<1> HIDE DEF n
<1>3. /\ \A m \in 0..n : at[m] \in SUBSET Pairs
      /\ at[0] = {}
      /\ \A m \in 1..n : at[m] = NextPos(subject, Pairs, neg, at[m - 1])
  BY DEF Staged, n
<1>4. 0 \in Good
  <2>1. Cardinality(at[0]) \in Nat /\ 0 \in 0..n
    BY <1>1, <1>2, <1>3
  <2> QED BY <2>1
<1>5. ASSUME NEW m \in 1..n, m - 1 \in Good PROVE m \in Good
  <2>1. /\ m \in 0..n /\ m - 1 \in 0..n
        /\ at[m] \in SUBSET Pairs /\ at[m - 1] \in SUBSET Pairs
        /\ at[m] = NextPos(subject, Pairs, neg, at[m - 1])
    <3>1. m \in 0..n /\ m - 1 \in 0..n
      BY <1>1
    <3> QED BY <1>3, <3>1
  <2>2. at[m - 1] \subseteq at[m]
    BY <2>1 DEF NextPos
  <2>3. CASE ClosedUnder(subject, neg, at[m - 1])
    <3>1. at[m] = at[m - 1]
      BY <2>1, <2>3 DEF ClosedUnder, NextPos
    <3>2. ClosedUnder(subject, neg, at[m])
      BY <2>3, <3>1
    <3> QED BY <2>1, <3>2
  <2>4. CASE ~ClosedUnder(subject, neg, at[m - 1])
    <3>1. PICK k \in Pairs : Follows(subject, k, at[m - 1], neg) /\ k \notin at[m - 1]
      BY <2>4 DEF ClosedUnder
    <3>2. k \in at[m]
      BY <2>1, <3>1 DEF NextPos
    <3>3. Cardinality(at[m - 1]) < Cardinality(at[m])
      <4>1. at[m - 1] # at[m] /\ IsFiniteSet(at[m])
        BY <1>2, <2>1, <3>1, <3>2
      <4>2. /\ Cardinality(at[m - 1]) <= Cardinality(at[m])
            /\ Cardinality(at[m - 1]) = Cardinality(at[m]) => at[m - 1] = at[m]
        BY <2>2, <4>1, FS_Subset
      <4>3. Cardinality(at[m - 1]) \in Nat /\ Cardinality(at[m]) \in Nat
        BY <1>2, <2>1
      <4> QED BY <4>1, <4>2, <4>3
    <3>4. Cardinality(at[m - 1]) >= m - 1
      BY <1>5, <2>4
    <3>5. Cardinality(at[m - 1]) \in Nat /\ Cardinality(at[m]) \in Nat
      BY <1>2, <2>1
    <3>6. Cardinality(at[m]) >= m
      BY <3>3, <3>4, <3>5
    <3> QED BY <2>1, <3>6
  <2> QED BY <2>3, <2>4
<1>6. 0..n \subseteq Good
  <2> HIDE DEF Good
  <2> QED BY <1>1, <1>4, <1>5, Along
<1>7. n \in 0..n
  BY <1>1
<1>8. n \in Good
  <2> HIDE DEF Good
  <2> QED BY <1>6, <1>7
<1>9. CASE Cardinality(at[n]) >= n
  <2>1. at[n] \in SUBSET Pairs
    BY <1>3, <1>7
  <2>2. Cardinality(at[n]) = n
    BY <1>1, <1>2, <1>9, <2>1
  <2>3. at[n] = Pairs
    BY <1>2, <2>1, <2>2
  <2> QED BY <2>3 DEF ClosedUnder, n
<1> QED BY <1>8, <1>9 DEF n

\* A relation that is true by stage m has a grant no more than m links away.
LEMMA StagedIsGranted ==
    ASSUME GraphInv, NEW subject, NEW neg, NEW n \in Nat, NEW at, Staged(at, subject, neg, n),
           NEW start \in Pairs, Declares(start[1].ns, start[2]), NEW K \in Nat,
           NEW rs, SpreadResult(rs, start, K), NEW m \in 0..n, m <= K, start \in at[m]
    PROVE  \E r \in rs, t \in Live : Grants(t, r, subject)
<1> DEFINE Found == \E r \in rs, t \in Live : Grants(t, r, subject)
           Near(q) == \A j \in 0..K : j + q <= K /\ KeysWithin(rs, j) \cap at[q] # {} => Found
           Good == {q \in 0..n : Near(q)}
<1>1. 0 \in Good
  BY DEF Staged
<1> HIDE DEF Found
<1>2. ASSUME NEW q \in 1..n, q - 1 \in Good PROVE q \in Good
  <2>1. ASSUME NEW j \in 0..K, j + q <= K, NEW k \in KeysWithin(rs, j), k \in at[q] PROVE Found
    <3>1. at[q] = NextPos(subject, Pairs, neg, at[q - 1])
      BY DEF Staged
    <3>2. CASE k \in at[q - 1]
      <4>1. j + (q - 1) <= K
        BY <2>1
      <4>2. KeysWithin(rs, j) \cap at[q - 1] # {}
        BY <3>2
      <4> QED BY <1>2, <4>1, <4>2
    <3>3. CASE k \notin at[q - 1]
      <4>1. k \in Pairs /\ k \in Keys /\ Follows(subject, k, at[q - 1], neg)
        BY <2>1, <3>1, <3>3, PairsAreKeys DEF NextPos, GraphInv
      <4>2. PICK r \in rs : r.key = k
        BY DEF KeysWithin
      <4>3. Reached(k, start)
        BY <4>2 DEF SpreadResult, GoodResult, GoodRound, GoodRow
      <4>4. Declares(k[1].ns, k[2])
        BY <4>1, <4>3, ReachedIsDeclared
      <4>5. PICK t \in Live : /\ OnKey(t, k)
                              /\ IF t.subjectRelation = None THEN SubjectMatches(t.subject, subject)
                                                             ELSE Target(t) \in at[q - 1]
        BY <4>1, <4>4 DEF Follows
      <4>6. CASE t.subjectRelation = None
        <5>1. Grants(t, r, subject)
          BY <4>2, <4>5, <4>6 DEF Grants
        <5> QED BY <5>1 DEF Found
      <4>7. CASE t.subjectRelation # None
        <5>1. j + 1 \in 1..K /\ j + 1 \in 0..K /\ (j + 1) + (q - 1) <= K /\ (j + 1) - 1 = j
          BY <2>1
        <5>2. k = Key(t.object, t.relation)
          BY <4>1, <4>5, OnKeyIsKey
        <5>3. KeysWithin(rs, j + 1) = Wider(KeysWithin(rs, (j + 1) - 1))
          BY <5>1 DEF SpreadResult, Spreads
        <5>4. Target(t) \in Wider(KeysWithin(rs, j))
          BY <4>7, <5>2 DEF Wider
        <5>5. Target(t) \in KeysWithin(rs, j + 1)
          BY <5>1, <5>3, <5>4
        <5>6. KeysWithin(rs, j + 1) \cap at[q - 1] # {}
          BY <4>5, <4>7, <5>5
        <5> QED BY <1>2, <5>1, <5>6
      <4> QED BY <4>6, <4>7
    <3> QED BY <3>2, <3>3
  <2>2. Near(q)
    BY <2>1
  <2> QED BY <2>2
<1>3. 0..n \subseteq Good
  <2> HIDE DEF Good
  <2> QED BY <1>1, <1>2, Along
<1>4. KeysWithin(rs, 0) \cap at[m] # {}
  BY DEF SpreadResult, Spreads
<1>5. 0 \in 0..K /\ 0 + m <= K
  OBVIOUS
<1>6. Near(m)
  BY <1>3
<1>7. Found
  BY <1>4, <1>5, <1>6
<1> QED BY <1>7 DEF Found

\* Multiples.
LEMMA Multiples ==
    ASSUME NEW a \in Nat, NEW b \in Nat, a <= b, NEW c \in Nat
    PROVE  a * c \in Nat /\ b * c \in Nat /\ a * c <= b * c /\ (a + 1) * c = a * c + c
<1>1. \A x, y \in Nat : x * y \in Nat
  OBVIOUS
<1>2. \A x, y, z \in Nat : (x + y) * z = x * z + y * z
  OBVIOUS
<1>3. b - a \in Nat /\ a + (b - a) = b
  OBVIOUS
<1>4. (a + (b - a)) * c = a * c + (b - a) * c
  BY <1>2, <1>3
<1>5. a * c \in Nat /\ b * c \in Nat /\ (b - a) * c \in Nat
  BY <1>1, <1>3
<1>6. a * c <= b * c
  BY <1>3, <1>4, <1>5
<1>7. (a + 1) * c = a * c + 1 * c /\ 1 * c = c
  BY <1>2
<1> QED BY <1>5, <1>6, <1>7

\* Every visit to a permission takes no more calls than a rule is nested.
Visits(m) == m * (MaxNesting + 1)

LEMMA VisitsCount ==
    ASSUME NEW m \in Nat, NEW q \in 1..m
    PROVE  /\ Visits(m) \in Nat
           /\ MaxNesting + 1 + Visits(q - 1) <= Visits(m)
<1>1. MaxNesting \in Nat /\ MaxNesting + 1 \in Nat
  BY GraphAssumption
<1>2. q \in Nat /\ q - 1 \in Nat /\ q <= m /\ q - 1 <= q /\ (q - 1) + 1 = q
  OBVIOUS
<1>3. q * (MaxNesting + 1) <= m * (MaxNesting + 1) /\ m * (MaxNesting + 1) \in Nat
  BY <1>1, <1>2, Multiples
<1>4. ((q - 1) + 1) * (MaxNesting + 1) = (q - 1) * (MaxNesting + 1) + (MaxNesting + 1)
      /\ (q - 1) * (MaxNesting + 1) \in Nat
  BY <1>1, <1>2, Multiples
<1>5. q * (MaxNesting + 1) = (q - 1) * (MaxNesting + 1) + (MaxNesting + 1)
  BY <1>2, <1>4
<1> QED BY <1>1, <1>3, <1>4, <1>5 DEF Visits

\* A walk of height h allows what is true by stage m, as long as the depth that is left
\* is m or more and no name of that stage is being visited.
Finds(walk, at, neg, n, maxDepth, h) ==
  \A i \in 0..MaxNesting, m \in 0..n :
    \A rule \in Positives[i], object \in Entities, visited \in SUBSET Keys, depth \in Nat :
      /\ visited \cap at[m] = {}
      /\ depth + m <= maxDepth
      /\ i + 1 + Visits(m) <= h
      /\ Satisfied(rule, object, at[m], neg)
      => walk[Call(rule, object, visited, depth)].allowed

LEMMA ResolveFinds ==
    ASSUME GraphInv, SubtractsNothing, NEW subject, NEW neg \in SUBSET Keys, NEW n \in Nat,
           NEW at, Staged(at, subject, neg, n), NEW maxDepth \in Nat, NEW h \in Nat,
           NEW below, Finds(below, at, neg, n, maxDepth, h),
           NEW object \in Entities, NEW name \in STRING, NEW visited \in SUBSET Keys,
           NEW depth \in Nat, NEW m \in 0..n,
           visited \cap at[m] = {}, depth + m <= maxDepth, Visits(m) <= h,
           Key(object, name) \in at[m]
    PROVE  Resolve(below, subject, object, name, visited, depth, maxDepth).allowed
<1> DEFINE k == Key(object, name)
           o == Resolve(below, subject, object, name, visited, depth, maxDepth)
           Q == {j \in 0..m : k \in at[j]}
<1>1. PICK q \in Q : \A j \in Q : q <= j
  <2>1. m \in Q /\ Q \subseteq Nat
    OBVIOUS
  <2> HIDE DEF Q
  <2> QED BY <2>1, LeastNumber
<1>2. q \in 1..m /\ q \in 1..n /\ q - 1 \in 0..m /\ q - 1 \in 0..n
  <2>1. q # 0
    BY <1>1 DEF Staged
  <2>2. q \in 0..m
    BY <1>1
  <2> QED BY <2>1, <2>2
<1>3. k \notin at[q - 1] /\ k \in at[q]
  <2>1. q - 1 \notin Q
    <3> HIDE DEF Q
    <3> QED BY <1>1, <1>2
  <2> QED BY <1>1, <1>2, <2>1
<1>4. k[1] = object /\ k[2] = name
  BY KeyParts
<1> HIDE DEF k, Q
<1>5. k \in Pairs /\ Follows(subject, k, at[q - 1], neg)
  <2>1. at[q] = NextPos(subject, Pairs, neg, at[q - 1])
    BY <1>2 DEF Staged
  <2> QED BY <1>3, <2>1 DEF NextPos
<1>6. ~(depth > maxDepth) /\ maxDepth - depth \in Nat /\ m <= maxDepth - depth /\ k \notin visited
  <2>1. k \in at[m]
    BY DEF k
  <2>2. k \notin visited
    BY <2>1
  <2>3. ~(depth > maxDepth) /\ maxDepth - depth \in Nat /\ m <= maxDepth - depth
    OBVIOUS
  <2> QED BY <2>2, <2>3
<1>10. o = Resolve(below, subject, object, name, visited, depth, maxDepth)
  OBVIOUS
<1> HIDE DEF o
<1>7. /\ Declares(object.ns, name)
           => o = SqlRelationMembership(object, name, subject, maxDepth - depth)
      /\ ~Declares(object.ns, name) /\ Defines(object.ns, name)
           => o = below[Call(schema[object.ns].permissions[name], object, visited \cup {k}, depth + 1)]
  <2>1. ASSUME Declares(object.ns, name)
        PROVE  o = SqlRelationMembership(object, name, subject, maxDepth - depth)
    BY <1>6, <1>10, <2>1, ResolveRelation DEF k
  <2>2. ASSUME ~Declares(object.ns, name), Defines(object.ns, name)
        PROVE  o = below[Call(schema[object.ns].permissions[name], object, visited \cup {k}, depth + 1)]
    BY <1>6, <1>10, <2>2 DEF Resolve, k
  <2> QED BY <2>1, <2>2
<1>11. visited \cup {k} \in SUBSET Keys
  BY VisitIsTyped DEF k
<1>8. CASE Declares(object.ns, name)
  <2> DEFINE rs == CHOOSE rs \in ReachableFrontiers(object, name, maxDepth - depth) : TRUE
  <2>1. object \in Entity
    BY EntitiesAreTyped
  <2>2. rs \in ReachableFrontiers(object, name, maxDepth - depth)
    BY <1>6, <2>1, ResultsAreGood
  <2>3. o = OutcomeOfRows(rs, object, name, subject, maxDepth - depth)
    BY <1>7, <1>8 DEF SqlRelationMembership
  <2> HIDE DEF rs
  <2>4. SpreadResult(rs, k, maxDepth - depth)
    BY <1>6, <2>1, <2>2, ResultsSpread DEF k
  <2>5. k \in at[m] /\ Declares(k[1].ns, k[2])
    BY <1>4, <1>8 DEF k
  <2>6. \E r \in rs, t \in Live : Grants(t, r, subject)
    <3> DEFINE K == maxDepth - depth
    <3>1. K \in Nat /\ m <= K /\ SpreadResult(rs, k, K)
      BY <1>6, <2>4
    <3> HIDE DEF K
    <3> QED BY <1>5, <2>5, <3>1, StagedIsGranted
  <2>7. GoodResult(rs, k, maxDepth - depth)
    BY <2>4 DEF SpreadResult
  <2>8. Granted(DedupeFrontier(rs), subject)
    BY <1>6, <2>6, <2>7, GrantedByRow
  <2>9. o.allowed
    BY <1>6, <2>3, <2>7, <2>8, DecisionOfRows
  <2> QED BY <2>9 DEF o
<1>9. CASE ~Declares(object.ns, name)
  <2> DEFINE rule == schema[object.ns].permissions[name]
             more == visited \cup {k}
  <2>1. Defines(object.ns, name)
    BY <1>4, <1>5, <1>9, PairKinds DEF GraphInv
  <2>2. o = below[Call(rule, object, more, depth + 1)] /\ more \in SUBSET Keys
    BY <1>7, <1>9, <1>11, <2>1
  <2>3. rule \in Positives[MaxNesting]
    BY <2>1 DEF SubtractsNothing, Defines
  <2>4. Satisfied(rule, object, at[q - 1], neg)
    BY <1>4, <1>5, <1>9 DEF Follows
  <2> HIDE DEF rule
  <2>5. more \cap at[q - 1] = {}
    <3>1. at[q - 1] \subseteq at[m]
      BY <1>2, StagesGrow
    <3> QED BY <1>3, <3>1
  <2> HIDE DEF more
  <2>6. depth + 1 \in Nat /\ depth + 1 + (q - 1) <= maxDepth
    BY <1>2, <1>6
  <2>7. MaxNesting + 1 + Visits(q - 1) <= h
    <3>1. q - 1 \in Nat /\ 1 \in 1..1 /\ m \in Nat
      BY <1>2
    <3>2. Visits(m) \in Nat /\ MaxNesting + 1 + Visits(q - 1) <= Visits(m)
      BY <1>2, <3>1, VisitsCount
    <3>3. MaxNesting + 1 + Visits(q - 1) \in Nat
      <4>1. (q - 1) * (MaxNesting + 1) \in Nat
        BY <3>1, GraphAssumption, Multiples
      <4> QED BY <4>1, GraphAssumption DEF Visits
    <3> QED BY <3>2, <3>3
  <2>8. MaxNesting \in 0..MaxNesting
    BY GraphAssumption
  <2>9. below[Call(rule, object, more, depth + 1)].allowed
    BY <1>2, <2>2, <2>3, <2>4, <2>5, <2>6, <2>7, <2>8 DEF Finds
  <2> QED BY <2>2, <2>9 DEF o
<1> QED BY <1>8, <1>9

LEMMA UnionFinds ==
    ASSUME NEW object, NEW f, Len(f) \in Nat, DOMAIN f = 1..Len(f), NEW i \in DOMAIN f, f[i].allowed
    PROVE  OfUnion(object, f).allowed
<1> DEFINE first == SelectInSeq(f, LAMBDA o : o.allowed)
<1>1. first # 0
  BY FirstAllowed
<1>2. \E x, y : OfUnion(object, f) = Allowed(x, y)
  BY <1>1 DEF OfUnion
<1> QED BY <1>2 DEF Allowed

LEMMA IntersectionFinds ==
    ASSUME NEW object, NEW f, Len(f) \in Nat, DOMAIN f = 1..Len(f), \A i \in DOMAIN f : f[i].allowed
    PROVE  OfIntersection(object, f).allowed
<1> DEFINE first == SelectInSeq(f, LAMBDA o : ~o.allowed)
<1>1. first = 0
  BY FirstDenied
<1>2. \E x, y : OfIntersection(object, f) = Allowed(x, y)
  BY <1>1 DEF OfIntersection
<1> QED BY <1>2 DEF Allowed

LEMMA LinkFinds ==
    ASSUME NEW object, NEW rule, NEW u, NEW ms, NEW m \in ms, m.outcome.allowed
    PROVE  OfTupleToUserset(object, rule, u, ms).allowed
<1> DEFINE proofs == {n \in ms : n.outcome.allowed}
<1>1. m \in proofs
  OBVIOUS
<1>2. \E x, y : OfTupleToUserset(object, rule, u, ms) = Allowed(x, y)
  BY <1>1 DEF OfTupleToUserset
<1> QED BY <1>2 DEF Allowed

LEMMA EvalFinds ==
    ASSUME GraphInv, SubtractsNothing, NEW subject, NEW neg \in SUBSET Keys, NEW n \in Nat,
           NEW at, Staged(at, subject, neg, n), NEW maxDepth \in Nat, NEW h \in Nat,
           NEW below, Finds(below, at, neg, n, maxDepth, h),
           NEW i \in 0..MaxNesting, NEW rule \in Positives[i],
           NEW object \in Entities, NEW visited \in SUBSET Keys,
           NEW depth \in Nat, NEW m \in 0..n,
           visited \cap at[m] = {}, depth + m <= maxDepth, i + Visits(m) <= h,
           Satisfied(rule, object, at[m], neg)
    PROVE  EvalRewrite(below, subject, rule, object, visited, depth, maxDepth).allowed
<1> DEFINE o == EvalRewrite(below, subject, rule, object, visited, depth, maxDepth)
<1>1. MaxNesting \in Nat /\ i \in Nat /\ i <= MaxNesting
  BY GraphAssumption
<1>2. rule \in AllRewrites
  <2>1. rule \in Rewrites[i]
    BY <1>1, PositivesAreRewrites
  <2> QED BY <1>1, <2>1, RewritesWithin
<1>3. at[m] \in SUBSET Keys /\ object \in Entity
  BY PairsAreKeys, EntitiesAreTyped DEF Staged, GraphInv
<1>4. Visits(m) \in Nat /\ Visits(m) <= h
  <2>1. m * (MaxNesting + 1) \in Nat
    BY <1>1, Multiples
  <2> QED BY <1>1, <2>1 DEF Visits
<1>5. ASSUME i # 0, NEW part \in Positives[i - 1], Satisfied(part, object, at[m], neg)
      PROVE  below[Call(part, object, visited, depth)].allowed
  <2>1. i - 1 \in 0..MaxNesting /\ i - 1 + 1 + Visits(m) <= h
    BY <1>1, <1>4, <1>5
  <2> QED BY <1>5, <2>1 DEF Finds
<1>6. CASE rule.kind = "computedUserset"
  <2>1. o = Resolve(below, subject, object, rule.name, visited, depth, maxDepth)
    BY <1>6 DEF EvalRewrite
  <2>2. rule.name \in STRING
    BY <1>2, <1>6, RuleKinds
  <2>3. Key(object, rule.name) \in at[m]
    BY <1>2, <1>3, <1>6, NameSatisfied
  <2> HIDE DEF o
  <2>4. o.allowed
    BY <1>4, <2>1, <2>2, <2>3, ResolveFinds
  <2> QED BY <2>4 DEF o
<1>7. CASE rule.kind \in {"union", "intersection"}
  <2> DEFINE f == [j \in DOMAIN rule.children |->
                     below[Call(rule.children[j], object, visited, depth)]]
  <2>1. /\ rule.kind = "union" => o = OfUnion(object, f)
        /\ rule.kind = "intersection" => o = OfIntersection(object, f)
    BY DEF EvalRewrite
  <2>2. i # 0 /\ \A j \in DOMAIN rule.children : rule.children[j] \in Positives[i - 1]
    BY <1>1, <1>7, PositiveKinds
  <2>3. \A j \in DOMAIN rule.children : Satisfied(rule.children[j], object, at[m], neg) => f[j].allowed
    BY <1>5, <2>2
  <2>4. DOMAIN f = DOMAIN rule.children
    OBVIOUS
  <2> HIDE DEF f, o
  <2>5. Len(f) \in Nat /\ DOMAIN f = 1..Len(f)
    BY <1>2, <1>7, <2>4, BranchCount
  <2>6. CASE rule.kind = "union"
    <3>1. PICK j \in DOMAIN rule.children : Satisfied(rule.children[j], object, at[m], neg)
      BY <1>2, <1>3, <2>6, UnionSatisfied
    <3>2. OfUnion(object, f).allowed
      BY <2>3, <2>4, <2>5, <3>1, UnionFinds
    <3> QED BY <2>1, <2>6, <3>2 DEF o
  <2>7. CASE rule.kind = "intersection"
    <3>1. \A j \in DOMAIN rule.children : Satisfied(rule.children[j], object, at[m], neg)
      BY <1>2, <1>3, <2>7, IntersectionSatisfied
    <3>2. OfIntersection(object, f).allowed
      BY <2>3, <2>4, <2>5, <3>1, IntersectionFinds
    <3> QED BY <2>1, <2>7, <3>2 DEF o
  <2> QED BY <1>7, <2>6, <2>7
<1>8. CASE rule.kind = "tupleToUserset"
  <2> DEFINE links == TupleSubjects(object, rule.relation)
             x(t) == Resolve(below, subject, t.subject, rule.computedUserset, visited, depth, maxDepth)
             p(t) == [through |-> t.subject, outcome |-> x(t)]
             ms == {p(t) : t \in links}
  <2>1. o = OfTupleToUserset(object, rule, links \cap Expiring # {}, ms)
    BY <1>8 DEF EvalRewrite
  <2>2. PICK t \in Live : /\ OnKey(t, Key(object, rule.relation))
                          /\ Key(t.subject, rule.computedUserset) \in at[m]
    BY <1>2, <1>3, <1>8, LinkSatisfied
  <2>3. t \in links /\ t.subject \in Entities /\ rule.computedUserset \in STRING
    BY <1>2, <1>8, <2>2, LiveTuples, RuleKinds DEF TupleSubjects
  <2>4. x(t).allowed
    BY <1>4, <2>2, <2>3, ResolveFinds
  <2>5. p(t).outcome = x(t)
    OBVIOUS
  <2> HIDE DEF x, p, links
  <2>6. p(t) \in ms /\ p(t).outcome.allowed
    BY <2>3, <2>4, <2>5
  <2> HIDE DEF ms, o
  <2>7. o.allowed
    BY <2>1, <2>6, LinkFinds
  <2> QED BY <2>7 DEF o
<1> QED BY <1>1, <1>6, <1>7, <1>8, PositiveKinds

LEMMA WalkFinds ==
    ASSUME GraphInv, SubtractsNothing, NEW subject, NEW neg \in SUBSET Keys, NEW n \in Nat,
           NEW at, Staged(at, subject, neg, n), NEW maxDepth \in Nat, NEW top \in Nat
    PROVE  Finds(ProductionWalk(subject, maxDepth)[top], at, neg, n, maxDepth, top)
<1> DEFINE walk(h) == ProductionWalk(subject, maxDepth)[h]
           Good == {h \in 0..top : Finds(walk(h), at, neg, n, maxDepth, h)}
<1>1. ASSUME NEW h \in Nat, NEW rule \in AllRewrites, NEW object \in Entities,
             NEW visited \in SUBSET Keys, NEW depth \in Nat
      PROVE  walk(h)[Call(rule, object, visited, depth)]
               = IF h = 0 THEN OverHeight
                 ELSE EvalRewrite(walk(h - 1), subject, rule, object, visited, depth, maxDepth)
  BY CallValue
<1> HIDE DEF walk
<1>2. ASSUME NEW i \in 0..MaxNesting, NEW m \in 0..n
      PROVE  i \in Nat /\ i <= MaxNesting /\ Visits(m) \in Nat
  <2>1. MaxNesting + 1 \in Nat /\ i \in Nat /\ i <= MaxNesting
    BY GraphAssumption
  <2>2. m * (MaxNesting + 1) \in Nat
    BY <2>1, Multiples
  <2> QED BY <2>1, <2>2 DEF Visits
<1>3. 0 \in Good
  <2>1. \A i \in 0..MaxNesting, m \in 0..n : ~(i + 1 + Visits(m) <= 0)
    BY <1>2
  <2>2. Finds(walk(0), at, neg, n, maxDepth, 0)
    BY <2>1 DEF Finds
  <2>3. 0 \in 0..top
    OBVIOUS
  <2> QED BY <2>2, <2>3
<1>4. ASSUME NEW h \in 1..top, h - 1 \in Good PROVE h \in Good
  <2>1. h \in Nat /\ h # 0 /\ h - 1 \in Nat /\ Finds(walk(h - 1), at, neg, n, maxDepth, h - 1)
    BY <1>4
  <2>2. ASSUME NEW i \in 0..MaxNesting, NEW m \in 0..n,
               NEW rule \in Positives[i], NEW object \in Entities,
               NEW visited \in SUBSET Keys, NEW depth \in Nat,
               visited \cap at[m] = {}, depth + m <= maxDepth, i + 1 + Visits(m) <= h,
               Satisfied(rule, object, at[m], neg)
        PROVE  walk(h)[Call(rule, object, visited, depth)].allowed
    <3>1. rule \in AllRewrites
      <4>1. rule \in Rewrites[i]
        BY <1>2, PositivesAreRewrites
      <4> QED BY <1>2, <4>1, RewritesWithin
    <3>2. i + Visits(m) <= h - 1
      BY <1>2, <2>2
    <3>3. walk(h)[Call(rule, object, visited, depth)]
            = EvalRewrite(walk(h - 1), subject, rule, object, visited, depth, maxDepth)
      BY <1>1, <2>1, <3>1
    <3> QED BY <2>1, <2>2, <3>2, <3>3, EvalFinds
  <2>3. Finds(walk(h), at, neg, n, maxDepth, h)
    BY <2>2 DEF Finds
  <2> QED BY <2>3
<1>5. 0..top \subseteq Good
  <2> HIDE DEF Good
  <2> QED BY <1>3, <1>4, Along
<1>6. top \in Good
  <2> HIDE DEF Good
  <2> QED BY <1>5
<1> QED BY <1>6 DEF walk

LEMMA CheckFinds ==
    ASSUME GraphInv, SubtractsNothing, NEW subject, NEW pos, NEW neg, IsPair(subject, pos, neg),
           NEW object \in Entities, NEW name \in STRING, NEW maxDepth \in Nat,
           Cardinality(Pairs) <= maxDepth, Key(object, name) \in pos
    PROVE  ProductionCheck(subject, object, name, maxDepth).allowed
<1> DEFINE n == Cardinality(Pairs)
           h == Height(maxDepth)
           walk == ProductionWalk(subject, maxDepth)[h]
<1>1. n \in Nat /\ h \in Nat /\ n <= maxDepth
  BY PairsAreFinite, FS_CardinalityType, HeightsAreNumbers DEF GraphInv
<1>2. IsSchema(schema) /\ neg \in SUBSET Keys
  BY DEF GraphInv, IsPair
<1> HIDE DEF n, h
<1>3. PICK at : Staged(at, subject, neg, n)
  BY <1>1, StagesExist
<1>4. Key(object, name) \in at[n]
  <2>1. ClosedUnder(subject, neg, at[n])
    BY <1>2, <1>3, StagesClose DEF n
  <2>2. n \in 0..n
    BY <1>1
  <2>3. at[n] \in SUBSET Pairs
    BY <1>3, <2>2 DEF Staged
  <2> QED BY <2>1, <2>3 DEF IsPair, IsLeast
<1>5. Finds(walk, at, neg, n, maxDepth, h)
  BY <1>1, <1>2, <1>3, WalkFinds
<1> HIDE DEF walk
<1>6. Visits(n) <= h
  <2>1. maxDepth + 2 \in Nat /\ n <= maxDepth + 2 /\ MaxNesting + 1 \in Nat
    BY <1>1, GraphAssumption
  <2>2. n * (MaxNesting + 1) <= (maxDepth + 2) * (MaxNesting + 1)
    BY <1>1, <2>1, Multiples
  <2> QED BY <2>2 DEF Visits, h, Height
<1>7. {} \in SUBSET Keys /\ 0 \in Nat /\ n \in 0..n /\ {} \cap at[n] = {} /\ 0 + n <= maxDepth
  BY <1>1
<1>8. Resolve(walk, subject, object, name, {}, 0, maxDepth).allowed
  BY <1>1, <1>2, <1>3, <1>4, <1>5, <1>6, <1>7, ResolveFinds
<1> QED BY <1>8 DEF ProductionCheck, walk, h

-----------------------------------------------------------------------------
\* Whatever the schema and the stored tuples, a check that has decided under one depth limit
\* decides the same under a larger one; and where nothing is subtracted, a limit as large as
\* there are names on objects finds all that is true, cycles or not.
THEOREM DeeperDecidesMore == GraphSpec => []DeeperOnlyDecidesMore
<1>1. GraphInv => DeeperOnlyDecidesMore
  <2> SUFFICES ASSUME GraphInv, NEW s \in Subjects, NEW k \in Pairs, NEW d \in Depths
               PROVE  LET shallow == ProductionCheck(s, k[1], k[2], d) IN
                      /\ (SubtractsNothing /\ Cardinality(Pairs) <= d /\ k \in Model(s).true)
                           => shallow.allowed
                      /\ shallow.certain => \A e \in {e \in Depths : d < e} :
                           LET deep == ProductionCheck(s, k[1], k[2], e)
                           IN  deep.certain /\ deep.allowed = shallow.allowed
    BY DEF DeeperOnlyDecidesMore
  <2>1. d \in Nat
    BY DepthsAssumption
  <2>2. k[1] \in Entities /\ k[2] \in STRING /\ k = Key(k[1], k[2])
    BY PairKinds DEF GraphInv
  <2> DEFINE shallow == ProductionCheck(s, k[1], k[2], d)
             deep(e) == ProductionCheck(s, k[1], k[2], e)
  <2>3. ASSUME SubtractsNothing, Cardinality(Pairs) <= d, k \in Model(s).true
        PROVE  shallow.allowed
    <3>1. Key(k[1], k[2]) \in Model(s).true
      BY <2>2, <2>3
    <3> QED BY <2>1, <2>2, <2>3, <3>1, ModelIsPair, CheckFinds
  <2>4. ASSUME shallow.certain, NEW e \in Depths, d < e
        PROVE  deep(e).certain /\ deep(e).allowed = shallow.allowed
    <3>1. e \in Nat /\ d <= e
      BY <2>1, <2>4, DepthsAssumption
    <3>2. Kept(shallow, deep(e))
      BY <2>1, <2>2, <3>1, CheckKept
    <3> HIDE DEF shallow, deep
    <3>3. CASE shallow.allowed
      BY <3>2, <3>3 DEF Kept
    <3>4. CASE ~shallow.allowed
      BY <2>4, <3>2, <3>4 DEF Kept
    <3> QED BY <3>3, <3>4
  <2> QED BY <2>3, <2>4
<1> QED BY <1>1, GraphInvHolds, PTL

-----------------------------------------------------------------------------
(***************************************************************************)
(* Windows end.  A walk that saw no tuple with a window is the same walk   *)
(* when windows have ended: the same rounds of the recursive query, and    *)
(* the same rows where a rule reads tuples.                                *)
(***************************************************************************)
\* What a step that only ends windows does to the rows a read sees.
OnlyEnds == /\ schema' = schema
            /\ Live' \subseteq Live
            /\ Live \ Live' \subseteq Expiring
            /\ Expiring' \subseteq Expiring

LEMMA ExpireOnlyEnds ==
    ASSUME GraphInv, Expire
    PROVE  OnlyEnds
<1>1. PICK ts \in SUBSET Expiring : rows' = Ended(ts)
  BY DEF Expire
<1>2. \A t \in Tuples : rows'[t] = IF t \in ts THEN "expired" ELSE rows[t]
  BY <1>1 DEF Ended
<1>3. schema' = schema
  BY DEF Expire
<1> QED BY <1>1, <1>2, <1>3 DEF OnlyEnds, Live, Expiring

-----------------------------------------------------------------------------
RoundsAlways == \A start, maxDepth : \A h \in Nat :
  Rounds(start, maxDepth)[h] = RoundsStep(start, maxDepth, h, Rounds(start, maxDepth)[h - 1])

LEMMA RoundsAlwaysUnfold == RoundsAlways
BY RoundsUnfolds DEF RoundsAlways

ProductionAlways == \A subject, maxDepth : \A h \in Nat :
  ProductionWalk(subject, maxDepth)[h]
    = ProductionStep(subject, maxDepth, h, ProductionWalk(subject, maxDepth)[h - 1])

LEMMA ProductionAlwaysUnfolds == ProductionAlways
BY ProductionUnfolds DEF ProductionAlways

\* No window is on the tuples of these keys.
Unwindowed(keys) == \A key \in keys, t \in Live : OnKey(t, key) => t \notin Expiring

LEMMA SameJoined ==
    ASSUME OnlyEnds, NEW level, NEW maxDepth, Unwindowed(KeysOf(level))
    PROVE  Joined(level, maxDepth)' = Joined(level, maxDepth)
<1>1. ASSUME NEW m \in level
      PROVE  {t \in Live' : Extends(t, m, maxDepth)} = {t \in Live : Extends(t, m, maxDepth)}
  <2>1. m.key \in KeysOf(level)
    BY DEF KeysOf
  <2>2. \A t \in Live : Extends(t, m, maxDepth) => t \in Live'
    BY <2>1 DEF Extends, Unwindowed, OnlyEnds
  <2> QED BY <2>2 DEF OnlyEnds
<1>2. Joined(level, maxDepth)'
        = UNION {{[key |-> Target(t), depth |-> m.depth + 1, path |-> Append(m.path, Target(t))] :
                    t \in {t \in Live' : Extends(t, m, maxDepth)}} : m \in level}
  BY DEF Joined
<1> QED BY <1>1, <1>2 DEF Joined

\* The rounds see no more than the result.
LEMMA RoundsWithinResult ==
    ASSUME GraphInv, NEW start \in Keys, NEW maxDepth \in Nat, NEW n \in 0..maxDepth,
           NEW rs, SpreadResult(rs, start, maxDepth),
           NEW r \in Rounds({StartRow(start)}, maxDepth)[n]
    PROVE  KeysOf(r.level) \subseteq KeysOf(rs)
<1>1. Spreads(r.rows, start, n) /\ GoodRound(r, start, n, maxDepth)
  BY RoundsSpread, RoundsAreGood
<1>2. Spreads(rs, start, n)
  BY DEF SpreadResult, Spreads
<1>3. KeysWithin(r.rows, n) = KeysWithin(rs, n)
  <2>1. n \in Nat /\ n \in 0..n
    OBVIOUS
  <2> QED BY <1>1, <1>2, <2>1, SameSpread
<1>4. KeysOf(r.level) \subseteq KeysWithin(r.rows, n)
  BY <1>1 DEF GoodRound, GoodRow, KeysOf, KeysWithin
<1>5. KeysWithin(rs, n) \subseteq KeysOf(rs)
  BY DEF KeysOf, KeysWithin
<1> QED BY <1>3, <1>4, <1>5

LEMMA SameRounds ==
    ASSUME GraphInv, OnlyEnds, NEW start \in Keys, NEW maxDepth \in Nat,
           NEW first, first = {StartRow(start)},
           NEW rs, SpreadResult(rs, start, maxDepth), Unwindowed(KeysOf(rs))
    PROVE  Rounds(first, maxDepth)'[maxDepth] = Rounds(first, maxDepth)[maxDepth]
<1> DEFINE at(k) == Rounds(first, maxDepth)[k]
           later(k) == Rounds(first, maxDepth)'[k]
           Good == {k \in 0..maxDepth : later(k) = at(k)}
<1>1. \A k \in Nat : at(k) = RoundsStep(first, maxDepth, k, at(k - 1))
  BY RoundsUnfolds
<1>2. ASSUME NEW k \in Nat
      PROVE  later(k) = IF k = 0 THEN {[rows |-> first, level |-> first]}
                        ELSE UNION {{[rows |-> r.rows \cup next, level |-> next] :
                                       next \in DistinctOn(Joined(r.level, maxDepth)')} :
                                      r \in later(k - 1)}
  <2>1. RoundsAlways'
    BY RoundsAlwaysUnfold, PTL
  <2>2. later(k) = RoundsStep(first, maxDepth, k, Rounds(first, maxDepth)[k - 1])'
    BY <2>1 DEF RoundsAlways
  <2> QED BY <2>2 DEF RoundsStep
<1>3. \A k \in 0..maxDepth : \A r \in at(k) : KeysOf(r.level) \subseteq KeysOf(rs)
  BY RoundsWithinResult
<1> HIDE DEF at, later
<1>4. 0 \in Good
  <2>1. at(0) = {[rows |-> first, level |-> first]}
    BY <1>1 DEF RoundsStep
  <2>2. later(0) = {[rows |-> first, level |-> first]}
    BY <1>2
  <2> QED BY <2>1, <2>2
<1>5. ASSUME NEW k \in 1..maxDepth, k - 1 \in Good PROVE k \in Good
  <2>1. k \in Nat /\ k # 0 /\ k - 1 \in 0..maxDepth /\ later(k - 1) = at(k - 1)
    BY <1>5
  <2>2. ASSUME NEW r \in at(k - 1)
        PROVE  Joined(r.level, maxDepth)' = Joined(r.level, maxDepth)
    <3>1. Unwindowed(KeysOf(r.level))
      BY <1>3, <2>1 DEF Unwindowed
    <3> QED BY <3>1, SameJoined
  <2>3. later(k) = UNION {{[rows |-> r.rows \cup next, level |-> next] :
                             next \in DistinctOn(Joined(r.level, maxDepth)')} : r \in at(k - 1)}
    BY <1>2, <2>1
  <2>4. at(k) = UNION {{[rows |-> r.rows \cup next, level |-> next] :
                          next \in DistinctOn(Joined(r.level, maxDepth))} : r \in at(k - 1)}
    BY <1>1, <2>1 DEF RoundsStep
  <2>5. later(k) = at(k)
    BY <2>2, <2>3, <2>4
  <2> QED BY <2>5
<1>6. 0..maxDepth \subseteq Good
  <2> HIDE DEF Good
  <2> QED BY <1>4, <1>5, Along
<1> QED BY <1>6 DEF at, later

LEMMA SameFrontiers ==
    ASSUME GraphInv, OnlyEnds, NEW object \in Entity, NEW relation \in STRING,
           NEW maxDepth \in Nat,
           NEW rs \in ReachableFrontiers(object, relation, maxDepth), Unwindowed(KeysOf(rs))
    PROVE  ReachableFrontiers(object, relation, maxDepth)' = ReachableFrontiers(object, relation, maxDepth)
<1> DEFINE first == {StartRow(Key(object, relation))}
<1>1. Key(object, relation) \in Keys
  BY DEF Key, Keys
<1>2. SpreadResult(rs, Key(object, relation), maxDepth)
  BY ResultsSpread
<1>3. first = {StartRow(Key(object, relation))}
  OBVIOUS
<1> HIDE DEF first
<1>4. Rounds(first, maxDepth)'[maxDepth] = Rounds(first, maxDepth)[maxDepth]
  BY <1>1, <1>2, <1>3, SameRounds
<1>5. /\ ReachableFrontiers(object, relation, maxDepth) = {r.rows : r \in Rounds(first, maxDepth)[maxDepth]}
      /\ ReachableFrontiers(object, relation, maxDepth)' = {r.rows : r \in Rounds(first, maxDepth)'[maxDepth]}
  BY DEF ReachableFrontiers, first
<1> QED BY <1>4, <1>5

\* What an outcome that saw no window says is said again.
Lasts(o, p) ==
  ~o.touched => ~p.touched /\ (p.allowed <=> o.allowed) /\ (p.certain <=> o.certain)

LEMMA AllowedLasts ==
    ASSUME NEW t, NEW x, NEW v, NEW y, ~t => ~v
    PROVE  Lasts(Allowed(t, x), Allowed(v, y))
BY DEF Lasts, Allowed

LEMMA DeniedLasts ==
    ASSUME NEW c, NEW t, NEW x, NEW e, NEW v, NEW y, ~t => ~v /\ (e <=> c)
    PROVE  Lasts(Denied(c, t, x), Denied(e, v, y))
BY DEF Lasts, Denied

LEMMA TouchedLasts ==
    ASSUME NEW o, NEW p, o.touched
    PROVE  Lasts(o, p)
BY DEF Lasts

LEMMA AllKeysRead ==
    ASSUME NEW start, NEW maxDepth \in Nat, NEW rs, GoodResult(rs, start, maxDepth),
           TuplesOnFrontier(DedupeFrontier(rs)) \cap Expiring = {}
    PROVE  Unwindowed(KeysOf(rs))
<1> SUFFICES ASSUME NEW q \in rs, NEW t \in Live, OnKey(t, q.key) PROVE t \notin Expiring
  BY DEF Unwindowed, KeysOf
<1>1. PICK d \in DedupeFrontier(rs) : d.key = q.key
  BY ShallowestRow
<1>2. t \in TuplesOnFrontier(DedupeFrontier(rs))
  BY <1>1 DEF TuplesOnFrontier
<1> QED BY <1>2

LEMMA OutcomeLasts ==
    ASSUME GraphInv, OnlyEnds, NEW subject, NEW object, NEW relation, NEW maxDepth \in Nat,
           NEW start, NEW rs, GoodResult(rs, start, maxDepth), Unwindowed(KeysOf(rs))
    PROVE  Lasts(OutcomeOfRows(rs, object, relation, subject, maxDepth),
                 OutcomeOfRows(rs, object, relation, subject, maxDepth)')
<1>1. PICK frontier : frontier = DedupeFrontier(rs)
  OBVIOUS
<1>2. PICK reached : reached = DepthReached(rs)
  OBVIOUS
<1>3. \A r \in frontier : r \in rs /\ \A t \in Live : OnKey(t, r.key) => t \notin Expiring /\ t \in Live'
  <2>1. \A r \in frontier : r \in rs /\ r.key \in KeysOf(rs)
    BY <1>1 DEF DedupeFrontier, KeysOf
  <2> QED BY <2>1 DEF Unwindowed, OnlyEnds
<1>4. PICK read : read = TuplesOnFrontier(frontier)
  OBVIOUS
<1>5. TuplesOnFrontier(frontier)' = read
  BY <1>3, <1>4 DEF TuplesOnFrontier, OnlyEnds
<1>6. read \cap Expiring = {} /\ read \cap Expiring' = {}
  BY <1>3, <1>4 DEF TuplesOnFrontier, OnlyEnds
<1>7. DepthCeilingBinding(frontier, reached, maxDepth)' <=> DepthCeilingBinding(frontier, reached, maxDepth)
  BY <1>3 DEF DepthCeilingBinding, OnlyEnds
<1> DEFINE matches == {m \in frontier \X read : Grants(m[2], m[1], subject)}
<1>8. /\ matches # {} => \E x : OutcomeOfRows(rs, object, relation, subject, maxDepth)
                                  = Allowed(read \cap Expiring # {}, x)
      /\ matches = {} => \E x : OutcomeOfRows(rs, object, relation, subject, maxDepth)
                                  = Denied(~DepthCeilingBinding(frontier, reached, maxDepth),
                                           read \cap Expiring # {}, x)
  BY <1>1, <1>2, <1>4 DEF OutcomeOfRows
<1>9. /\ matches # {} => \E x : OutcomeOfRows(rs, object, relation, subject, maxDepth)'
                                  = Allowed(read \cap Expiring' # {}, x)
      /\ matches = {} => \E x : OutcomeOfRows(rs, object, relation, subject, maxDepth)'
                                  = Denied(~DepthCeilingBinding(frontier, reached, maxDepth)',
                                           read \cap Expiring' # {}, x)
  BY <1>1, <1>2, <1>5 DEF OutcomeOfRows
<1> HIDE DEF matches
<1>10. CASE matches # {}
  BY <1>6, <1>8, <1>9, <1>10 DEF Lasts, Allowed
<1>11. CASE matches = {}
  BY <1>6, <1>7, <1>8, <1>9, <1>11 DEF Lasts, Denied
<1> QED BY <1>10, <1>11

LEMMA RelationLasts ==
    ASSUME GraphInv, OnlyEnds, NEW subject, NEW object \in Entity, NEW relation \in STRING,
           NEW maxDepth \in Nat
    PROVE  Lasts(SqlRelationMembership(object, relation, subject, maxDepth),
                 SqlRelationMembership(object, relation, subject, maxDepth)')
<1>1. PICK rs : rs = (CHOOSE q \in ReachableFrontiers(object, relation, maxDepth) : TRUE)
  OBVIOUS
<1>2. SqlRelationMembership(object, relation, subject, maxDepth)
        = OutcomeOfRows(rs, object, relation, subject, maxDepth)
  BY <1>1 DEF SqlRelationMembership
<1>3. rs \in ReachableFrontiers(object, relation, maxDepth)
  BY <1>1, ResultsAreGood
<1>4. GoodResult(rs, Key(object, relation), maxDepth)
  BY <1>3, ResultsAreGood
<1> DEFINE touched == TuplesOnFrontier(DedupeFrontier(rs)) \cap Expiring # {}
<1>5. CASE touched
  <2>1. \E c, x : \/ OutcomeOfRows(rs, object, relation, subject, maxDepth) = Allowed(touched, x)
                  \/ OutcomeOfRows(rs, object, relation, subject, maxDepth) = Denied(c, touched, x)
    BY DEF OutcomeOfRows
  <2>2. OutcomeOfRows(rs, object, relation, subject, maxDepth).touched
    <3> HIDE DEF touched
    <3> QED BY <1>5, <2>1 DEF Allowed, Denied
  <2> QED BY <1>2, <2>2 DEF Lasts
<1>6. CASE ~touched
  <2>1. Unwindowed(KeysOf(rs))
    BY <1>4, <1>6, AllKeysRead
  <2>2. ReachableFrontiers(object, relation, maxDepth)' = ReachableFrontiers(object, relation, maxDepth)
    BY <1>3, <2>1, SameFrontiers
  <2>3. SqlRelationMembership(object, relation, subject, maxDepth)'
          = OutcomeOfRows(rs, object, relation, subject, maxDepth)'
    BY <1>1, <2>2 DEF SqlRelationMembership
  <2>4. Lasts(OutcomeOfRows(rs, object, relation, subject, maxDepth),
              OutcomeOfRows(rs, object, relation, subject, maxDepth)')
    BY <1>4, <2>1, OutcomeLasts
  <2> QED BY <1>2, <2>3, <2>4
<1> QED BY <1>5, <1>6

-----------------------------------------------------------------------------
\* The first branch that is allowed is the first.
LEMMA NoneAllowedBefore ==
    ASSUME NEW f, Len(f) \in Nat, DOMAIN f = 1..Len(f),
           NEW first, first = SelectInSeq(f, LAMBDA o : o.allowed), NEW i \in DOMAIN f, i < first
    PROVE  ~f[i].allowed
<1> DEFINE I == {n \in 1..Len(f) : f[n].allowed}
<1>1. first = IF I # {} THEN Min(I) ELSE 0
  BY DEF SelectInSeq
<1>2. I \subseteq Nat
  OBVIOUS
<1>3. ASSUME i \in I PROVE FALSE
  <2>1. PICK m \in I : \A n \in I : m <= n
    <3> HIDE DEF I
    <3> QED BY <1>2, <1>3, LeastNumber
  <2>2. Min(I) \in I /\ \A n \in I : Min(I) <= n
    <3> HIDE DEF I
    <3> QED BY <2>1 DEF Min
  <2>3. first \in Nat /\ first <= i
    <3> HIDE DEF I
    <3> QED BY <1>1, <1>2, <1>3, <2>2
  <2>4. i \in Nat
    OBVIOUS
  <2> QED BY <2>3, <2>4
<1> QED BY <1>3

LEMMA SameLength ==
    ASSUME NEW m \in Nat, NEW n \in Nat, 1..m = 1..n
    PROVE  m = n
<1>1. ASSUME m < n PROVE FALSE
  <2>1. n \in 1..n /\ n \notin 1..m
    BY <1>1
  <2> QED BY <2>1
<1>2. ASSUME n < m PROVE FALSE
  <2>1. m \in 1..m /\ m \notin 1..n
    BY <1>2
  <2> QED BY <2>1
<1> QED BY <1>1, <1>2

LEMMA UnionLasts ==
    ASSUME NEW object, NEW f, NEW g, Len(f) \in Nat, DOMAIN f = 1..Len(f),
           Len(g) \in Nat, DOMAIN g = 1..Len(g), DOMAIN f = DOMAIN g,
           \A i \in DOMAIN f : Lasts(f[i], g[i])
    PROVE  Lasts(OfUnion(object, f), OfUnion(object, g))
<1> DEFINE i == SelectInSeq(f, LAMBDA o : o.allowed)
           j == SelectInSeq(g, LAMBDA o : o.allowed)
           cf == \A n \in DOMAIN f : f[n].certain
           cg == \A n \in DOMAIN g : g[n].certain
<1>0. Len(f) = Len(g)
  BY SameLength
<1>1. /\ i # 0 => i \in DOMAIN f /\ f[i].allowed
      /\ i = 0 => \A n \in DOMAIN f : ~f[n].allowed
      /\ \A n \in DOMAIN f : n < i => ~f[n].allowed
  BY FirstAllowed, NoneAllowedBefore
<1>2. /\ j # 0 => j \in DOMAIN g /\ g[j].allowed
      /\ j = 0 => \A n \in DOMAIN g : ~g[n].allowed
      /\ \A n \in DOMAIN g : n < j => ~g[n].allowed
  BY FirstAllowed, NoneAllowedBefore
<1>3. /\ i # 0 => \E x : OfUnion(object, f) = Allowed(TouchedUpTo(f, i), x)
      /\ i = 0 => \E x : OfUnion(object, f) = Denied(cf, TouchedUpTo(f, Len(f)), x)
      /\ j # 0 => \E x : OfUnion(object, g) = Allowed(TouchedUpTo(g, j), x)
      /\ j = 0 => \E x : OfUnion(object, g) = Denied(cg, TouchedUpTo(g, Len(g)), x)
  BY DEF OfUnion
<1> HIDE DEF i, j
<1>4. CASE i # 0
  <2>1. PICK x : OfUnion(object, f) = Allowed(TouchedUpTo(f, i), x)
    BY <1>3, <1>4
  <2>2. CASE TouchedUpTo(f, i)
    BY <2>1, <2>2, TouchedLasts DEF Allowed
  <2>3. CASE ~TouchedUpTo(f, i)
    <3>1. \A n \in 1..i : ~g[n].touched /\ (g[n].allowed <=> f[n].allowed)
      BY <1>1, <1>4, <2>3 DEF TouchedUpTo, Lasts
    <3>2. i \in 1..Len(f) /\ g[i].allowed
      BY <1>1, <1>4, <3>1
    <3>3. \A n \in DOMAIN g : n < i => ~g[n].allowed
      BY <1>1, <3>1, <3>2
    <3>4. j # 0 /\ j \in DOMAIN g
      BY <1>2, <3>2
    <3>5. ~(j < i) /\ ~(i < j)
      BY <1>2, <3>2, <3>3, <3>4
    <3>6. i = j
      BY <3>2, <3>4, <3>5
    <3>7. PICK y : OfUnion(object, g) = Allowed(TouchedUpTo(g, i), y)
      BY <1>3, <3>4, <3>6
    <3>8. ~TouchedUpTo(g, i)
      BY <3>1 DEF TouchedUpTo
    <3> QED BY <2>1, <3>7, <3>8, AllowedLasts
  <2> QED BY <2>2, <2>3
<1>5. CASE i = 0
  <2>1. PICK x : OfUnion(object, f) = Denied(cf, TouchedUpTo(f, Len(f)), x)
    BY <1>3, <1>5
  <2>2. CASE TouchedUpTo(f, Len(f))
    BY <2>1, <2>2, TouchedLasts DEF Denied
  <2>3. CASE ~TouchedUpTo(f, Len(f))
    <3>1. \A n \in DOMAIN g : /\ ~g[n].touched /\ (g[n].allowed <=> f[n].allowed)
                              /\ g[n].certain <=> f[n].certain
      BY <2>3 DEF TouchedUpTo, Lasts
    <3>2. j = 0
      BY <1>1, <1>2, <1>5, <3>1
    <3>3. ~TouchedUpTo(g, Len(g)) /\ (cg <=> cf)
      BY <1>0, <3>1 DEF TouchedUpTo
    <3>4. PICK y : OfUnion(object, g) = Denied(cg, TouchedUpTo(g, Len(g)), y)
      BY <1>3, <3>2
    <3> HIDE DEF cf, cg
    <3> QED BY <2>1, <3>3, <3>4, DeniedLasts
  <2> QED BY <2>2, <2>3
<1> QED BY <1>4, <1>5

LEMMA IntersectionLasts ==
    ASSUME NEW object, NEW f, NEW g, Len(f) \in Nat, DOMAIN f = 1..Len(f),
           Len(g) \in Nat, DOMAIN g = 1..Len(g), DOMAIN f = DOMAIN g,
           \A i \in DOMAIN f : Lasts(f[i], g[i])
    PROVE  Lasts(OfIntersection(object, f), OfIntersection(object, g))
<1> DEFINE i == SelectInSeq(f, LAMBDA o : ~o.allowed)
           j == SelectInSeq(g, LAMBDA o : ~o.allowed)
<1>0. Len(f) = Len(g)
  BY SameLength
<1>1. /\ i # 0 => i \in DOMAIN f /\ ~f[i].allowed
      /\ i = 0 => \A n \in DOMAIN f : f[n].allowed
      /\ \A n \in DOMAIN f : n < i => f[n].allowed
  BY FirstDenied, NoneDeniedBefore
<1>2. /\ j # 0 => j \in DOMAIN g /\ ~g[j].allowed
      /\ j = 0 => \A n \in DOMAIN g : g[n].allowed
      /\ \A n \in DOMAIN g : n < j => g[n].allowed
  BY FirstDenied, NoneDeniedBefore
<1>3. /\ i = 0 => \E x : OfIntersection(object, f) = Allowed(TouchedUpTo(f, Len(f)), x)
      /\ i # 0 => \E x : OfIntersection(object, f) = Denied(f[i].certain, TouchedUpTo(f, i), x)
      /\ j = 0 => \E x : OfIntersection(object, g) = Allowed(TouchedUpTo(g, Len(g)), x)
      /\ j # 0 => \E x : OfIntersection(object, g) = Denied(g[j].certain, TouchedUpTo(g, j), x)
  BY DEF OfIntersection
<1> HIDE DEF i, j
<1>4. CASE i # 0
  <2>1. PICK x : OfIntersection(object, f) = Denied(f[i].certain, TouchedUpTo(f, i), x)
    BY <1>3, <1>4
  <2>2. CASE TouchedUpTo(f, i)
    BY <2>1, <2>2, TouchedLasts DEF Denied
  <2>3. CASE ~TouchedUpTo(f, i)
    <3>1. \A n \in 1..i : /\ ~g[n].touched /\ (g[n].allowed <=> f[n].allowed)
                          /\ g[n].certain <=> f[n].certain
      BY <1>1, <1>4, <2>3 DEF TouchedUpTo, Lasts
    <3>2. i \in 1..Len(f) /\ ~g[i].allowed /\ (g[i].certain <=> f[i].certain)
      BY <1>1, <1>4, <3>1
    <3>3. \A n \in DOMAIN g : n < i => g[n].allowed
      BY <1>1, <3>1, <3>2
    <3>4. j # 0 /\ j \in DOMAIN g
      BY <1>2, <3>2
    <3>5. ~(j < i) /\ ~(i < j)
      BY <1>2, <3>2, <3>3, <3>4
    <3>6. i = j
      BY <3>2, <3>4, <3>5
    <3>7. PICK y : OfIntersection(object, g) = Denied(g[i].certain, TouchedUpTo(g, i), y)
      BY <1>3, <3>4, <3>6
    <3>8. ~TouchedUpTo(g, i)
      BY <3>1 DEF TouchedUpTo
    <3> QED BY <2>1, <3>2, <3>7, <3>8, DeniedLasts
  <2> QED BY <2>2, <2>3
<1>5. CASE i = 0
  <2>1. PICK x : OfIntersection(object, f) = Allowed(TouchedUpTo(f, Len(f)), x)
    BY <1>3, <1>5
  <2>2. CASE TouchedUpTo(f, Len(f))
    BY <2>1, <2>2, TouchedLasts DEF Allowed
  <2>3. CASE ~TouchedUpTo(f, Len(f))
    <3>1. \A n \in DOMAIN g : ~g[n].touched /\ (g[n].allowed <=> f[n].allowed)
      BY <2>3 DEF TouchedUpTo, Lasts
    <3>2. j = 0
      BY <1>1, <1>2, <1>5, <3>1
    <3>3. ~TouchedUpTo(g, Len(g))
      BY <1>0, <3>1 DEF TouchedUpTo
    <3>4. PICK y : OfIntersection(object, g) = Allowed(TouchedUpTo(g, Len(g)), y)
      BY <1>3, <3>2
    <3> QED BY <2>1, <3>3, <3>4, AllowedLasts
  <2> QED BY <2>2, <2>3
<1> QED BY <1>4, <1>5

LEMMA ExclusionLasts ==
    ASSUME NEW object, NEW b, NEW s, NEW c, NEW t, Lasts(b, c), Lasts(s, t)
    PROVE  Lasts(OfExclusion(object, b, s), OfExclusion(object, c, t))
<1> DEFINE u == b.touched \/ s.touched
           v == c.touched \/ t.touched
<1>1. /\ ~b.allowed => \E x : OfExclusion(object, b, s) = Denied(b.certain, b.touched, x)
      /\ b.allowed /\ s.allowed => \E x : OfExclusion(object, b, s) = Denied(TRUE, u, x)
      /\ b.allowed /\ ~s.allowed /\ ~s.certain
           => \E x : OfExclusion(object, b, s) = Denied(FALSE, u, x)
      /\ b.allowed /\ ~s.allowed /\ s.certain => \E x : OfExclusion(object, b, s) = Allowed(u, x)
  BY DEF OfExclusion
<1>2. /\ ~c.allowed => \E x : OfExclusion(object, c, t) = Denied(c.certain, c.touched, x)
      /\ c.allowed /\ t.allowed => \E x : OfExclusion(object, c, t) = Denied(TRUE, v, x)
      /\ c.allowed /\ ~t.allowed /\ ~t.certain
           => \E x : OfExclusion(object, c, t) = Denied(FALSE, v, x)
      /\ c.allowed /\ ~t.allowed /\ t.certain => \E x : OfExclusion(object, c, t) = Allowed(v, x)
  BY DEF OfExclusion
<1>3. CASE ~b.allowed
  BY <1>1, <1>2, <1>3 DEF Lasts, Denied
<1>4. CASE b.allowed /\ u
  <2> DEFINE o == OfExclusion(object, b, s)
  <2>1. \E e, x : o = Denied(e, u, x) \/ o = Allowed(u, x)
    BY <1>1, <1>4
  <2>2. o.touched
    <3> HIDE DEF o, u
    <3> QED BY <1>4, <2>1 DEF Denied, Allowed
  <2> QED BY <2>2, TouchedLasts
<1>5. CASE b.allowed /\ ~u
  <2>1. /\ ~v /\ c.allowed
        /\ t.allowed <=> s.allowed
        /\ t.certain <=> s.certain
    BY <1>5 DEF Lasts
  <2> HIDE DEF u, v
  <2>2. CASE s.allowed
    <3>1. PICK x : OfExclusion(object, b, s) = Denied(TRUE, u, x)
      BY <1>1, <1>5, <2>2
    <3>2. PICK y : OfExclusion(object, c, t) = Denied(TRUE, v, y)
      BY <1>2, <2>1, <2>2
    <3> QED BY <2>1, <3>1, <3>2, DeniedLasts
  <2>3. CASE ~s.allowed /\ ~s.certain
    <3>1. PICK x : OfExclusion(object, b, s) = Denied(FALSE, u, x)
      BY <1>1, <1>5, <2>3
    <3>2. PICK y : OfExclusion(object, c, t) = Denied(FALSE, v, y)
      BY <1>2, <2>1, <2>3
    <3> QED BY <2>1, <3>1, <3>2, DeniedLasts
  <2>4. CASE ~s.allowed /\ s.certain
    <3>1. PICK x : OfExclusion(object, b, s) = Allowed(u, x)
      BY <1>1, <1>5, <2>4
    <3>2. PICK y : OfExclusion(object, c, t) = Allowed(v, y)
      BY <1>2, <2>1, <2>4
    <3> QED BY <2>1, <3>1, <3>2, AllowedLasts
  <2> QED BY <2>2, <2>3, <2>4
<1> QED BY <1>3, <1>4, <1>5

\* The members of a link: for each of the first set one of the second, and where
\* the link saw no window, no others.
LEMMA LinkLasts ==
    ASSUME NEW object, NEW rule, NEW u, NEW v, NEW ms, NEW ns,
           ~u => /\ ~v
                 /\ \A m \in ms : \E n \in ns : Lasts(m.outcome, n.outcome)
                 /\ \A n \in ns : \E m \in ms : Lasts(m.outcome, n.outcome)
    PROVE  Lasts(OfTupleToUserset(object, rule, u, ms), OfTupleToUserset(object, rule, v, ns))
<1> DEFINE pm == {m \in ms : m.outcome.allowed}
           pn == {m \in ns : m.outcome.allowed}
           cm == \A m \in ms : m.outcome.certain
           cn == \A m \in ns : m.outcome.certain
           am == u \/ \A m \in pm : m.outcome.touched
           an == v \/ \A m \in pn : m.outcome.touched
           dm == u \/ \E m \in ms : m.outcome.touched
           dn == v \/ \E m \in ns : m.outcome.touched
<1>1. /\ pm # {} => \E y : OfTupleToUserset(object, rule, u, ms) = Allowed(am, y)
      /\ pm = {} => \E y : OfTupleToUserset(object, rule, u, ms) = Denied(cm, dm, y)
  BY DEF OfTupleToUserset
<1>2. /\ pn # {} => \E y : OfTupleToUserset(object, rule, v, ns) = Allowed(an, y)
      /\ pn = {} => \E y : OfTupleToUserset(object, rule, v, ns) = Denied(cn, dn, y)
  BY DEF OfTupleToUserset
<1>3. pm # {} /\ ~am => pn # {} /\ ~an
  BY DEF Lasts
<1>4. pm = {} /\ ~dm => pn = {} /\ ~dn /\ (cn <=> cm)
  BY DEF Lasts
<1> HIDE DEF pm, pn, cm, cn, am, an, dm, dn
<1>5. CASE pm # {}
  <2>1. PICK x : OfTupleToUserset(object, rule, u, ms) = Allowed(am, x)
    BY <1>1, <1>5
  <2>2. CASE am
    BY <2>1, <2>2, TouchedLasts DEF Allowed
  <2>3. CASE ~am
    BY <1>2, <1>3, <1>5, <2>1, <2>3, AllowedLasts
  <2> QED BY <2>2, <2>3
<1>6. CASE pm = {}
  <2>1. PICK x : OfTupleToUserset(object, rule, u, ms) = Denied(cm, dm, x)
    BY <1>1, <1>6
  <2>2. CASE dm
    BY <2>1, <2>2, TouchedLasts DEF Denied
  <2>3. CASE ~dm
    <3>1. PICK y : OfTupleToUserset(object, rule, v, ns) = Denied(cn, dn, y)
      BY <1>2, <1>4, <1>6, <2>3
    <3> QED BY <1>4, <1>6, <2>1, <2>3, <3>1, DeniedLasts
  <2> QED BY <2>2, <2>3
<1> QED BY <1>5, <1>6

-----------------------------------------------------------------------------
\* Two walks, the second after windows have ended.
LastingWalk(f, g) ==
  \A rule \in AllRewrites, object \in Entities, visited \in SUBSET Keys, depth \in Nat :
    Lasts(f[Call(rule, object, visited, depth)], g[Call(rule, object, visited, depth)])

LEMMA ResolveLasts ==
    ASSUME GraphInv, OnlyEnds, NEW subject, NEW f, NEW g, LastingWalk(f, g),
           NEW object \in Entities, NEW name \in STRING, NEW visited \in SUBSET Keys,
           NEW depth \in Nat, NEW maxDepth \in Nat
    PROVE  Lasts(Resolve(f, subject, object, name, visited, depth, maxDepth),
                 Resolve(g, subject, object, name, visited, depth, maxDepth)')
<1> DEFINE rule == schema[object.ns].permissions[name]
           more == visited \cup {Key(object, name)}
<1>1. schema' = schema /\ Declares(object.ns, name)' = Declares(object.ns, name)
      /\ Defines(object.ns, name)' = Defines(object.ns, name)
  BY DEF OnlyEnds, Declares, Defines
<1>2. CASE depth > maxDepth \/ Key(object, name) \in visited
  BY <1>2 DEF Resolve, Lasts, Denied
<1>3. CASE ~(depth > maxDepth) /\ Key(object, name) \notin visited
  <2>1. CASE Declares(object.ns, name)
    <3>1. Resolve(f, subject, object, name, visited, depth, maxDepth)
            = SqlRelationMembership(object, name, subject, maxDepth - depth)
      BY <1>3, <2>1 DEF Resolve
    <3>2. Resolve(g, subject, object, name, visited, depth, maxDepth)'
            = SqlRelationMembership(object, name, subject, maxDepth - depth)'
      BY <1>1, <1>3, <2>1 DEF Resolve
    <3>3. object \in Entity /\ maxDepth - depth \in Nat
      BY <1>3, EntitiesAreTyped
    <3>4. PICK left \in Nat : left = maxDepth - depth
      BY <3>3
    <3>5. Lasts(SqlRelationMembership(object, name, subject, left),
                SqlRelationMembership(object, name, subject, left)')
      BY <3>3, RelationLasts
    <3> QED BY <3>1, <3>2, <3>4, <3>5
  <2>2. CASE ~Declares(object.ns, name) /\ Defines(object.ns, name)
    <3>1. Resolve(f, subject, object, name, visited, depth, maxDepth)
            = f[Call(rule, object, more, depth + 1)]
      BY <1>3, <2>2 DEF Resolve
    <3>2. Resolve(g, subject, object, name, visited, depth, maxDepth)'
            = g[Call(rule, object, more, depth + 1)]
      BY <1>1, <1>3, <2>2 DEF Resolve
    <3>3. rule \in AllRewrites /\ more \in SUBSET Keys /\ depth + 1 \in Nat
      BY <2>2, VisitIsTyped DEF GraphInv, IsSchema, Defines
    <3> HIDE DEF rule, more
    <3> QED BY <3>1, <3>2, <3>3 DEF LastingWalk
  <2>3. CASE ~Declares(object.ns, name) /\ ~Defines(object.ns, name)
    <3>1. Resolve(f, subject, object, name, visited, depth, maxDepth)
            = Denied(TRUE, FALSE, UndeclaredName(object, name))
      BY <1>3, <2>3 DEF Resolve
    <3>2. Resolve(g, subject, object, name, visited, depth, maxDepth)'
            = Denied(TRUE, FALSE, UndeclaredName(object, name))
      BY <1>1, <1>3, <2>3 DEF Resolve
    <3> QED BY <3>1, <3>2 DEF Lasts, Denied
  <2> QED BY <2>1, <2>2, <2>3
<1> QED BY <1>2, <1>3

LEMMA EvalLasts ==
    ASSUME GraphInv, OnlyEnds, NEW subject, NEW f, NEW g, LastingWalk(f, g),
           NEW rule \in AllRewrites, NEW object \in Entities, NEW visited \in SUBSET Keys,
           NEW depth \in Nat, NEW maxDepth \in Nat
    PROVE  Lasts(EvalRewrite(f, subject, rule, object, visited, depth, maxDepth),
                 EvalRewrite(g, subject, rule, object, visited, depth, maxDepth)')
<1>1. CASE rule.kind = "computedUserset"
  <2>1. /\ EvalRewrite(f, subject, rule, object, visited, depth, maxDepth)
             = Resolve(f, subject, object, rule.name, visited, depth, maxDepth)
        /\ EvalRewrite(g, subject, rule, object, visited, depth, maxDepth)'
             = Resolve(g, subject, object, rule.name, visited, depth, maxDepth)'
    BY <1>1 DEF EvalRewrite
  <2>2. PICK name \in STRING : name = rule.name
    BY <1>1, RuleKinds
  <2>3. Lasts(Resolve(f, subject, object, name, visited, depth, maxDepth),
              Resolve(g, subject, object, name, visited, depth, maxDepth)')
    BY ResolveLasts
  <2> QED BY <2>1, <2>2, <2>3
<1>2. CASE rule.kind \in {"union", "intersection"}
  <2> DEFINE fs == [i \in DOMAIN rule.children |->
                      f[Call(rule.children[i], object, visited, depth)]]
             gs == [i \in DOMAIN rule.children |->
                      g[Call(rule.children[i], object, visited, depth)]]
  <2>1. /\ rule.kind = "union"
             => /\ EvalRewrite(f, subject, rule, object, visited, depth, maxDepth) = OfUnion(object, fs)
                /\ EvalRewrite(g, subject, rule, object, visited, depth, maxDepth)' = OfUnion(object, gs)
        /\ rule.kind = "intersection"
             => /\ EvalRewrite(f, subject, rule, object, visited, depth, maxDepth)
                     = OfIntersection(object, fs)
                /\ EvalRewrite(g, subject, rule, object, visited, depth, maxDepth)'
                     = OfIntersection(object, gs)
    BY DEF EvalRewrite
  <2>2. \A i \in DOMAIN rule.children : rule.children[i] \in AllRewrites
    BY <1>2, RuleKinds
  <2>3. \A i \in DOMAIN fs : Lasts(fs[i], gs[i])
    BY <2>2 DEF LastingWalk
  <2>4. DOMAIN fs = DOMAIN rule.children /\ DOMAIN gs = DOMAIN rule.children
    OBVIOUS
  <2> HIDE DEF fs, gs
  <2>5. /\ Len(fs) \in Nat /\ DOMAIN fs = 1..Len(fs)
        /\ Len(gs) \in Nat /\ DOMAIN gs = 1..Len(gs)
    BY <1>2, <2>4, BranchCount
  <2>6. Lasts(OfUnion(object, fs), OfUnion(object, gs))
    BY <2>3, <2>4, <2>5, UnionLasts
  <2>7. Lasts(OfIntersection(object, fs), OfIntersection(object, gs))
    BY <2>3, <2>4, <2>5, IntersectionLasts
  <2> QED BY <1>2, <2>1, <2>6, <2>7
<1>3. CASE rule.kind = "exclusion"
  <2> DEFINE b == f[Call(rule.base, object, visited, depth)]
             s == f[Call(rule.subtract, object, visited, depth)]
             c == g[Call(rule.base, object, visited, depth)]
             t == g[Call(rule.subtract, object, visited, depth)]
  <2>1. /\ EvalRewrite(f, subject, rule, object, visited, depth, maxDepth) = OfExclusion(object, b, s)
        /\ EvalRewrite(g, subject, rule, object, visited, depth, maxDepth)' = OfExclusion(object, c, t)
    BY <1>3 DEF EvalRewrite
  <2>2. rule.base \in AllRewrites /\ rule.subtract \in AllRewrites
    BY <1>3, RuleKinds
  <2>3. Lasts(b, c) /\ Lasts(s, t)
    BY <2>2 DEF LastingWalk
  <2> HIDE DEF b, s, c, t
  <2> QED BY <2>1, <2>3, ExclusionLasts
<1>4. CASE rule.kind = "tupleToUserset"
  <2>1. PICK name \in STRING : name = rule.computedUserset
    BY <1>4, RuleKinds
  <2>2. PICK relation : relation = rule.relation
    OBVIOUS
  <2>3. PICK links : links = TupleSubjects(object, relation)
    OBVIOUS
  <2>4. PICK left : left = TupleSubjects(object, relation)'
    OBVIOUS
  <2>5. PICK ms : ms = {[through |-> t.subject,
                         outcome |-> Resolve(f, subject, t.subject, name, visited, depth, maxDepth)] :
                          t \in links}
    OBVIOUS
  <2>6. PICK ns : ns = {[through |-> t.subject,
                         outcome |-> Resolve(g, subject, t.subject, name, visited, depth, maxDepth)'] :
                          t \in left}
    OBVIOUS
  <2> DEFINE u == links \cap Expiring # {}
             v == left \cap Expiring' # {}
  <2>7. EvalRewrite(f, subject, rule, object, visited, depth, maxDepth)
          = OfTupleToUserset(object, rule, u, ms)
    BY <1>4, <2>1, <2>2, <2>3, <2>5 DEF EvalRewrite
  <2>8. EvalRewrite(g, subject, rule, object, visited, depth, maxDepth)'
          = OfTupleToUserset(object, rule, v, ns)
    BY <1>4, <2>1, <2>2, <2>4, <2>6 DEF EvalRewrite
  <2>9. ASSUME ~u
        PROVE  /\ ~v
               /\ \A m \in ms : \E n \in ns : Lasts(m.outcome, n.outcome)
               /\ \A n \in ns : \E m \in ms : Lasts(m.outcome, n.outcome)
    <3>1. links = left /\ ~v
      BY <2>3, <2>4, <2>9 DEF TupleSubjects, OnlyEnds
    <3>2. ASSUME NEW t \in links
          PROVE  Lasts(Resolve(f, subject, t.subject, name, visited, depth, maxDepth),
                       Resolve(g, subject, t.subject, name, visited, depth, maxDepth)')
      <4>1. PICK target \in Entities : target = t.subject
        BY <2>3, LiveTuples DEF TupleSubjects
      <4>2. Lasts(Resolve(f, subject, target, name, visited, depth, maxDepth),
                  Resolve(g, subject, target, name, visited, depth, maxDepth)')
        BY ResolveLasts
      <4> QED BY <4>1, <4>2
    <3>3. ASSUME NEW m \in ms PROVE \E n \in ns : Lasts(m.outcome, n.outcome)
      <4>1. PICK t \in links :
              m = [through |-> t.subject,
                   outcome |-> Resolve(f, subject, t.subject, name, visited, depth, maxDepth)]
        BY <2>5
      <4>2. PICK x : x = Resolve(f, subject, t.subject, name, visited, depth, maxDepth)
        OBVIOUS
      <4>3. PICK y : y = Resolve(g, subject, t.subject, name, visited, depth, maxDepth)'
        OBVIOUS
      <4>4. Lasts(x, y)
        BY <3>2, <4>2, <4>3
      <4>5. [through |-> t.subject, outcome |-> y] \in ns
        BY <2>6, <3>1, <4>3
      <4>6. m.outcome = x
        BY <4>1, <4>2
      <4> QED BY <4>4, <4>5, <4>6
    <3>4. ASSUME NEW n \in ns PROVE \E m \in ms : Lasts(m.outcome, n.outcome)
      <4>1. PICK t \in links :
              n = [through |-> t.subject,
                   outcome |-> Resolve(g, subject, t.subject, name, visited, depth, maxDepth)']
        BY <2>6, <3>1
      <4>2. PICK x : x = Resolve(f, subject, t.subject, name, visited, depth, maxDepth)
        OBVIOUS
      <4>3. PICK y : y = Resolve(g, subject, t.subject, name, visited, depth, maxDepth)'
        OBVIOUS
      <4>4. Lasts(x, y)
        BY <3>2, <4>2, <4>3
      <4>5. [through |-> t.subject, outcome |-> x] \in ms
        BY <2>5, <4>2
      <4>6. n.outcome = y
        BY <4>1, <4>3
      <4> QED BY <4>4, <4>5, <4>6
    <3>5. ~v
      BY <3>1
    <3> QED BY <3>3, <3>4, <3>5
  <2> HIDE DEF u, v
  <2> QED BY <2>7, <2>8, <2>9, LinkLasts
<1> QED BY <1>1, <1>2, <1>3, <1>4, RuleKinds

LEMMA WalkLasts ==
    ASSUME GraphInv, OnlyEnds, NEW subject, NEW maxDepth \in Nat, NEW n \in Nat
    PROVE  LastingWalk(ProductionWalk(subject, maxDepth)[n], ProductionWalk(subject, maxDepth)'[n])
<1> DEFINE Good == {h \in 0..n : LastingWalk(ProductionWalk(subject, maxDepth)[h],
                                            ProductionWalk(subject, maxDepth)'[h])}
<1>1. ASSUME NEW h \in Nat, NEW prev, prev = ProductionWalk(subject, maxDepth)'[h - 1],
             NEW rule \in AllRewrites, NEW object \in Entities,
             NEW visited \in SUBSET Keys, NEW depth \in Nat
      PROVE  ProductionWalk(subject, maxDepth)'[h][Call(rule, object, visited, depth)]
               = IF h = 0 THEN OverHeight
                 ELSE EvalRewrite(prev, subject, rule, object, visited, depth, maxDepth)'
  <2>1. ProductionAlways'
    BY ProductionAlwaysUnfolds, PTL
  <2>2. ProductionWalk(subject, maxDepth)'[h]
          = ProductionStep(subject, maxDepth, h, ProductionWalk(subject, maxDepth)[h - 1])'
    BY <2>1 DEF ProductionAlways
  <2>3. ProductionWalk(subject, maxDepth)'[h]
          = [c \in Calls |->
               IF h = 0 THEN OverHeight
               ELSE EvalRewrite(prev, subject, c.rule, c.object, c.visited, c.depth, maxDepth)']
    BY <1>1, <2>2 DEF ProductionStep
  <2>4. PICK c \in Calls : /\ c = Call(rule, object, visited, depth)
                           /\ c.rule = rule /\ c.object = object
                           /\ c.visited = visited /\ c.depth = depth
    BY CallIsTyped
  <2> QED BY <2>3, <2>4
<1>2. 0 \in Good
  <2>1. ASSUME NEW rule \in AllRewrites, NEW object \in Entities,
               NEW visited \in SUBSET Keys, NEW depth \in Nat
        PROVE  Lasts(ProductionWalk(subject, maxDepth)[0][Call(rule, object, visited, depth)],
                     ProductionWalk(subject, maxDepth)'[0][Call(rule, object, visited, depth)])
    <3>1. ProductionWalk(subject, maxDepth)[0][Call(rule, object, visited, depth)] = OverHeight
      BY CallValue
    <3>2. ProductionWalk(subject, maxDepth)'[0][Call(rule, object, visited, depth)] = OverHeight
      BY <1>1
    <3> QED BY <3>1, <3>2 DEF OverHeight, Lasts, Denied
  <2>2. 0 \in 0..n
    OBVIOUS
  <2> QED BY <2>1, <2>2 DEF LastingWalk
<1>3. ASSUME NEW h \in 1..n, h - 1 \in Good PROVE h \in Good
  <2>1. PICK f : f = ProductionWalk(subject, maxDepth)[h - 1]
    OBVIOUS
  <2>2. PICK g : g = ProductionWalk(subject, maxDepth)'[h - 1]
    OBVIOUS
  <2>3. LastingWalk(f, g)
    BY <1>3, <2>1, <2>2
  <2>4. ASSUME NEW rule \in AllRewrites, NEW object \in Entities,
               NEW visited \in SUBSET Keys, NEW depth \in Nat
        PROVE  Lasts(ProductionWalk(subject, maxDepth)[h][Call(rule, object, visited, depth)],
                     ProductionWalk(subject, maxDepth)'[h][Call(rule, object, visited, depth)])
    <3>1. ProductionWalk(subject, maxDepth)[h][Call(rule, object, visited, depth)]
            = EvalRewrite(f, subject, rule, object, visited, depth, maxDepth)
      BY <2>1, CallValue
    <3>2. ProductionWalk(subject, maxDepth)'[h][Call(rule, object, visited, depth)]
            = EvalRewrite(g, subject, rule, object, visited, depth, maxDepth)'
      BY <1>1, <2>2
    <3>3. Lasts(EvalRewrite(f, subject, rule, object, visited, depth, maxDepth),
                EvalRewrite(g, subject, rule, object, visited, depth, maxDepth)')
      BY <2>3, EvalLasts
    <3> QED BY <3>1, <3>2, <3>3
  <2> QED BY <2>4 DEF LastingWalk
<1>4. 0..n \subseteq Good
  <2> HIDE DEF Good
  <2> QED BY <1>2, <1>3, Along
<1> QED BY <1>4

LEMMA CheckLasts ==
    ASSUME GraphInv, OnlyEnds, NEW subject, NEW object \in Entities, NEW name \in STRING,
           NEW maxDepth \in Nat
    PROVE  Lasts(ProductionCheck(subject, object, name, maxDepth),
                 ProductionCheck(subject, object, name, maxDepth)')
<1>1. PICK n \in Nat : n = Height(maxDepth)
  BY HeightsAreNumbers
<1>2. PICK f : f = ProductionWalk(subject, maxDepth)[n]
  OBVIOUS
<1>3. PICK g : g = ProductionWalk(subject, maxDepth)'[n]
  OBVIOUS
<1>4. LastingWalk(f, g)
  BY <1>2, <1>3, WalkLasts
<1>5. {} \in SUBSET Keys /\ 0 \in Nat
  OBVIOUS
<1>6. Lasts(Resolve(f, subject, object, name, {}, 0, maxDepth),
            Resolve(g, subject, object, name, {}, 0, maxDepth)')
  BY <1>4, <1>5, ResolveLasts
<1>7. /\ ProductionCheck(subject, object, name, maxDepth)
           = Resolve(f, subject, object, name, {}, 0, maxDepth)
      /\ ProductionCheck(subject, object, name, maxDepth)'
           = Resolve(g, subject, object, name, {}, 0, maxDepth)'
  BY <1>1, <1>2, <1>3 DEF ProductionCheck
<1> QED BY <1>6, <1>7

-----------------------------------------------------------------------------
\* A step that ends windows, of a set of checks made before and after it.
UnreportedExpiryKeepsAnswers ==
  Expire => \A s \in Subjects, k \in Pairs, d \in Depths :
    ~ProductionCheck(s, k[1], k[2], d).touched
      => /\ ProductionCheck(s, k[1], k[2], d)'.allowed <=> ProductionCheck(s, k[1], k[2], d).allowed
         /\ ProductionCheck(s, k[1], k[2], d)'.certain <=> ProductionCheck(s, k[1], k[2], d).certain

\* A check that reports no tuple with a validity window says the same after any windows have
\* ended, at every depth limit: why the check cache may keep an allowed answer that saw none.
THEOREM UnreportedExpiryKeeps == GraphSpec => [][UnreportedExpiryKeepsAnswers]_graphVars
<1>1. GraphInv => UnreportedExpiryKeepsAnswers
  <2> SUFFICES ASSUME GraphInv, Expire, NEW s \in Subjects, NEW k \in Pairs, NEW d \in Depths
               PROVE  Lasts(ProductionCheck(s, k[1], k[2], d), ProductionCheck(s, k[1], k[2], d)')
    BY DEF UnreportedExpiryKeepsAnswers, Lasts
  <2>1. d \in Nat /\ OnlyEnds
    BY DepthsAssumption, ExpireOnlyEnds
  <2>2. k[1] \in Entities /\ k[2] \in STRING
    BY PairKinds DEF GraphInv
  <2>3. PICK object \in Entities, name \in STRING : object = k[1] /\ name = k[2]
    BY <2>2
  <2>4. Lasts(ProductionCheck(s, object, name, d), ProductionCheck(s, object, name, d)')
    BY <2>1, CheckLasts
  <2> QED BY <2>3, <2>4
<1> QED BY <1>1, GraphInvHolds, PTL
=============================================================================

---------------------------- MODULE SchemaTiers -----------------------------
(***************************************************************************)
(* The two decision procedures that the schema verifier tries where the    *)
(* search gives no answer (tools/schema-verifier/src/smt).  The first      *)
(* turns the meaning of a goal that is not recursive into a formula over   *)
(* uninterpreted relations; the solver, which is not part of the code,     *)
(* answers with any model there is.  The second asks for the least set of  *)
(* nodes that somebody can reach, and knows neither objects nor exclusion. *)
(***************************************************************************)
EXTENDS SchemaSearch

GivenTuples(claim) ==
  {WitnessTuple(c.of.ns, c.of.id, c.relation, Plain(c.value.ns), c.value.id) : c \in ToSet(claim.equals)}

-----------------------------------------------------------------------------
(* encode: a formula is an atom, a conjunction, a disjunction or a base    *)
(* without what is subtracted.                                             *)

Atom(ns, object, relation, type, subject) ==
  [op |-> "atom", tuple |-> PathTuple(ns, object, relation, type, subject)]
And(parts) == [op |-> "and", parts |-> parts]
Or(parts) == [op |-> "or", parts |-> parts]
Without(base, subtract) == [op |-> "without", base |-> base, subtract |-> subtract]
False == Or(<< >>)

\* The constant for the object that a tuple leads to, one for each place it is met.
Skolem(ns, at) == [ns |-> ns, at |-> at]

RECURSIVE CompileNode(_, _, _, _)
CompileNode(claim, node, object, at) ==
  LET kind == KindOf(node)
      hop(relation, type, target, i) ==
        LET to == Skolem(type.ns, Append(at, i))
        IN  And(<<Atom(node.ns, object, relation, type, to),
                  CompileNode(claim, target, to, Append(at, i))>>)
      option(type, i) ==
        CASE type.relation = None /\ type.ns = claim.subject.ns ->
               Atom(node.ns, object, node.name, Plain(type.ns), claim.subject)
          [] Leads(type) -> hop(node.name, type, Named(type.ns, type.relation), i)
          [] OTHER -> False
      operands == [i \in DOMAIN Operators(node) |->
                     CompileNode(claim, Operators(node)[i], object, Append(at, i))]
  IN  CASE kind = "none" -> False
        [] kind = "direct" ->
             LET types == SubjectTypes(node.ns, node.name)
             IN  Or([i \in DOMAIN types |-> option(types[i], i)])
        [] kind = "computedUserset" ->
             CompileNode(claim, Named(node.ns, RuleOf(node).name), object, at)
        [] kind = "tupleToUserset" ->
             LET targets == TargetsOf(node)
             IN  Or([i \in DOMAIN targets |->
                       hop(RuleOf(node).relation, Plain(targets[i].ns), targets[i], i)])
        [] kind = "union" -> Or(operands)
        [] kind = "intersection" -> And(operands)
        [] kind = "exclusion" -> Without(operands[1], operands[2])

RECURSIVE AtomsOf(_)
AtomsOf(f) == CASE f.op = "atom" -> {f.tuple}
                [] f.op \in {"and", "or"} -> UNION {AtomsOf(part) : part \in ToSet(f.parts)}
                [] f.op = "without" -> AtomsOf(f.base) \cup AtomsOf(f.subtract)

FactAtom(c) == PathTuple(c.of.ns, c.of, c.relation, Plain(c.value.ns), c.value)

-----------------------------------------------------------------------------
(* What the solver may answer: a model says which terms are equal (is,     *)
(* to a term that stands for them) and which atoms are true.               *)

Under(is, tuple) == [tuple EXCEPT !.object = is[@], !.subject = is[@]]

RECURSIVE TrueIn(_, _)
TrueIn(model, f) ==
  CASE f.op = "atom" -> Under(model.is, f.tuple) \in model.true
    [] f.op = "and" -> \A part \in ToSet(f.parts) : TrueIn(model, part)
    [] f.op = "or" -> \E part \in ToSet(f.parts) : TrueIn(model, part)
    [] f.op = "without" -> TrueIn(model, f.base) /\ ~TrueIn(model, f.subtract)

Equalities(terms) ==
  {is \in [terms -> terms] : \A t \in terms : is[t].ns = t.ns /\ is[is[t]] = is[t]}

ModelsOf(claim) ==
  LET goal  == CompileNode(claim, GoalOf(claim), claim.object, << >>)
      facts == {FactAtom(c) : c \in ToSet(claim.equals)}
      wrong == {FactAtom(c) : c \in claim.excluded}
      atoms == AtomsOf(goal) \cup facts \cup wrong
      terms == claim.vars \cup {a.object : a \in atoms} \cup {a.subject : a \in atoms}
      apart(is) == \A vars \in claim.distinct : \A u, v \in vars : u # v => is[u] # is[v]
  IN  UNION {LET image(set) == {Under(is, a) : a \in set}
             IN  {[is |-> is, true |-> true, goal |-> goal] :
                    true \in {tr \in SUBSET image(atoms) :
                                /\ image(facts) \subseteq tr
                                /\ image(wrong) \cap tr = {}
                                /\ TrueIn([is |-> is, true |-> tr], goal)}} :
               is \in {q \in Equalities(terms) : apart(q)}}

\* extractWitness: a term goes by the name of a variable that equals it, if one does.
LabelIn(model, claim, term) ==
  LET names    == {v \in claim.vars : model.is[v] = model.is[term]}
      unnamed  == SetToSeq({t \in DOMAIN model.is : t \notin claim.vars})
  IN  IF names # {} THEN (CHOOSE v \in names : TRUE).id
      ELSE FreshIds[CHOOSE i \in DOMAIN unnamed :
                      /\ model.is[unnamed[i]] = model.is[term]
                      /\ \A j \in 1..(i - 1) : model.is[unnamed[j]] # model.is[term]]

RECURSIVE AtomsTaken(_, _)
AtomsTaken(model, f) ==
  CASE f.op = "atom" -> {f.tuple}
    [] f.op = "and" -> UNION {AtomsTaken(model, part) : part \in ToSet(f.parts)}
    [] f.op = "or" -> AtomsTaken(model, SelectSeq(f.parts, LAMBDA part : TrueIn(model, part))[1])
    [] f.op = "without" -> AtomsTaken(model, f.base)

ExtractWitness(model, claim) ==
  GivenTuples(claim)
    \cup {WitnessTuple(t.ns, LabelIn(model, claim, t.object), t.relation, t.type,
                       LabelIn(model, claim, t.subject)) : t \in AtomsTaken(model, model.goal)}

\* What trySmtTier has to show for a goal it can say something about: one witness of
\* these, or none when there is no model.
SmtApplies(claim) == InGraph(GoalOf(claim)) /\ ~IsRecursive(GoalOf(claim)) /\ claim.never = {}
SmtWitnesses(claim) == {ExtractWitness(model, claim) : model \in ModelsOf(claim)}

-----------------------------------------------------------------------------
(* encodeChc and its witness.                                              *)

ChcApplies(claim) ==
  /\ InGraph(GoalOf(claim))
  /\ IsRecursive(GoalOf(claim))
  /\ claim.excluded = {}
  /\ claim.never = {}
  /\ \A node \in Reached(GoalOf(claim)) : KindOf(node) # "exclusion"

BareFor(claim, type) == type.relation = None /\ type.ns = claim.subject.ns

\* The rules of the Horn clauses: when a node follows from those that hold.
FollowsFrom(claim, node, held) ==
  LET kind == KindOf(node)
  IN  CASE kind = "none" -> FALSE
        [] kind = "intersection" -> ChildrenOf(node) \subseteq held
        [] OTHER -> \/ ChildrenOf(node) \cap held # {}
                    \/ kind = "direct" /\ \E type \in schema[node.ns].relations[node.name] :
                                             BareFor(claim, type)

RECURSIVE LeastFixpoint(_, _)
LeastFixpoint(claim, held) ==
  LET next == {node \in Reached(GoalOf(claim)) : FollowsFrom(claim, node, held)}
  IN  IF next = held THEN held ELSE LeastFixpoint(claim, next)

(* The walk takes the first branch that holds.  One that comes back to a   *)
(* node of its path goes on until its steps are used up, and gives         *)
(* nothing (Nothing here), or more tuples than a check can follow.         *)
RECURSIVE ChcWalk(_, _, _, _, _)
ChcWalk(claim, node, object, path, walk) ==
  LET held == LeastFixpoint(claim, {})
      kind == KindOf(node)
      step(w, n, to) == ChcWalk(claim, n, to, path \cup {node}, w)
      hop(relation, type, target) ==
        LET to == [ns |-> type.ns, id |-> FreshIds[walk.fresh + 1]]
        IN  step([walk EXCEPT !.fresh = @ + 1,
                              !.tuples = @ \cup {WitnessTuple(node.ns, object.id, relation, type, to.id)}],
                 target, to)
      holds(n) == n \in held
      first(nodes) == SelectSeq(nodes, holds)[1]
  IN  CASE walk.endless \/ node \in path -> [walk EXCEPT !.endless = TRUE]
        [] kind = "direct" ->
             LET type == SelectSeq(SubjectTypes(node.ns, node.name),
                           LAMBDA t : BareFor(claim, t) \/ (Leads(t) /\ holds(Named(t.ns, t.relation))))[1]
             IN  IF type.relation = None
                 THEN [walk EXCEPT !.tuples = @ \cup {WitnessTuple(node.ns, object.id, node.name,
                                                        Plain(type.ns), claim.subject.id)}]
                 ELSE hop(node.name, type, Named(type.ns, type.relation))
        [] kind = "computedUserset" -> step(walk, Named(node.ns, RuleOf(node).name), object)
        [] kind = "tupleToUserset" ->
             LET target == first(TargetsOf(node)) IN hop(RuleOf(node).relation, Plain(target.ns), target)
        [] kind = "union" -> step(walk, first(Operators(node)), object)
        [] kind = "intersection" -> FoldLeft(LAMBDA w, n : step(w, n, object), walk, Operators(node))

ChcDerives(claim) == GoalOf(claim) \in LeastFixpoint(claim, {})

ChcWitness(claim) ==
  ChcWalk(claim, GoalOf(claim), claim.object, {},
          [tuples |-> GivenTuples(claim), fresh |-> 0, endless |-> FALSE])
=============================================================================

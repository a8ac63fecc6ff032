---------------------------- MODULE SchemaSearch ----------------------------
(***************************************************************************)
(* checkInvariant of the schema verifier                                   *)
(* (tools/schema-verifier/src/reachability): is there a set of tuples that *)
(* grants what a claim says must never be granted?  The search walks the   *)
(* graph backwards from the goal and collects the tuples it would take.    *)
(* The objects of these are variables, of which it learns that two are the *)
(* same as it goes.                                                        *)
(*                                                                         *)
(* A claim has variables vars (records of a namespace and a name), its     *)
(* goal permission(subject, object), and constraints: distinct, sets of    *)
(* variables; equals, a sequence of facts relation(of) = value; excluded,  *)
(* a set of facts assumed false; never, a set of relations that the        *)
(* subject is in nowhere.                                                  *)
(***************************************************************************)
EXTENDS SchemaGraph

CONSTANT FreshIds    \* obj1, obj2, ...: the names of what the search introduces

Fact(relation, of, value) == [relation |-> relation, of |-> of, value |-> value]

GoalOf(claim) == Named(claim.object.ns, claim.permission)

-----------------------------------------------------------------------------
(* UnionFind: which variables are one, which never are, and what each slot *)
(* (a relation of an object) holds.  ok is FALSE once a union was refused. *)

NoBindings == [parent |-> << >>, forbidden |-> {}, slots |-> << >>, fresh |-> 0, ok |-> TRUE]

RECURSIVE Find(_, _)
Find(uf, v) == IF v \in DOMAIN uf.parent THEN Find(uf, uf.parent[v]) ELSE v

Same(uf, a, b) == Find(uf, a) = Find(uf, b)

WouldConflict(uf, a, b) ==
  \E pair \in uf.forbidden : {Find(uf, v) : v \in pair} = {Find(uf, a), Find(uf, b)}

IsFresh(v) == v.id \in ToSet(FreshIds)

\* A name of the claim represents the fresh variables that turn out to be it.
Unify(uf, a, b) ==
  LET ra == Find(uf, a)
      rb == Find(uf, b)
      keep == IF IsFresh(ra) /\ ~IsFresh(rb) THEN rb ELSE ra
      drop == IF keep = ra THEN rb ELSE ra
  IN  CASE ra = rb -> uf
        [] ra # rb /\ WouldConflict(uf, a, b) -> [uf EXCEPT !.ok = FALSE]
        [] OTHER -> [uf EXCEPT !.parent = (drop :> keep) @@ @]

MarkDistinct(uf, vars) ==
  [uf EXCEPT !.forbidden = @ \cup {pair \in SUBSET vars : Cardinality(pair) = 2}]

SlotOf(uf, object, relation) == <<Find(uf, object), relation>>

SlotValue(uf, object, relation) ==
  LET slot == SlotOf(uf, object, relation)
  IN  IF slot \in DOMAIN uf.slots THEN uf.slots[slot] ELSE None

BindSlot(uf, object, relation, value) ==
  LET held == SlotValue(uf, object, relation)
  IN  IF held = None THEN [uf EXCEPT !.slots = (SlotOf(uf, object, relation) :> value) @@ @]
                     ELSE Unify(uf, held, value)

SlotEquals(uf, object, relation, value) ==
  LET held == SlotValue(uf, object, relation) IN held # None /\ Same(uf, held, value)

\* What the constraints of a claim say before the search begins.
Pinned(claim) ==
  FoldLeft(LAMBDA uf, c : BindSlot(uf, c.of, c.relation, c.value),
           FoldSet(LAMBDA vars, uf : MarkDistinct(uf, vars), NoBindings, claim.distinct),
           claim.equals)

-----------------------------------------------------------------------------
(* attempt: how the goal subject gets to a node, for one object.           *)

Fail == [kind |-> "fail"]
Unknown == [kind |-> "unknown"]
Success(uf, tuples) == [kind |-> "success", uf |-> uf, tuples |-> tuples]

\* mergeBranches: of the branches of a union, the first that succeeds.
MergeBranches(results) ==
  LET successes == SelectSeq(results, LAMBDA r : r.kind = "success")
  IN  CASE successes # << >> -> successes[1]
        [] successes = << >> /\ Unknown \in ToSet(results) -> Unknown
        [] OTHER -> Fail

PathTuple(ns, object, relation, type, subject) ==
  [ns |-> ns, object |-> object, relation |-> relation, type |-> type, subject |-> subject]

\* A fact that the claim assumes of the subject of a never exempts its object.
Exempt(claim, nc) == {c.of : c \in {e \in ToSet(claim.equals) :
                                       /\ e.relation = nc.relation
                                       /\ e.of.ns = nc.ns
                                       /\ Same(Pinned(claim), e.value, nc.subject)}}

NeverHere(claim, node, object, uf) ==
  \E nc \in claim.never : /\ nc.ns = node.ns
                          /\ nc.relation = node.name
                          /\ Same(uf, nc.subject, claim.subject)
                          /\ \A x \in Exempt(claim, nc) : ~Same(uf, x, object)

\* Mutant: a fact that a claim rules out is stored all the same.
NothingExcluded(claim, object, relation, uf) == FALSE

ExcludedHere(claim, object, relation, uf) ==
  \E c \in claim.excluded : /\ c.relation = relation
                            /\ Same(uf, c.of, object)
                            /\ SlotEquals(uf, c.of, c.relation, c.value)

\* The goal subject itself, or everybody of its type, is stored on the object.
Arrive(claim, node, object, uf, type) ==
  LET bound == BindSlot(uf, object, node.name, claim.subject)
  IN  IF type.ns # claim.subject.ns \/ ~bound.ok \/ ExcludedHere(claim, object, node.name, bound)
      THEN Fail
      ELSE Success(bound, <<PathTuple(node.ns, object, node.name, Plain(type.ns), claim.subject)>>)

\* Mutant: a node is visited once, whatever the object.
AnyInstance(claim, object, uf) == None

\* What identifies an object on a path: its name, if the claim has one for it.
Instance(claim, object, uf) ==
  LET representative == Find(uf, object)
  IN  IF representative \in claim.vars THEN representative ELSE None

RECURSIVE Attempt(_, _, _, _, _)

\* Over a tuple to the object it names, or to a new one, and on from there.
Follow(claim, ns, object, relation, type, target, visited, uf) ==
  LET held == SlotValue(uf, object, relation)
      to   == IF held # None THEN held ELSE [ns |-> type.ns, id |-> FreshIds[uf.fresh + 1]]
      uf2  == BindSlot([uf EXCEPT !.fresh = IF held = None THEN @ + 1 ELSE @], object, relation, to)
      rest == Attempt(claim, target, to, visited, uf2)
  IN  IF rest.kind # "success" THEN rest
      ELSE [rest EXCEPT !.tuples = <<PathTuple(ns, object, relation, type, to)>> \o @]

AttemptDirect(claim, node, object, visited, uf) ==
  LET through(type) ==
        CASE type.relation = None -> Arrive(claim, node, object, uf, type)
          [] Leads(type) -> Follow(claim, node.ns, object, node.name, type,
                                   Named(type.ns, type.relation), visited, uf)
          [] OTHER -> Fail
      types == SubjectTypes(node.ns, node.name)
  IN  IF NeverHere(claim, node, object, uf) THEN Fail
      ELSE MergeBranches([i \in DOMAIN types |-> through(types[i])])

AttemptTupleToUserset(claim, node, object, visited, uf) ==
  LET via     == RuleOf(node).relation
      held    == SlotValue(uf, object, via)
      targets == SelectSeq(TargetsOf(node), LAMBDA t : held = None \/ held.ns = t.ns)
  IN  IF held # None /\ targets = << >> THEN Unknown
      ELSE MergeBranches([i \in DOMAIN targets |->
             Follow(claim, node.ns, object, via, Plain(targets[i].ns), targets[i], visited, uf)])

Attempt(claim, node, object, visited, uf) ==
  LET kind == KindOf(node)
      key  == <<node, Instance(claim, object, uf)>>
      on   == visited \cup {key}
      operands == [i \in DOMAIN Operators(node) |->
                     Attempt(claim, Operators(node)[i], object, on, uf)]
  IN  CASE key \in visited \/ kind = "none" -> Fail
        [] kind = "direct" -> AttemptDirect(claim, node, object, on, uf)
        [] kind = "computedUserset" ->
             Attempt(claim, Named(node.ns, RuleOf(node).name), object, on, uf)
        [] kind = "tupleToUserset" -> AttemptTupleToUserset(claim, node, object, on, uf)
        [] kind = "union" -> MergeBranches(operands)
        [] kind = "intersection" -> IF Fail \in ToSet(operands) THEN Fail ELSE Unknown
        [] kind = "exclusion" -> CASE operands[1] = Fail -> Fail
                                   [] operands[2] = Fail -> operands[1]
                                   [] OTHER -> Unknown

-----------------------------------------------------------------------------
Undecided == [verdict |-> "UNKNOWN"]
HoldsExactly == [verdict |-> "HOLDS", proof |-> "exact"]
ViolatedBy(witness, proof) == [verdict |-> "VIOLATED", proof |-> proof, witness |-> witness]

WitnessTuple(objectNs, object, relation, type, subject) ==
  [object |-> [ns |-> objectNs, id |-> object], relation |-> relation,
   subject |-> [ns |-> type.ns, id |-> subject], subjectRelation |-> type.relation]

\* materialize: every variable goes by the name of what represents it.
Materialize(uf, tuples) ==
  {WitnessTuple(t.ns, Find(uf, t.object).id, t.relation, t.type, Find(uf, t.subject).id) :
     t \in ToSet(tuples)}

CheckInvariant(claim) ==
  LET start == Pinned(claim)
      found == Attempt(claim, GoalOf(claim), claim.object, {}, start)
  IN  CASE ~start.ok \/ ~InGraph(GoalOf(claim)) -> Undecided
        [] \E c \in claim.excluded : SlotEquals(start, c.of, c.relation, c.value) -> Undecided
        [] found.kind = "fail" -> HoldsExactly
        [] found.kind = "unknown" -> Undecided
        [] OTHER -> ViolatedBy(Materialize(found.uf, found.tuples), "exact")
=============================================================================

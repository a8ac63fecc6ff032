------------------------- MODULE MCCheckEvaluation -------------------------
(***************************************************************************)
(* Schemas after schema/example.authz, and the tuples to store under them. *)
(***************************************************************************)
EXTENDS CheckEvaluation

E(ns, id) == [ns |-> ns, id |-> id]
T(object, relation, subject) ==
  [object |-> object, relation |-> relation, subject |-> subject, subjectRelation |-> None]
U(object, relation, subject, subjectRelation) ==
  [object |-> object, relation |-> relation, subject |-> subject,
   subjectRelation |-> subjectRelation]

ann == E("user", "ann")
everyone == E("user", Wildcard)
g1 == E("group", "g1")
g2 == E("group", "g2")
g3 == E("group", "g3")
f1 == E("folder", "f1")
f2 == E("folder", "f2")

Groups == [relations |-> [member |-> {Plain("user"), Userset("group", "member")}],
           permissions |-> << >>]

Parent == [parent |-> {Plain("folder")}]
Viewer == [viewer |-> {Plain("user"), Userset("group", "member")}]
Banned == [banned |-> {Plain("user"), Everyone("user"), Userset("group", "member")}]

\* Permissions are inherited from the parent; nothing is subtracted.
Inherited == [group |-> Groups,
  folder |-> [relations |-> Parent @@ Viewer,
    permissions |->
      [view |-> Union(<<Computed("viewer"), TupleToUserset("parent", "view")>>),
       both |-> Intersection(<<Computed("view"), TupleToUserset("parent", "viewer")>>)]]]

\* The subtracted side is inherited, and has the groups.
Blocked == [group |-> Groups,
  folder |-> [relations |-> Parent @@ [viewer |-> {Plain("user")}] @@ Banned,
    permissions |->
      [blocked |-> Union(<<Computed("banned"), TupleToUserset("parent", "blocked")>>),
       view    |-> Exclusion(Computed("viewer"), Computed("blocked"))]]]

\* A permission that subtracts itself, on the parent.
Alternating == [group |-> Groups,
  folder |-> [relations |-> Parent @@ Viewer,
    permissions |->
      [view |-> Exclusion(Computed("viewer"), TupleToUserset("parent", "view"))]]]

\* Nested groups by several routes; a link to a userset follows its group.
Nested == [
  group |-> [relations |-> [team |-> {Plain("user"), Userset("group", "team")}],
             permissions |-> << >>],
  folder |-> [relations |-> [reader |-> {Userset("group", "team")}],
    permissions |->
      [read |-> TupleToUserset("reader", "team"),
       none |-> Exclusion(Computed("reader"), Computed("read"))]]]

MCSchemas == {Inherited, Blocked, Alternating, Nested}

MCTuples == {T(g1, "member", ann), U(g1, "member", g2, "member"), U(g2, "member", g1, "member"),
             T(f1, "parent", f2), T(f2, "parent", f1),
             U(f1, "viewer", g1, "member"), T(f2, "viewer", ann),
             U(f1, "banned", g2, "member"), T(f2, "banned", everyone),
             U(f1, "reader", g1, "team"), U(f1, "reader", g2, "team"),
             U(g1, "team", g3, "team"), U(g2, "team", g3, "team"),
             U(g3, "team", g1, "team"), T(g3, "team", ann)}

MCMayExpire == {T(f1, "parent", f2), T(f2, "viewer", ann), T(g3, "team", ann)}
MCSubjects == {ann}
=============================================================================

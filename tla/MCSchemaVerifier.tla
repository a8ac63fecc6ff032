-------------------------- MODULE MCSchemaVerifier --------------------------
\* Documents with viewers, people who are banned and parents; groups within groups.
\* What a document's permission view is made of varies, and so does what is claimed.
EXTENDS SchemaVerifier

User(id) == [ns |-> "user", id |-> id]
Doc(id) == [ns |-> "doc", id |-> id]
Group(id) == [ns |-> "group", id |-> id]
s == User("s")
x == User("x")
o == Doc("o")
p == Doc("p")
MCFreshIds == <<"obj1", "obj2", "obj3">>

Documents(viewers, bans, view) ==
  [doc |-> [relations |-> [viewer |-> viewers, banned |-> bans, parent |-> {Plain("doc")}],
            permissions |-> [view |-> view]],
   group |-> [relations |-> [member |-> {Plain("user"), Userset("group", "member")}],
              permissions |-> << >>],
   user |-> [relations |-> << >>, permissions |-> << >>]]

\* Users need no block of their own.
UsersUndeclared(schemas) == {[ns \in {"doc", "group"} |-> sch[ns]] : sch \in schemas}

viewer == Computed("viewer")
banned == Computed("banned")
Above(name) == TupleToUserset("parent", name)

Users == {Plain("user")}
Everybody == {Everyone("user")}
UsersAndGroups == Users \cup {Userset("group", "member")}
Adding == {Union(<<viewer, Above("view")>>), Above("viewer")}
Operating == {Exclusion(viewer, banned),
              Intersection(<<viewer, Above("banned")>>),
              Exclusion(viewer, Above("banned")),
              Intersection(<<viewer, Above("view")>>),
              Union(<<banned, Intersection(<<viewer, Above("view")>>)>>),
              Exclusion(viewer, Above("view"))}
MCSchemas == UsersUndeclared({Documents(UsersAndGroups, Users, view) : view \in Adding})
               \cup {Documents(Users, Users, Union(<<viewer, Above("view")>>))}
               \cup {Documents(Users, Users, view) : view \in Operating}
               \cup {Documents(Users, Everybody, Exclusion(viewer, banned))}

Claim(permission) ==
  [vars |-> {s, o}, subject |-> s, object |-> o, permission |-> permission,
   distinct |-> {}, equals |-> << >>, excluded |-> {}, never |-> {}]
With(vars, claim) == [claim EXCEPT !.vars = @ \cup vars]
view == Claim("view")
NeverIn(relation) == {[ns |-> "doc", relation |-> relation, subject |-> s]}

NoViewer == [view EXCEPT !.never = NeverIn("viewer")]
NotOf(c) == [view EXCEPT !.excluded = {c}]
Given(cs) == [view EXCEPT !.equals = cs]
ExemptFromNever ==
  [With({p}, NoViewer) EXCEPT !.equals = <<Fact("viewer", p, s)>>, !.distinct = {{o, p}}]
MCClaims == {view,
             NoViewer,
             [NoViewer EXCEPT !.never = @ \cup NeverIn("banned")],
             NotOf(Fact("viewer", o, s)),
             Given(<<Fact("banned", o, s)>>),
             [With({p}, Given(<<Fact("parent", o, p)>>)) EXCEPT !.excluded = {Fact("viewer", o, s)}],
             [With({p}, Given(<<Fact("parent", o, p), Fact("banned", p, s)>>)) EXCEPT !.distinct = {{o, p}}],
             [With({x}, Given(<<Fact("viewer", o, x)>>)) EXCEPT !.distinct = {{s, x}}],
             ExemptFromNever}
MCFiles == {<<claim>> : claim \in MCClaims} \cup {<<view, NoViewer>>}
ExemptFiles == {<<ExemptFromNever>>}

Tuple(object, relation, subject, subjectRelation) ==
  [object |-> object, relation |-> relation, subject |-> subject, subjectRelation |-> subjectRelation]
Documented == {o, p, Doc("obj1")}
Persons == {s, x, User("obj1"), User(Wildcard)}
SomeGroups == {Group("obj1"), Group("obj2")}
MCTuples == {Tuple(d, r, u, None) : d \in Documented, r \in {"viewer", "banned"}, u \in Persons}
              \cup {Tuple(d, "viewer", g, "member") : d \in Documented, g \in SomeGroups}
              \cup {Tuple(d, "parent", e, None) : d, e \in Documented}
              \cup {Tuple(g, "member", u, None) : g \in SomeGroups, u \in Persons}
              \cup {Tuple(g, "member", h, "member") : g, h \in SomeGroups}
MCStored == {Tuple(o, "viewer", s, None), Tuple(o, "viewer", x, None), Tuple(o, "parent", p, None),
             Tuple(p, "viewer", s, None), Tuple(p, "banned", s, None), Tuple(o, "banned", s, None)}

\* A schema that is found wanting does not go into use.
UsedIfClean == Verified /\ reports' = reports => ExitCode \in {0, 2}
=============================================================================

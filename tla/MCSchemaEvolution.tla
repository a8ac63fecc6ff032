------------------------- MODULE MCSchemaEvolution -------------------------
\* Files that declare one namespace, doc, with four relations and the permissions
\* view and denied: every pair of the rules below for the two, and files with
\* mistakes of other kinds.
EXTENDS SchemaEvolution

E(ns, id) == [ns |-> ns, id |-> id]
T(object, relation, subject) ==
  [object |-> object, relation |-> relation, subject |-> subject, subjectRelation |-> None]
ann == E("user", "ann")
d1 == E("doc", "d1")
d2 == E("doc", "d2")

Rel(name, types) == [name |-> name, types |-> types]
Perm(name, rewrite) == [name |-> name, rewrite |-> rewrite]
Users == {Plain("user")}

Relations == <<Rel("member", Users), Rel("suspended", Users), Rel("flagged", Users),
               Rel("parent", {Plain("doc")})>>
User == [name |-> "user", relations |-> << >>, permissions |-> << >>]
Doc(permissions) == <<[name |-> "doc", relations |-> Relations, permissions |-> permissions]>>

DeniedRules == {Computed("suspended"),
                Union(<<Computed("suspended"), Computed("flagged")>>),
                Exclusion(Computed("suspended"), Computed("flagged")),
                Union(<<TupleToUserset("parent", "view"),
                        Exclusion(Computed("suspended"), Computed("flagged"))>>)}
ViewRules == {Computed("member"),
              Exclusion(Computed("member"), Computed("denied")),
              Exclusion(Computed("member"), Union(<<Computed("suspended"), Computed("flagged")>>)),
              Union(<<Computed("member"), Exclusion(Computed("member"), Computed("suspended"))>>),
              Intersection(<<Computed("member"), Computed("denied")>>),
              Exclusion(Computed("member"), Computed("suspended")),
              Union(<<Computed("member"), TupleToUserset("parent", "denied")>>)}

Paired == { Doc(<<Perm("view", v), Perm("denied", d)>>) : v \in ViewRules, d \in DeniedRules }

\* Circles through either side of a rule, and what the compiler refuses besides.
Circular == { Doc(<<Perm("view", v), Perm("denied", d)>>) :
                v \in {Computed("view"), Exclusion(Computed("member"), Computed("denied"))},
                d \in {Computed("view"), Intersection(<<Computed("member"), Computed("view")>>)} }
Mistaken == { Doc(<<Perm("view", Computed("member")), Perm("view", Computed("flagged"))>>),
              Doc(<<Perm("member", Computed("flagged"))>>),
              Doc(<<Perm("view", Computed("owner"))>>),
              Doc(<<Perm("view", TupleToUserset("denied", "view")), Perm("denied", Computed("member"))>>),
              Doc(<<Perm("view", TupleToUserset("member", "view"))>>),
              Doc(<<Perm("view", TupleToUserset("parent", "owner"))>>),
              Doc(<< >>) \o Doc(<< >>),
              <<[name |-> "doc", relations |-> <<Rel("member", {Userset("doc", "view")})>>,
                 permissions |-> <<Perm("view", Computed("member"))>>]>>,
              <<[name |-> "doc", relations |-> <<Rel("member", {Userset("doc", "owner"), Userset("group", "member")})>>,
                 permissions |-> << >>]>>,
              <<[name |-> "doc", relations |-> <<Rel("member", {Userset("doc", "member"), Everyone("user")})>>,
                 permissions |-> << >>]>> }
MCFiles == Paired \cup Circular \cup Mistaken

MCSchemas == { Compiled(file) : file \in {f \in Paired : CompileErrors(f) = {} } }
MCTuples == {T(d1, "member", ann), T(d1, "suspended", ann), T(d1, "flagged", ann),
             T(d1, "parent", d2)}
MCSubjects == {ann}

\* Compiling a file reads nothing that is stored, and classifying a name no tuple: both
\* are done before the first tuple is written.
AnalysedFirst == (candidate' # candidate \/ (memo' # memo /\ schema' = schema)) =>
                   \A t \in Tuples : rows[t] = "absent"
=============================================================================

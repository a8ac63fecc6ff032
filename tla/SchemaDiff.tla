----------------------------- MODULE SchemaDiff ------------------------------
(***************************************************************************)
(* src/schema/diff.ts and the command schema diff: what the publish of a   *)
(* candidate may take away, told from the rewrite rules alone, one         *)
(* namespace at a time.                                                    *)
(***************************************************************************)
EXTENDS SchemaCompiler

Members(config) == DOMAIN config.relations \cup DOMAIN config.permissions

\* lookupMember
KindOf(config, name) == CASE name \in DOMAIN config.relations -> "relation"
                          [] name \in DOMAIN config.permissions -> "permission"
                          [] OTHER -> "undefined"

\* subjectTypeKey does not look at the wildcard.
TypeKeys(types) == { <<type.ns, type.relation>> : type \in types }

RelationDiff(old, new) == CASE TypeKeys(old) = TypeKeys(new) -> "unchanged"
                            [] TypeKeys(old) \subseteq TypeKeys(new)
                                 /\ TypeKeys(old) # TypeKeys(new) -> "widen"
                            [] OTHER -> "possibly-narrowing"

Children(rule, kind) == IF rule.kind = kind THEN ToSet(rule.children) ELSE {rule}

\* Mutant: a larger subtracted side is taken to grant more.
RECURSIVE WidenedUpsideDown(_, _)
WidenedUpsideDown(old, new) ==
  \/ old = new
  \/ old.kind = "exclusion" /\ WidenedUpsideDown(old.base, new)
  \/ /\ old.kind = "exclusion" /\ new.kind = "exclusion"
     /\ WidenedUpsideDown(old.base, new.base)
     /\ WidenedUpsideDown(old.subtract, new.subtract)
  \/ /\ "union" \in {old.kind, new.kind}
     /\ \A o \in Children(old, "union") : \E n \in Children(new, "union") :
           WidenedUpsideDown(o, n)
  \/ /\ old.kind = "intersection"
     /\ \A n \in Children(new, "intersection") : \E o \in Children(old, "intersection") :
           WidenedUpsideDown(o, n)

\* isProvableWidenOrEqual: equality, and four ways to contain another rule.
RECURSIVE ProvableWidenOrEqual(_, _)
ProvableWidenOrEqual(old, new) ==
  \/ old = new
  \/ old.kind = "exclusion" /\ ProvableWidenOrEqual(old.base, new)
  \/ /\ old.kind = "exclusion" /\ new.kind = "exclusion"
     /\ ProvableWidenOrEqual(old.base, new.base)
     /\ ProvableWidenOrEqual(new.subtract, old.subtract)
  \/ /\ "union" \in {old.kind, new.kind}
     /\ \A o \in Children(old, "union") : \E n \in Children(new, "union") :
           ProvableWidenOrEqual(o, n)
  \/ /\ old.kind = "intersection"
     /\ \A n \in Children(new, "intersection") : \E o \in Children(old, "intersection") :
           ProvableWidenOrEqual(o, n)

PermissionDiff(old, new) == CASE old = new -> "unchanged"
                              [] old # new /\ ProvableWidenOrEqual(old, new) -> "widen"
                              [] OTHER -> "possibly-narrowing"

MemberDiff(old, new, name) ==
  CASE KindOf(old, name) = "undefined" -> "added"
    [] KindOf(new, name) = "undefined" -> "removed"
    [] KindOf(old, name) = "relation" /\ KindOf(new, name) = "relation" ->
         RelationDiff(old.relations[name], new.relations[name])
    [] KindOf(old, name) = "permission" /\ KindOf(new, name) = "permission" ->
         PermissionDiff(old.permissions[name], new.permissions[name])
    [] OTHER -> "possibly-narrowing"

DiffNamespace(old, new) ==
  [name \in Members(old) \cup Members(new) |-> MemberDiff(old, new, name)]

NarrowingWarnings(diff) ==
  { name \in DOMAIN diff : diff[name] \in {"removed", "possibly-narrowing"} }

\* diffSchemaFile: does it warn of the candidate, against what is published?
Warns(published, candidate) ==
  \E ns \in DOMAIN candidate \cap DOMAIN published :
     NarrowingWarnings(DiffNamespace(published[ns], candidate[ns])) # {}
=============================================================================

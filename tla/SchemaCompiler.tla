--------------------------- MODULE SchemaCompiler ---------------------------
(***************************************************************************)
(* compileParsedNamespaces of src/schema/dsl/compiler.ts: from the parsed  *)
(* namespaces of a file, with whatever its author got wrong, to a compiled *)
(* schema or a set of errors.  A parsed file is a sequence of namespaces   *)
(* [name, relations, permissions]; relations are a sequence of             *)
(* [name, types], permissions of [name, rewrite].                          *)
(***************************************************************************)
EXTENDS TupleGraph, SequencesExt

RelationNames(ns) == { r.name : r \in ToSet(ns.relations) }
PermissionNames(ns) == { p.name : p \in ToSet(ns.permissions) }

\* byName: of several namespaces of one name, the last.
Declared(file) == { ns.name : ns \in ToSet(file) }
ByName(file, name) == file[CHOOSE i \in DOMAIN file :
                              /\ file[i].name = name
                              /\ \A j \in DOMAIN file : file[j].name = name => j <= i]

HasRelationOrPermission(ns, name) == CASE name \in RelationNames(ns) -> "relation"
                                       [] name \in PermissionNames(ns) -> "permission"
                                       [] OTHER -> "undefined"

\* The first relation of a name.
FindRelation(ns, name) ==
  SelectSeq(ns.relations, LAMBDA r : r.name = name)[1]

-----------------------------------------------------------------------------
(* References.                                                             *)

\* What is wrong with following an edge into the namespace of a subject type.
TargetErrors(type, name, file) ==
  IF type.ns \notin Declared(file) THEN {"tuple_to_userset_unknown_namespace"}
  ELSE IF HasRelationOrPermission(ByName(file, type.ns), name) = "undefined"
       THEN {"tuple_to_userset_unknown_target"} ELSE {}

RECURSIVE RewriteErrors(_, _, _)
RewriteErrors(rule, ns, file) ==
  CASE rule.kind = "computedUserset" ->
         IF HasRelationOrPermission(ns, rule.name) = "undefined"
         THEN {"undeclared_reference"} ELSE {}
    [] rule.kind \in {"union", "intersection"} ->
         UNION { RewriteErrors(child, ns, file) : child \in ToSet(rule.children) }
    [] rule.kind = "exclusion" ->
         RewriteErrors(rule.base, ns, file) \cup RewriteErrors(rule.subtract, ns, file)
    [] rule.kind = "tupleToUserset" ->
         CASE rule.relation \in RelationNames(ns) ->
                UNION { TargetErrors(type, rule.computedUserset, file) :
                          type \in FindRelation(ns, rule.relation).types }
           [] rule.relation \in PermissionNames(ns) \ RelationNames(ns) ->
                {"tuple_to_userset_target_not_a_relation"}
           [] OTHER -> {"undeclared_reference"}

\* A subject type of another file's namespace is taken on trust.
TypeErrors(type, file) ==
  IF type.relation = None \/ type.ns \notin Declared(file) THEN {}
  ELSE CASE HasRelationOrPermission(ByName(file, type.ns), type.relation) = "permission" ->
              {"subject_type_targets_a_permission"}
         [] HasRelationOrPermission(ByName(file, type.ns), type.relation) = "undefined" ->
              {"undeclared_reference"}
         [] OTHER -> {}

Repeats(names) == \E i, j \in DOMAIN names : i # j /\ names[i] = names[j]

NamesInOrder(members) == [i \in DOMAIN members |-> members[i].name]

DuplicateErrors(ns) ==
  IF Repeats(NamesInOrder(ns.relations) \o NamesInOrder(ns.permissions))
  THEN {"duplicate_member_name"} ELSE {}

-----------------------------------------------------------------------------
(* Permissions that go round in a circle.                                  *)

\* Mutant: the subtracted side is not followed.
RECURSIVE DepsOfBase(_, _)
DepsOfBase(rule, ns) ==
  CASE rule.kind = "computedUserset" ->
         IF rule.name \in PermissionNames(ns) \ RelationNames(ns) THEN <<rule.name>> ELSE << >>
    [] rule.kind \in {"union", "intersection"} ->
         FlattenSeq([i \in DOMAIN rule.children |-> DepsOfBase(rule.children[i], ns)])
    [] rule.kind = "exclusion" -> DepsOfBase(rule.base, ns)
    [] rule.kind = "tupleToUserset" -> << >>

\* collectPermissionDeps: the permissions of the namespace that a rewrite names.
RECURSIVE PermissionDeps(_, _)
PermissionDeps(rule, ns) ==
  CASE rule.kind = "computedUserset" ->
         IF rule.name \in PermissionNames(ns) \ RelationNames(ns) THEN <<rule.name>> ELSE << >>
    [] rule.kind \in {"union", "intersection"} ->
         FlattenSeq([i \in DOMAIN rule.children |-> PermissionDeps(rule.children[i], ns)])
    [] rule.kind = "exclusion" ->
         PermissionDeps(rule.base, ns) \o PermissionDeps(rule.subtract, ns)
    [] rule.kind = "tupleToUserset" -> << >>

RewriteOf(ns, p) == SelectSeq(ns.permissions, LAMBDA q : q.name = p)[1].rewrite

\* dfsFrom: what is grey is on the path.
RECURSIVE DfsFrom(_, _, _)
DfsFrom(p, ns, dfs) ==
  LET follow(d, dep) ==
        CASE Contains(d.path, dep) ->
               [d EXCEPT !.reported = @ \cup ToSet(SubSeq(d.path, SelectInSeq(d.path, LAMBDA q : q = dep),
                                                            Len(d.path)))]
          [] dep \notin d.black \cup ToSet(d.path) -> DfsFrom(dep, ns, d)
          [] OTHER -> d
      done == FoldLeft(follow, [dfs EXCEPT !.path = Append(@, p)],
                       PermissionDeps(RewriteOf(ns, p), ns))
  IN  [done EXCEPT !.path = Front(@), !.black = @ \cup {p}]

\* The permissions that checkCircularPermissions reports.
CircularPermissions(ns) ==
  IF Repeats(NamesInOrder(ns.permissions)) THEN {}
  ELSE FoldLeft(LAMBDA dfs, p : IF p.name \in dfs.black THEN dfs ELSE DfsFrom(p.name, ns, dfs),
                [path |-> << >>, black |-> {}, reported |-> {}], ns.permissions).reported

CircularErrors(ns) ==
  IF CircularPermissions(ns) = {} THEN {} ELSE {"circular_permission_definition"}

-----------------------------------------------------------------------------
NamespaceErrors(ns, file) ==
  DuplicateErrors(ns) \cup CircularErrors(ns)
    \cup UNION { TypeErrors(type, file) : type \in UNION { r.types : r \in ToSet(ns.relations) } }
    \cup UNION { RewriteErrors(p.rewrite, ns, file) : p \in ToSet(ns.permissions) }

CompileErrors(file) ==
  (IF Repeats(NamesInOrder(file)) THEN {"duplicate_namespace"} ELSE {})
    \cup UNION { NamespaceErrors(ns, file) : ns \in ToSet(file) }

CompiledNamespace(ns) ==
  [relations   |-> [name \in RelationNames(ns) |-> FindRelation(ns, name).types],
   permissions |-> [name \in PermissionNames(ns) |-> RewriteOf(ns, name)]]

\* The schema of a file without errors.
Compiled(file) == [name \in Declared(file) |-> CompiledNamespace(ByName(file, name))]
=============================================================================

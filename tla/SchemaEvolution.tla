--------------------------- MODULE SchemaEvolution ---------------------------
(***************************************************************************)
(* A schema in use: tuples are written under it, a file is edited,         *)
(* compared with what is published (SchemaDiff.tla) and published if it    *)
(* compiles (SchemaCompiler.tla), and its names are classified as          *)
(* monotone or not (Monotonicity.tla).  What these analyses say of rewrite *)
(* rules is held against what the permissions mean (Meaning.tla).          *)
(***************************************************************************)
EXTENDS Meaning, SchemaDiff, Monotonicity

CONSTANTS Files       \* the parsed files an author may come up with

VARIABLES candidate,  \* the file schema compile is looking at, or Nothing
          memo,       \* monotoneResultCache of the published schema
          proven,     \* what the analyses proved that the last step takes from nobody
          unwarned    \* what was granted before a publish there was no warning of

lastStep == <<proven, unwarned>>
evolutionVars == <<graphVars, candidate, memo, lastStep>>

Nodes == UNION { {ns} \X NamesOf(ns) : ns \in DOMAIN schema }

\* The leaves of a rule: the names it refers to and the relations it follows.
RECURSIVE Leaves(_)
Leaves(rule) ==
  CASE rule.kind \in {"union", "intersection"} ->
         UNION { Leaves(child) : child \in ToSet(rule.children) }
    [] rule.kind = "exclusion" -> Leaves(rule.base) \cup Leaves(rule.subtract)
    [] OTHER -> {rule}

RECURSIVE Subtracting(_)
Subtracting(rule) == \/ rule.kind = "exclusion"
                     \/ /\ rule.kind \in {"union", "intersection"}
                        /\ \E child \in ToSet(rule.children) : Subtracting(child)

\* The rules that permissions of a name have, in any namespace.
RulesOf(s, name) == { s[ns].permissions[name] :
                        ns \in { x \in DOMAIN s : name \in DOMAIN s[x].permissions } }

Named(leaf) == IF leaf.kind = "computedUserset" THEN leaf.name ELSE leaf.computedUserset

\* Every name that one of these leads to.
RECURSIVE LeadTo(_, _)
LeadTo(names, seen) ==
  LET next == UNION { { Named(leaf) : leaf \in Leaves(rule) } :
                        rule \in UNION { RulesOf(schema, n) : n \in names } } \ seen
  IN  IF next = {} THEN seen ELSE LeadTo(next, seen \cup next)

\* What a name grants rests on rules that the new schema leaves as they are, or on
\* rules that only add.
Rests(name, new) ==
  LET under == LeadTo({name}, {})
  IN  \/ \A n \in under : RulesOf(schema, n) = RulesOf(new, n)
      \/ \A n \in under \cup {name} : \A rule \in RulesOf(schema, n) : ~Subtracting(rule)

GrantedTo(s) == Model(s).true
Granted == [s \in Subjects |-> GrantedTo(s)]
Nobody == [s \in Subjects |-> {}]

EvolutionInit == /\ GraphInit
                 /\ candidate = Nothing
                 /\ memo = << >>
                 /\ proven = Nobody
                 /\ unwarned = Nobody

Compile(file) == /\ candidate = Nothing
                 /\ candidate' = file
                 /\ UNCHANGED <<graphVars, memo, lastStep>>

\* publishSchema, of every namespace the file declares; tuples stay as they are.
Publish(file) ==
  LET new == Compiled(file)
      granted == IF Warns(schema, new) THEN Nobody ELSE Granted
  IN  /\ candidate = Nothing
      /\ CompileErrors(file) = {}
      /\ schema' = new @@ schema
      /\ memo' = << >>
      /\ unwarned' = granted
      /\ proven' = [s \in Subjects |-> { k \in granted[s] : Rests(k[2], new @@ schema) }]
      /\ UNCHANGED <<rows, candidate>>

Classify(ns, name) == /\ candidate = Nothing
                      /\ memo' = ClassifyMonotone(schema, ns, name, memo).cache
                      /\ UNCHANGED <<graphVars, candidate, lastStep>>

IsMonotone(ns, name) == <<ns, name>> \in DOMAIN memo /\ memo[<<ns, name>>]

Store(t) == /\ candidate = Nothing
            /\ WriteTuple(t)
            /\ proven' = [s \in Subjects |-> { k \in GrantedTo(s) : IsMonotone(k[1].ns, k[2]) }]
            /\ unwarned' = Nobody
            /\ UNCHANGED <<candidate, memo>>

EvolutionNext == \/ \E file \in Files : Compile(file) \/ Publish(file)
                 \/ \E ns \in DOMAIN schema : \E name \in DOMAIN schema[ns].permissions :
                      Classify(ns, name)
                 \/ \E t \in Tuples : Store(t)

EvolutionSpec == EvolutionInit /\ [][EvolutionNext]_evolutionVars

-----------------------------------------------------------------------------
(* What the analyses promise.                                              *)

\* The permissions of an object that its permission p is computed from directly.
SameObject(config, p) ==
  { leaf.name : leaf \in { l \in Leaves(config.permissions[p]) : l.kind = "computedUserset" } }
    \cap DOMAIN config.permissions

\* Every permission can be computed after those of its object it refers to.
RECURSIVE Grounded(_, _)
Grounded(config, done) ==
  LET next == { p \in DOMAIN config.permissions : SameObject(config, p) \subseteq done }
  IN  IF next = done THEN done = DOMAIN config.permissions ELSE Grounded(config, next)

Finds(s, ns, leaf) ==
  IF leaf.kind = "computedUserset" THEN leaf.name \in Members(s[ns])
  ELSE /\ leaf.relation \in DOMAIN s[ns].relations
       /\ \A type \in s[ns].relations[leaf.relation] :
             type.ns \in DOMAIN s /\ leaf.computedUserset \in Members(s[type.ns])

\* No name has two meanings, every rule finds what it refers to, a subject type of
\* this file names a relation, and no permission of an object depends on itself.
WellFormed(s) ==
  \A ns \in DOMAIN s :
    /\ DOMAIN s[ns].relations \cap DOMAIN s[ns].permissions = {}
    /\ Grounded(s[ns], {})
    /\ \A p \in DOMAIN s[ns].permissions : \A leaf \in Leaves(s[ns].permissions[p]) :
          Finds(s, ns, leaf)
    /\ \A r \in DOMAIN s[ns].relations : \A type \in s[ns].relations[r] :
          (type.relation # None /\ type.ns \in DOMAIN s) =>
             type.relation \in DOMAIN s[type.ns].relations

\* A file without a repetition is compiled as it is.
SaysThingsOnce(file) ==
  /\ Cardinality(Declared(file)) = Len(file)
  /\ \A ns \in ToSet(file) : /\ Cardinality(RelationNames(ns)) = Len(ns.relations)
                             /\ Cardinality(PermissionNames(ns)) = Len(ns.permissions)

\* The compiler takes exactly the files of which every rule can be evaluated
\* (compiler.ts:70-76, 262-300): nothing that is undeclared, defined twice or
\* circular gets to a resolver, and nothing else is refused.
CompilesWhatIsMeaningful ==
  candidate # Nothing =>
    (CompileErrors(candidate) = {} <=> SaysThingsOnce(candidate) /\ WellFormed(Compiled(candidate)))

\* What an analysis proves to be kept is kept.  A publish that schema diff does not warn
\* of takes nothing away that rests on unchanged rules, or on rules without exclusion:
\* 'widen' means a superset "for ANY tuple graph whatsoever" (diff.ts:15-19).  And who has
\* a name that was classified as monotone under this schema, in whatever order names
\* were classified, does not lose it when a tuple is written (monotonicity.ts:2-11).
ProvenIsKept ==
  \A s \in { x \in Subjects : proven[x] # {} } :
    LET granted == GrantedTo(s) IN proven[s] \subseteq granted

\* "would publishing this candidate schema silently revoke access the currently-published
\* version grants?" (diff.ts:2-3); "a missed real narrowing is not" a safe failure
\* (diff.ts:29-30).
NoSilentRevocation ==
  \A s \in Subjects : LET granted == GrantedTo(s) IN unwarned[s] \subseteq granted

\* The cache is "never an observable part of the answer" (monotonicity.ts:113-118).
ClassificationIgnoresHistory ==
  \A key \in DOMAIN memo : memo[key] = ClassifyMonotone(schema, key[1], key[2], << >>).value

\* Names whose exclusion findFlippableExclusion locates, with the exclusion.
Located == { <<ns, n>> \in Nodes : FindFlippableExclusion(schema[ns], n) # Nothing }

\* The relations of the object that a subject is in.
Facts(granted, object) == { k[2] : k \in { p \in granted : p[1] = object } }
                            \cap DOMAIN schema[object.ns].relations

\* An exclusion that is located for a name is at work in it: whoever is in the base
\* alone has the name, and the name is not classified as monotone
\* (monotonicity.ts:393-442).
LocatedExclusionIsAtWork ==
  \A s \in { x \in Subjects : Located # {} } : LET granted == GrantedTo(s) IN
    \A node \in Located : LET at == FindFlippableExclusion(schema[node[1]], node[2]) IN
      /\ ~ClassifyMonotone(schema, node[1], node[2], << >>).value
      /\ \A e \in Entities : (e.ns = node[1] /\ Facts(granted, e) = {at.base})
                               => Key(e, node[2]) \in granted

\* "the ONE additional write that must flip a check on (ns, name) from allowed to denied"
\* (monotonicity.ts:437-438)
SubtractFlips ==
  \A node \in Located : LET at == FindFlippableExclusion(schema[node[1]], node[2]) IN
    \A s \in Subjects : LET granted == GrantedTo(s) IN
      \A e \in Entities : (e.ns = node[1] /\ Facts(granted, e) = {at.base, at.subtract})
                            => Key(e, node[2]) \notin granted
=============================================================================

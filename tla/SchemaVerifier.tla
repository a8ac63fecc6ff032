--------------------------- MODULE SchemaVerifier ---------------------------
(***************************************************************************)
(* The schema verifier (tools/schema-verifier): it is given a schema and a *)
(* file of claims about who must never be granted what, decides each of    *)
(* them without looking at stored tuples, and exits with the worst of the  *)
(* answers.  Afterwards tuples are written under that schema, and what     *)
(* the verifier said is held against what they mean.                       *)
(***************************************************************************)
EXTENDS Meaning, SchemaTiers

CONSTANTS ClaimFiles,      \* the files of claims, each a sequence
          Stored,          \* the tuples that are written once the schema is in use
          Bound,           \* objects of each type in the bounded search: --bound
          MaxCandidates,   \* its ceiling, MAX_BOUNDED_CANDIDATES
          FuzzTuples,      \* tuples that one trial of the fuzzer may write
          MaxDepth         \* CHECK_MAX_DEPTH

VARIABLES file,            \* the claims in question
          reports          \* what has been found of them, in order

verifierVars == <<graphVars, file, reports>>

\* A scratch store that holds the tuples s.
Scratch(s) == INSTANCE Meaning WITH
                rows <- [t \in Tuples |-> IF t \in s THEN "permanent" ELSE "absent"]

\* productionCheck of the goal, over what the schema takes of the tuples.
EngineAllows(s, claim) ==
  Scratch({t \in s : Accepted(t)})!ProductionCheck(claim.subject, claim.object, claim.permission,
                                                   MaxDepth).allowed

-----------------------------------------------------------------------------
(* Replay and fuzzing.                                                     *)

ReplayWitness(witness, claim) ==
  IF (\A t \in witness : Accepted(t)) /\ EngineAllows(witness, claim)
  THEN "confirmed" ELSE "mismatch"

\* Names for k objects of a namespace that no claim has.
Anonymous(ns, k) == {[ns |-> ns, id |-> FreshIds[i]] : i \in 1..k}

TypesIn(relations) ==
  UNION {{type.ns : type \in schema[n.ns].relations[n.name]} : n \in relations}

\* The tuples over a pool of entities that the subject types of these relations allow.
TypeValid(relations, pool) ==
  {t \in Tuples : /\ t.object \in pool
                  /\ Named(t.object.ns, t.relation) \in relations
                  /\ t.subject \in pool \/ t.subject.id = Wildcard
                  /\ SubjectTypeAllowed(t)}

AllRelations == UNION {{Named(ns, r) : r \in DOMAIN schema[ns].relations} : ns \in DOMAIN schema}

\* What trials draw from, whatever the constraints: the goal's own objects only if their
\* namespace has a block in the schema.  Of the tuples they make up, the store takes the
\* valid ones, and "everybody" is not among them.
FuzzDraws(claim) ==
  LET pool == {e \in {claim.subject, claim.object} : e.ns \in DOMAIN schema}
                \cup UNION {Anonymous(ns, 1) : ns \in DOMAIN schema \cup TypesIn(AllRelations)}
  IN  {t \in TypeValid(AllRelations, pool) : t.subject.id # Wildcard}

\* fuzzHolds: the draws of a trial decide whether it finds anything.
FuzzHolds(claim) ==
  {IF EngineAllows(s, claim) THEN "empirical-counterexample" ELSE "empirically-clean" :
     s \in UNION {kSubset(k, FuzzDraws(claim)) : k \in 0..FuzzTuples}}

-----------------------------------------------------------------------------
(* Bounded search.                                                         *)

\* buildInstancePools: the goal's own objects and k others of every type.  Of a goal
\* whose subject and object have one type, only the subject is there.
InstancePool(claim, k) ==
  {claim.subject}
    \cup (IF claim.object.ns # claim.subject.ns THEN {claim.object} ELSE {})
    \cup UNION {Anonymous(ns, k) : ns \in DOMAIN schema \cup TypesIn(RelationsReached(GoalOf(claim)))
                                            \cup {claim.subject.ns, claim.object.ns}}

BlockedByNever(claim, t) ==
  \E nc \in claim.never :
    /\ nc.ns = t.object.ns
    /\ nc.relation = t.relation
    /\ t.subjectRelation # None \/ t.subject.id \in {Wildcard, nc.subject.id}

BlockedByNot(claim, t) ==
  \E c \in claim.excluded : /\ c.relation = t.relation
                            /\ t.subjectRelation = None
                            /\ c.of.id = t.object.id
                            /\ c.value.id = t.subject.id

\* generateCandidateTuples
CandidateTuples(claim, k) ==
  {t \in TypeValid(RelationsReached(GoalOf(claim)), InstancePool(claim, k)) :
     ~BlockedByNever(claim, t) /\ ~BlockedByNot(claim, t)}

HoldsUpTo(k) == [verdict |-> "HOLDS", proof |-> "bounded", bound |-> k]

BoundedSearch(claim, k) ==
  LET candidates == CandidateTuples(claim, k)
      granting   == {s \in SUBSET candidates : EngineAllows(GivenTuples(claim) \cup s, claim)}
  IN  CASE Cardinality(candidates) > MaxCandidates -> Undecided
        [] Cardinality(candidates) <= MaxCandidates /\ granting = {} -> HoldsUpTo(k)
        [] OTHER -> ViolatedBy(GivenTuples(claim) \cup (CHOOSE s \in granting : TRUE), "bounded")

-----------------------------------------------------------------------------
(* checkAndValidate.                                                       *)

Validated(result, claim) ==
  CASE result.verdict = "VIOLATED" ->
         {[result |-> result, validation |-> ReplayWitness(result.witness, claim)]}
    [] result.verdict = "HOLDS" ->
         {[result |-> result, validation |-> v] : v \in FuzzHolds(claim)}
    [] OTHER -> {[result |-> result, validation |-> "not-applicable"]}

\* Either tier reports a violation only if its witness replays; or else declines.
FromWitnesses(witnesses, claim) ==
  IF witnesses = {} THEN Validated(HoldsExactly, claim)
  ELSE {[result |-> ViolatedBy(w, "exact"), validation |-> "confirmed"] :
          w \in {x \in witnesses : ReplayWitness(x, claim) = "confirmed"}}

TrySmtTier(claim) ==
  IF SmtApplies(claim) THEN FromWitnesses(SmtWitnesses(claim), claim) ELSE {}

TryChcTier(claim) ==
  CASE ~ChcApplies(claim) -> {}
    [] ChcApplies(claim) /\ ~ChcDerives(claim) -> FromWitnesses({}, claim)
    [] OTHER -> LET walk == ChcWitness(claim)
                IN  IF walk.endless THEN {} ELSE FromWitnesses({walk.tuples}, claim)

BoundedResult(claim) == [result |-> BoundedSearch(claim, Bound), validation |-> "not-applicable"]

\* The solver may run out of time: the bounded search may always have to answer.
CheckAndValidate(claim) ==
  LET exact == CheckInvariant(claim)
  IN  IF exact.verdict # "UNKNOWN" \/ Monotone(GoalOf(claim)) THEN Validated(exact, claim)
      ELSE TrySmtTier(claim) \cup TryChcTier(claim) \cup {BoundedResult(claim)}

InvariantExitCode(out) ==
  CASE out.validation \in {"mismatch", "empirical-counterexample"} -> 3
    [] out.result.verdict = "VIOLATED" /\ out.validation # "mismatch" -> 1
    [] out.result = HoldsExactly /\ out.validation # "empirical-counterexample" -> 0
    [] OTHER -> 2

\* combineExitCodes: the worst of them.
CombinedExitCode(codes) ==
  CASE 3 \in codes -> 3
    [] 1 \in codes \ {3} -> 1
    [] OTHER -> IF 2 \in codes THEN 2 ELSE 0

-----------------------------------------------------------------------------
VerifierInit == /\ GraphInit
                /\ file \in ClaimFiles
                /\ reports = << >>

Verified == Len(reports) = Len(file)

\* The loop of runVerify.
Verify == /\ ~Verified
          /\ LET claim == file[Len(reports) + 1]
             IN  \E out \in CheckAndValidate(claim) :
                   reports' = Append(reports, [claim |-> claim, result |-> out.result,
                                               code |-> InvariantExitCode(out)])
          /\ UNCHANGED <<graphVars, file>>

ExitCode == CombinedExitCode({reports[i].code : i \in DOMAIN reports})

\* The schema goes into use.
Use(t) == /\ Verified
          /\ WriteTuple(t)
          /\ UNCHANGED <<file, reports>>

VerifierNext == Verify \/ \E t \in Stored : Use(t)

VerifierSpec == VerifierInit /\ [][VerifierNext]_verifierVars

-----------------------------------------------------------------------------
(* What the answers promise.  A claim is about every way to read its       *)
(* variables as entities.                                                  *)

Readings(claim) == {env \in [claim.vars -> {e \in Entities : e.id # Wildcard}] :
                      /\ \A v \in claim.vars : env[v].ns = v.ns
                      /\ \A vars \in claim.distinct : \A u, v \in vars : u # v => env[u] # env[v]}

FactOf(c, env) == WitnessTuple(env[c.of].ns, env[c.of].id, c.relation, Plain(c.value.ns), env[c.value].id)
Facts(claim, env) == {FactOf(c, env) : c \in ToSet(claim.equals)}

Exempted(claim, env, nc) ==
  {env[c.of] : c \in {e \in ToSet(claim.equals) : /\ e.relation = nc.relation
                                                  /\ e.of.ns = nc.ns
                                                  /\ env[e.value] = env[nc.subject]}}

\* What the tuples s grant to whom a claim may be about.
Granting(s, claim) ==
  [e \in {x \in Entities : x.ns = claim.subject.ns /\ x.id # Wildcard} |-> Scratch(s)!Model(e).true]

\* Tuples s are as the constraints say, and grant what the claim excludes.
Breaks(s, granting, claim, env) ==
  /\ Facts(claim, env) \subseteq s
  /\ \A c \in claim.excluded : FactOf(c, env) \notin s
  /\ Key(env[claim.object], claim.permission) \in granting[env[claim.subject]]
  /\ \A nc \in claim.never : \A k \in granting[env[nc.subject]] :
        (k[1].ns = nc.ns /\ k[2] = nc.relation) => k[1] \in Exempted(claim, env, nc)

\* What the constraints fix is fixed: a relation that a claim gives a value has no other,
\* and a fact it rules out is not implied by one about everybody either.
TakenLiterally(s, claim, env) ==
  /\ \A c \in ToSet(claim.equals) : \A t \in s :
        OnKey(t, Key(env[c.of], c.relation)) => t = FactOf(c, env)
  /\ \A c \in claim.excluded : \A t \in s :
        OnKey(t, Key(env[c.of], c.relation)) => t.subject.id # Wildcard

\* Exit code 0 is a proof of every claim of the file: whatever tuples the schema goes
\* into use with, they grant none of what the claims exclude (README.md:215-222,
\* exitCodes.ts:24-38).  It is one for the stores in which a relation that a claim gives
\* a value has just that value, and for claims without exemption from a never:
\* HoldsForever is what is said of all.
ExitZeroIsProof ==
  Verified /\ ExitCode = 0 =>
    \A i \in DOMAIN file :
      (\A nc \in file[i].never : Exempt(file[i], nc) = {}) =>
         LET granting == Granting(Live, file[i])
         IN  \A env \in Readings(file[i]) :
               TakenLiterally(Live, file[i], env) => ~Breaks(Live, granting, file[i], env)

\* "HOLDS means the invariant provably can't be violated by any tuple set, ever - not
\* 'wasn't found,' but 'can't exist.'" (tools/schema-verifier/README.md:217-218)
HoldsForever ==
  \A i \in DOMAIN reports : reports[i].code = 0 =>
    LET granting == Granting(Live, file[i])
    IN  \A env \in Readings(file[i]) : ~Breaks(Live, granting, file[i], env)

\* "every type-valid tuple set up to k objects per type" (tools/schema-verifier/README.md:253):
\* a HOLDS of the bounded search holds for the goal's own objects, of different types, and
\* k more of each.
HoldsWithinBound ==
  \A i \in DOMAIN reports :
    (reports[i].result = HoldsUpTo(Bound) /\ file[i].object.ns # file[i].subject.ns) =>
       LET granting == Granting(Live, file[i])
           met == {e \in {t.object : t \in Live} \cup {t.subject : t \in Live} : e.id # Wildcard}
           fits(others) == \A e \in others : Cardinality({f \in others : f.ns = e.ns}) <= Bound
       IN  \A env \in Readings(file[i]) :
             fits(met \ {env[file[i].subject], env[file[i].object]}) =>
                ~Breaks(Live, granting, file[i], env)

\* A claim that could be met at all is reported as violated only by tuples that the
\* schema takes, that are as its constraints say, and that grant what it excludes
\* (validate/types.ts:1-10).
ViolationIsReal ==
  \A i \in DOMAIN reports :
    LET claim == file[i]
        own   == [v \in claim.vars |-> v]
    IN  (reports[i].code = 1 /\ own \in Readings(claim) /\ \A t \in Facts(claim, own) : Accepted(t)) =>
          \E env \in Readings(claim) :
             LET s == reports[i].result.witness \cup Facts(claim, env)
             IN  (\A t \in s : Accepted(t)) /\ Breaks(s, Granting(s, claim), claim, env)
=============================================================================

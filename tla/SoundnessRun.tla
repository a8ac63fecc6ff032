---------------------------- MODULE SoundnessRun ----------------------------
(***************************************************************************)
(* runSoundnessFuzz of src/soundness/runner.ts: a run publishes the schema *)
(* its seed generates, writes the tuples its seed generates into the live  *)
(* store, backdates those that are to be expired, compares the production  *)
(* resolver, which reads the store, with the reference resolver, which     *)
(* reads the generated tuples, records its verdict, and, when it is a dry  *)
(* run, deletes what it made.  Both resolvers are taken to be right here   *)
(* (CheckEvaluation compares them): what is looked at is whether the       *)
(* harness tells the truth about them, and what it leaves behind.          *)
(***************************************************************************)
EXTENDS Integers, Sequences, FiniteSetsExt

CONSTANTS Runs,       \* concurrent activations of runSoundnessFuzz
          Seeds,
          FixtureOf,  \* seed -> its tuples, in the order they are written
          ExpiryKindOf,     \* tuple -> "plain", "valid" or "expired", its expiryKind
          Vetoes,       \* tuples that take the permission away; the others grant it
          Critical,   \* seeds whose object namespace is a critical one
          Margin,     \* EXPIRY_MARGIN_MS
          Never, Void,
          MaxClock, MaxStarts,
          Reruns      \* may a seed be used again while another run with it goes
                      \* on, or while tuples of an earlier one are stored?

VARIABLES clock,
          fixtureRows,  \* relation_tuples: expires_at of each tuple, or Void
          lastToken,        \* last token of write_log
          configs,    \* versions of the namespaces of each seed
          runRows,    \* soundness_runs
          indexed,    \* the rows the membership index was built from
          watermark,  \* and its watermark_token
          starts      \* runs started so far

VARIABLES rpc,        \* where each run is
          seed, dry, mode,
          anchor,     \* expiryAnchor
          todo,       \* positions of the tuples the loop it is in has left
          published,  \* the version it published, 0 before
          pin,        \* pinToken
          live, viaIndex, \* productionAllowed, productionIndexAllowed
          hits,       \* indexQueriesHit
          id,         \* its row of soundness_runs, Void before
          fuzzResult, \* what it returns, Void when it throws
          reported,       \* what the last run in each slot returned
          before,     \* what was stored of its seed when it started
          spoilt      \* has a delete of its cleanup failed?

storeVars == <<clock, fixtureRows, lastToken, configs, runRows, indexed, watermark, starts>>
optionVars == <<seed, dry, mode>>
progressVars == <<anchor, published, pin, live, viaIndex, hits, id, fuzzResult>>
runVars == <<rpc, optionVars, todo, progressVars, reported, before, spoilt>>
soundnessVars == <<storeVars, runVars>>

AllTuples == DOMAIN ExpiryKindOf
TuplesOf(s) == { FixtureOf[s][i] : i \in DOMAIN FixtureOf[s] }
Modes == {"off", "cold", "warm"}

\* Every generated object is in a namespace whose name is salted with the seed
\* (generators.ts:39-66), and every fixture has tuples.
ASSUME SoundnessAssumption ==
    /\ \A s \in Seeds : FixtureOf[s] \in Seq(AllTuples) /\ FixtureOf[s] # << >>
    /\ \A s, u \in Seeds : s # u => TuplesOf(s) \cap TuplesOf(u) = {}
    /\ \A f \in AllTuples : ExpiryKindOf[f] \in {"plain", "valid", "expired"}
    /\ Margin \in Nat \ {0}
    /\ Never \notin Int
    /\ Void \notin Int \cup {Never, "index_false_grant", "index_false_deny"}
    /\ Void \notin Runs \X Nat

\* What relation_tuples and namespace_configs hold of seed s.
Trace(s) == [rows |-> { t \in TuplesOf(s) : fixtureRows[t] # Void },
             configs |-> configs[s]]

SoundnessInit ==
    /\ clock = 0
    /\ fixtureRows = [t \in AllTuples |-> Void]
    /\ lastToken = 0
    /\ configs = [s \in Seeds |-> {}]
    /\ runRows = {}
    /\ indexed = [t \in AllTuples |-> Void]
    /\ watermark = 0
    /\ starts = 0
    /\ rpc = [r \in Runs |-> "idle"]
    /\ seed = [r \in Runs |-> Void]
    /\ dry = [r \in Runs |-> FALSE]
    /\ mode = [r \in Runs |-> "off"]
    /\ anchor = [r \in Runs |-> 0]
    /\ todo = [r \in Runs |-> {}]
    /\ published = [r \in Runs |-> 0]
    /\ pin = [r \in Runs |-> 0]
    /\ live = [r \in Runs |-> FALSE]
    /\ viaIndex = [r \in Runs |-> Void]
    /\ hits = [r \in Runs |-> 0]
    /\ id = [r \in Runs |-> Void]
    /\ fuzzResult = [r \in Runs |-> Void]
    /\ reported = [r \in Runs |-> Void]
    /\ before = [r \in Runs |-> Void]
    /\ spoilt = [r \in Runs |-> FALSE]

-----------------------------------------------------------------------------
IsLive(row, t) == row # Void /\ (row # Never => row > t)

\* A query of the fixture: a live grant and no live ban.
Holds(s, rs, t) == /\ \E f \in TuplesOf(s) \ Vetoes : IsLive(rs[f], t)
                   /\ \A f \in TuplesOf(s) \cap Vetoes : ~IsLive(rs[f], t)

\* The expires_at the generated tuple stands for, given the anchor of its run.
ExpiryOf(f, a) == CASE ExpiryKindOf[f] = "plain"   -> Never
                    [] ExpiryKindOf[f] = "valid"   -> a + Margin
                    [] ExpiryKindOf[f] = "expired" -> a - Margin

\* referenceCheck over the generated tuples, at the anchor.
ReferenceAllowed(r) ==
    Holds(seed[r], [f \in AllTuples |-> ExpiryOf(f, anchor[r])], anchor[r])

Used(s) == \/ \E q \in Runs : rpc[q] # "idle" /\ seed[q] = s
           \/ Trace(s).rows # {}

\* Two things the harness asks of whoever starts it: dry runs that share a seed do
\* not overlap (runner.ts:141-163), and nobody rebuilds the index beside a cold run
\* (runner.ts:224-230).
MayStart(s, m) == /\ Reruns \/ ~Used(s)
                  /\ \A q \in Runs : rpc[q] # "idle" => {m, mode[q]} # {"cold", "warm"}

Start(r, s, d, m) ==
    /\ rpc[r] = "idle"
    /\ starts < MaxStarts
    /\ MayStart(s, m)
    /\ starts' = starts + 1
    /\ rpc' = [rpc EXCEPT ![r] = "publishing"]
    /\ seed' = [seed EXCEPT ![r] = s]
    /\ dry' = [dry EXCEPT ![r] = d]
    /\ mode' = [mode EXCEPT ![r] = m]
    /\ before' = [before EXCEPT ![r] = Trace(s)]
    /\ spoilt' = [spoilt EXCEPT ![r] = FALSE]
    /\ reported' = [reported EXCEPT ![r] = Void]
    /\ UNCHANGED <<clock, fixtureRows, lastToken, configs, runRows, indexed, watermark, todo, progressVars>>

\* publishSchema, and the anchor that is taken when it has returned.
PublishFixture(r) ==
    /\ rpc[r] = "publishing"
    /\ LET v == Max(configs[seed[r]] \cup {0}) + 1
       IN  /\ configs' = [configs EXCEPT ![seed[r]] = @ \cup {v}]
           /\ published' = [published EXCEPT ![r] = v]
    /\ anchor' = [anchor EXCEPT ![r] = clock]
    /\ todo' = [todo EXCEPT ![r] = DOMAIN FixtureOf[seed[r]]]
    /\ rpc' = [rpc EXCEPT ![r] = "writing"]
    /\ UNCHANGED <<clock, fixtureRows, lastToken, runRows, indexed, watermark, starts, optionVars,
                   pin, live, viaIndex, hits, id, fuzzResult, reported, before, spoilt>>

\* The tuple that the loop of r has come to.
Coming(r) == CHOOSE i \in todo[r] : \A j \in todo[r] : i <= j
ComingTuple(r) == FixtureOf[seed[r]][Coming(r)]

\* The positions of the tuples to backdate.
ExpiredOf(s) == { i \in DOMAIN FixtureOf[s] : ExpiryKindOf[FixtureOf[s][i]] = "expired" }

\* What a write of f stores: a tuple that is there already keeps its row.
Written(r, f) == IF fixtureRows[f] # Void THEN fixtureRows[f]
                 ELSE IF ExpiryKindOf[f] = "plain" THEN Never ELSE anchor[r] + Margin

\* writeTuple of the next tuple; its namespace has a published schema.
WriteFixtureTuple(r) ==
    /\ rpc[r] = "writing"
    /\ todo[r] # {}
    /\ configs[seed[r]] # {}
    /\ fixtureRows' = [fixtureRows EXCEPT ![ComingTuple(r)] = Written(r, ComingTuple(r))]
    /\ lastToken' = lastToken + 1
    /\ todo' = [todo EXCEPT ![r] = @ \ {Coming(r)}]
    /\ UNCHANGED <<clock, configs, runRows, indexed, watermark, starts, rpc, optionVars,
                   progressVars, reported, before, spoilt>>

FixtureWritten(r) ==
    /\ rpc[r] = "writing"
    /\ todo[r] = {}
    /\ todo' = [todo EXCEPT ![r] = ExpiredOf(seed[r])]
    /\ rpc' = [rpc EXCEPT ![r] = "backdating"]
    /\ UNCHANGED <<storeVars, optionVars, progressVars, reported, before, spoilt>>

\* Mutant: the expired tuples keep the expiry they were written with.
BackdateNothing(r) ==
    /\ rpc[r] = "backdating"
    /\ todo[r] # {}
    /\ todo' = [todo EXCEPT ![r] = @ \ {Coming(r)}]
    /\ UNCHANGED <<storeVars, rpc, optionVars, progressVars, reported, before, spoilt>>

\* backdateExpiringTuples: an update of the row, past the write path and write_log.
BackdateTuple(r) ==
    /\ rpc[r] = "backdating"
    /\ todo[r] # {}
    /\ fixtureRows' = [fixtureRows EXCEPT ![ComingTuple(r)] = IF @ = Void THEN Void ELSE anchor[r] - Margin]
    /\ todo' = [todo EXCEPT ![r] = @ \ {Coming(r)}]
    /\ UNCHANGED <<clock, lastToken, configs, runRows, indexed, watermark, starts, rpc, optionVars,
                   progressVars, reported, before, spoilt>>

\* The pin: none; max(token); or the watermark of a rebuild made here.
PinRun(r) ==
    /\ rpc[r] = "backdating"
    /\ todo[r] = {}
    /\ pin' = [pin EXCEPT ![r] = IF mode[r] = "off" THEN 0 ELSE lastToken]
    /\ IF mode[r] = "warm"
       THEN indexed' = fixtureRows /\ watermark' = lastToken
       ELSE UNCHANGED <<indexed, watermark>>
    /\ rpc' = [rpc EXCEPT ![r] = "checking"]
    /\ UNCHANGED <<clock, fixtureRows, lastToken, configs, runRows, starts, optionVars, todo, anchor,
                   published, live, viaIndex, hits, id, fuzzResult, reported, before, spoilt>>

\* A pinned check that may use the index finds it at its token or past it.
IndexServes(r) == mode[r] # "off" /\ pin[r] <= watermark

\* checkAllQueries, the production answer; a cold run already asks the index.
CheckLive(r) ==
    /\ rpc[r] = "checking"
    /\ live' = [live EXCEPT ![r] =
                   Holds(seed[r], IF mode[r] = "cold" /\ IndexServes(r) THEN indexed ELSE fixtureRows, clock)]
    /\ hits' = [hits EXCEPT ![r] = IF mode[r] = "cold" /\ IndexServes(r) THEN 1 ELSE 0]
    /\ rpc' = [rpc EXCEPT ![r] = IF mode[r] = "warm" THEN "checkingIndex" ELSE "recording"]
    /\ UNCHANGED <<storeVars, optionVars, todo, anchor, published, pin, viaIndex, id, fuzzResult,
                   reported, before, spoilt>>

\* The second call of a warm run, pinned to the same token.
CheckIndex(r) ==
    /\ rpc[r] = "checkingIndex"
    /\ viaIndex' = [viaIndex EXCEPT ![r] =
                       Holds(seed[r], IF IndexServes(r) THEN indexed ELSE fixtureRows, clock)]
    /\ hits' = [hits EXCEPT ![r] = IF IndexServes(r) THEN 1 ELSE 0]
    /\ rpc' = [rpc EXCEPT ![r] = "recording"]
    /\ UNCHANGED <<storeVars, optionVars, todo, anchor, published, pin, live, id, fuzzResult,
                   reported, before, spoilt>>

-----------------------------------------------------------------------------
\* classifyResult: Void, or the kind and whether the namespace is critical.
Divergence(r) ==
    IF live[r] = ReferenceAllowed(r) THEN Void
    ELSE [kind |-> IF live[r] THEN "false_grant" ELSE "false_deny",
          critical |-> seed[r] \in Critical]

\* classifyIndexDivergence
IndexDivergence(r) ==
    IF viaIndex[r] \in {Void, live[r]} THEN Void
    ELSE IF viaIndex[r] THEN "index_false_grant" ELSE "index_false_deny"

IndexGateFailed(r) == \/ IndexDivergence(r) = "index_false_grant"
                      \/ mode[r] = "warm" /\ hits[r] = 0
                      \/ mode[r] = "cold" /\ hits[r] # 0

IsFalseGrant(d) == d # Void /\ d.kind = "false_grant"

\* computeVerdict of a fixture that covers every rule, then the gate of the index.
Verdict(r) == IF IsFalseGrant(Divergence(r)) \/ (mode[r] # "off" /\ IndexGateFailed(r))
              THEN "unsound" ELSE "sound"

RunOutcome(r) == [verdict |-> Verdict(r), divergence |-> Divergence(r),
               indexDivergence |-> IndexDivergence(r)]

\* Where a run goes when its work is over, with a result or with an error.
AfterWork(r) == IF dry[r] THEN "dropRun" ELSE "returning"

\* insert into soundness_runs; the result is final from here.
RecordRun(r) ==
    /\ rpc[r] = "recording"
    /\ runRows' = runRows \cup {<<r, starts>>}
    /\ id' = [id EXCEPT ![r] = <<r, starts>>]
    /\ fuzzResult' = [fuzzResult EXCEPT ![r] = RunOutcome(r)]
    /\ rpc' = [rpc EXCEPT ![r] = AfterWork(r)]
    /\ UNCHANGED <<clock, fixtureRows, lastToken, configs, indexed, watermark, starts, optionVars, todo,
                   anchor, published, pin, live, viaIndex, hits, reported, before, spoilt>>

\* A statement throws, or a write is refused: catch cleans up and rethrows.
RunThrows(r) ==
    /\ rpc[r] \in {"publishing", "writing", "backdating", "checking", "checkingIndex",
                   "recording"}
    /\ rpc' = [rpc EXCEPT ![r] = AfterWork(r)]
    /\ todo' = [todo EXCEPT ![r] = {}]
    /\ UNCHANGED <<storeVars, optionVars, progressVars, reported, before, spoilt>>

\* cleanupDryRunArtifacts: its row of soundness_runs, if it has one; a delete that
\* fails is noted, and the next one is tried all the same.
DropRun(r) ==
    /\ rpc[r] = "dropRun"
    /\ \/ runRows' = runRows \ {id[r]} /\ UNCHANGED spoilt
       \/ UNCHANGED runRows /\ spoilt' = [spoilt EXCEPT ![r] = TRUE]
    /\ todo' = [todo EXCEPT ![r] = DOMAIN FixtureOf[seed[r]]]
    /\ rpc' = [rpc EXCEPT ![r] = "dropTuples"]
    /\ UNCHANGED <<clock, fixtureRows, lastToken, configs, indexed, watermark, starts, optionVars,
                   progressVars, reported, before>>

\* Mutant: a tuple that has expired is taken to be gone.
DropLiveTuple(r) ==
    /\ rpc[r] = "dropTuples"
    /\ todo[r] # {}
    /\ \/ /\ fixtureRows' = [fixtureRows EXCEPT ![ComingTuple(r)] = IF IsLive(@, clock) THEN Void ELSE @]
          /\ lastToken' = lastToken + 1
          /\ UNCHANGED spoilt
       \/ UNCHANGED <<fixtureRows, lastToken>> /\ spoilt' = [spoilt EXCEPT ![r] = TRUE]
    /\ todo' = [todo EXCEPT ![r] = @ \ {Coming(r)}]
    /\ UNCHANGED <<clock, configs, runRows, indexed, watermark, starts, rpc, optionVars,
                   progressVars, reported, before>>

\* deleteTuple of every tuple of the fixture, written by this run or not.
DropTuple(r) ==
    /\ rpc[r] = "dropTuples"
    /\ todo[r] # {}
    /\ \/ /\ fixtureRows' = [fixtureRows EXCEPT ![ComingTuple(r)] = Void]
          /\ lastToken' = lastToken + 1
          /\ UNCHANGED spoilt
       \/ UNCHANGED <<fixtureRows, lastToken>> /\ spoilt' = [spoilt EXCEPT ![r] = TRUE]
    /\ todo' = [todo EXCEPT ![r] = @ \ {Coming(r)}]
    /\ UNCHANGED <<clock, configs, runRows, indexed, watermark, starts, rpc, optionVars,
                   progressVars, reported, before>>

\* deletePublishedNamespaceVersion of what publishSchema returned.
DropVersion(r) ==
    /\ rpc[r] = "dropTuples"
    /\ todo[r] = {}
    /\ \/ /\ configs' = [configs EXCEPT ![seed[r]] = @ \ {published[r]}]
          /\ UNCHANGED spoilt
       \/ UNCHANGED configs /\ spoilt' = [spoilt EXCEPT ![r] = TRUE]
    /\ rpc' = [rpc EXCEPT ![r] = "returning"]
    /\ UNCHANGED <<clock, fixtureRows, lastToken, runRows, indexed, watermark, starts, optionVars, todo,
                   progressVars, reported, before>>

\* The result, whatever the cleanup met; or the error the run met.
ReturnRun(r) ==
    /\ rpc[r] = "returning"
    /\ reported' = [reported EXCEPT ![r] = IF fuzzResult[r] = Void THEN Void
                                   ELSE [result |-> fuzzResult[r],
                                         clean |-> dry[r] /\ ~spoilt[r],
                                         recorded |-> id[r] \in runRows,
                                         left |-> Trace(seed[r]), before |-> before[r]]]
    /\ rpc' = [rpc EXCEPT ![r] = "idle"]
    /\ seed' = [seed EXCEPT ![r] = Void]
    /\ dry' = [dry EXCEPT ![r] = FALSE]
    /\ mode' = [mode EXCEPT ![r] = "off"]
    /\ anchor' = [anchor EXCEPT ![r] = 0]
    /\ published' = [published EXCEPT ![r] = 0]
    /\ pin' = [pin EXCEPT ![r] = 0]
    /\ live' = [live EXCEPT ![r] = FALSE]
    /\ viaIndex' = [viaIndex EXCEPT ![r] = Void]
    /\ hits' = [hits EXCEPT ![r] = 0]
    /\ id' = [id EXCEPT ![r] = Void]
    /\ fuzzResult' = [fuzzResult EXCEPT ![r] = Void]
    /\ before' = [before EXCEPT ![r] = Void]
    /\ spoilt' = [spoilt EXCEPT ![r] = FALSE]
    /\ UNCHANGED <<storeVars, todo>>

\* No run lasts for the margin (runner.ts:379-387, "roughly 600x").
ClockMoves == /\ clock < MaxClock
              /\ \A r \in Runs : published[r] # 0 => clock + 1 < anchor[r] + Margin
              /\ clock' = clock + 1
              /\ UNCHANGED <<fixtureRows, lastToken, configs, runRows, indexed, watermark, starts, runVars>>

RunStep(r) == \/ \E s \in Seeds, d \in BOOLEAN, m \in Modes : Start(r, s, d, m)
              \/ PublishFixture(r)
              \/ WriteFixtureTuple(r)
              \/ FixtureWritten(r)
              \/ BackdateTuple(r)
              \/ PinRun(r)
              \/ CheckLive(r)
              \/ CheckIndex(r)
              \/ RecordRun(r)
              \/ RunThrows(r)
              \/ DropRun(r)
              \/ DropTuple(r)
              \/ DropVersion(r)
              \/ ReturnRun(r)

SoundnessNext == ClockMoves \/ \E r \in Runs : RunStep(r)

SoundnessSpec == SoundnessInit /\ [][SoundnessNext]_soundnessVars

-----------------------------------------------------------------------------
\* A run does not report a resolver that is right: no divergence, and no verdict
\* but sound, whatever else runs beside it and however far the clock goes while it
\* checks (the margin of runner.ts:353-394, the salted names of generators.ts:39-66,
\* the gate of the index, runner.ts:1100-1119).
RightResolverNotAccused ==
    \A r \in Runs : reported[r] # Void =>
        /\ reported[r].result.verdict = "sound"
        /\ reported[r].result.divergence = Void
        /\ reported[r].result.indexDivergence = Void

\* A dry run leaves "namespace_configs, relation_tuples, and soundness_runs in
\* exactly the state they were in before the call" (runner.ts:109-112), of its own
\* seed, if no delete of its cleanup failed.
DryRunLeavesNoTrace ==
    \A r \in Runs : reported[r] # Void /\ reported[r].clean =>
        /\ reported[r].left = reported[r].before
        /\ ~reported[r].recorded
=============================================================================

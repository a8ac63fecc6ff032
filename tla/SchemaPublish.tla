--------------------------- MODULE SchemaPublish ---------------------------
(***************************************************************************)
(* The published schema and everything that reads it: publishSchema of     *)
(* src/schema/publish.ts with its per-namespace advisory locks, called by  *)
(* the API, by the command line, by a rollback and by the dry run of the   *)
(* soundness fuzzer, which deletes what it published; the validation of a  *)
(* tuple against the latest configs, on the pool and before the write      *)
(* opens its transaction (src/store/tuples.ts); and checks of one server,  *)
(* whose cached answers a publish through that server clears.              *)
(***************************************************************************)
EXTENDS Integers, Sequences, FiniteSets

CONSTANTS Publishers,  \* concurrent activations of publishSchema
          Writers,     \* concurrent activations of writeTuple
          Checks,      \* concurrent checks of one server, on one object
          Namespaces,
          HashOf,      \* namespace -> hashtext(namespace), the key of its lock
          Claims,      \* tuples a caller may want to write
          ObjectNs,    \* tuple -> namespace of its object
          SubjectNs,   \* tuple -> namespace of its userset subject, Missing for a plain one
          Sources,     \* source texts that compile: [order: a sequence of distinct
                       \* namespaces, config: of each, [takes, has: sets of tuples]]
          FuzzSources, \* those the soundness fuzzer generates
          Missing,
          MaxPublishes \* publishes that commit

ASSUME MissingAssumption == /\ Missing \notin Publishers
                            /\ Missing \notin Nat
\* A source that declares no namespace, or one twice, does not compile.
ASSUME SourcesAssumption ==
    \A s \in Sources :
        /\ s.order \in Seq(Namespaces) \ {<< >>}
        /\ \A i, j \in DOMAIN s.order : s.order[i] = s.order[j] => i = j
\* The namespaces of a generated source carry the salt of its seed: no other
\* source declares them and no caller of writeTuple names them.
ASSUME SaltsAssumption ==
    \A s \in FuzzSources \cap Sources : \A i \in DOMAIN s.order :
        /\ \A t \in Sources \ {s} : \A j \in DOMAIN t.order : t.order[j] # s.order[i]
        /\ \A f \in Claims : ObjectNs[f] # s.order[i] /\ SubjectNs[f] # s.order[i]

VARIABLES table,       \* committed rows of namespace_configs
          log,         \* for each publish that committed, in commit order, its rows
          nsLock,      \* holder of each advisory lock, or Missing
          ppc,         \* where each publishSchema is
          caller,      \* who called it
          source,      \* the source it publishes
          idx,         \* the namespace of the source it is at
          version,     \* next_version, as read
          pending,     \* rows its transaction has inserted
          answer       \* what the last call in each slot returned

VARIABLES wpc, fact,   \* where each writeTuple is, and its tuple
          began,       \* Len(log) when it was called
          readAt,      \* Len(log) when it read the config of its object
          stored       \* the last insert of each: its tuple, and Len(log) at its
                       \* start, at its first read and at the insert

VARIABLES epoch, cache, \* the check cache: CheckCache.epoch, and the stored answer
          kpc, missEpoch, basis, need,
          told,        \* the last answer of each check, and what it had to cover
          acked        \* Len(log) up to which this server has answered a publish

publisherVars == <<nsLock, ppc, caller, source, idx, version, pending, answer>>
schemaVars == <<table, log>>
writerVars == <<wpc, fact, began, readAt, stored>>
checkVars == <<kpc, missEpoch, basis, need, told>>
serverVars == <<epoch, cache, acked>>
allVars == <<schemaVars, publisherVars, writerVars, checkVars, serverVars>>

Callers == {"api", "cli", "dryRun"}
Row == [namespace : Namespaces, version : Nat \ {0}, source : Sources]

PublishInit == /\ table = {}
               /\ log = << >>
               /\ nsLock = [h \in { HashOf[ns] : ns \in Namespaces } |-> Missing]
               /\ ppc = [p \in Publishers |-> "idle"]
               /\ caller = [p \in Publishers |-> Missing]
               /\ source = [p \in Publishers |-> Missing]
               /\ idx = [p \in Publishers |-> 0]
               /\ version = [p \in Publishers |-> 0]
               /\ pending = [p \in Publishers |-> {}]
               /\ answer = [p \in Publishers |-> Missing]
               /\ wpc = [w \in Writers |-> "idle"]
               /\ fact = [w \in Writers |-> Missing]
               /\ began = [w \in Writers |-> 0]
               /\ readAt = [w \in Writers |-> 0]
               /\ stored = [w \in Writers |-> Missing]
               /\ epoch = 0
               /\ cache = Missing
               /\ kpc = [k \in Checks |-> "idle"]
               /\ missEpoch = [k \in Checks |-> 0]
               /\ basis = [k \in Checks |-> 0]
               /\ need = [k \in Checks |-> 0]
               /\ told = [k \in Checks |-> Missing]
               /\ acked = 0

-----------------------------------------------------------------------------
(* namespace_configs. *)

Versions(t, ns) == { r.version : r \in { s \in t : s.namespace = ns } }

\* coalesce(max(version), 0)
MaxVersion(t, ns) == CHOOSE v \in Versions(t, ns) \cup {0} :
                         \A u \in Versions(t, ns) : u <= v

\* getLatestNamespaceConfig: Missing when the namespace was never published.
LatestConfig(t, ns) ==
    IF Versions(t, ns) = {} THEN Missing
    ELSE LET r == CHOOSE s \in t : s.namespace = ns /\ s.version = MaxVersion(t, ns)
         IN  r.source.config[ns]

-----------------------------------------------------------------------------
(* publishSchema. *)

NoCall(p) == ppc[p] = "idle"
Current(p) == source[p].order[idx[p]]
Held(p) == { h \in DOMAIN nsLock : nsLock[h] = p }

\* compileSchema has accepted the source, and the transaction is open.
StartPublish(p, c, s) ==
    /\ NoCall(p)
    /\ Len(log) < MaxPublishes
    /\ (c = "dryRun") <=> (s \in FuzzSources)
    /\ ppc' = [ppc EXCEPT ![p] = "locking"]
    /\ caller' = [caller EXCEPT ![p] = c]
    /\ source' = [source EXCEPT ![p] = s]
    /\ idx' = [idx EXCEPT ![p] = 1]
    /\ answer' = [answer EXCEPT ![p] = Missing]
    /\ UNCHANGED <<schemaVars, nsLock, version, pending, writerVars, checkVars, serverVars>>

\* POST /schema/publish, or runSoundnessFuzz; schema publish is a rollback to a
\* source that may not be stored.
PublishSource(p) == \E c \in {"api", "dryRun"}, s \in Sources : StartPublish(p, c, s)

\* schema rollback: the stored source of one version, through the same path;
\* it publishes every namespace of that source, not the named one alone.
Rollback(p) == \E r \in table : r.source \notin FuzzSources /\ StartPublish(p, "cli", r.source)

\* Mutant: the namespaces are not serialized.
LockNothing(p) ==
    /\ ppc[p] = "locking"
    /\ ppc' = [ppc EXCEPT ![p] = "reading"]
    /\ UNCHANGED <<schemaVars, nsLock, caller, source, idx, version, pending, answer,
                   writerVars, checkVars, serverVars>>

\* pg_advisory_xact_lock(hashtext(namespace)); a holder is granted it again.
LockNamespace(p) ==
    /\ ppc[p] = "locking"
    /\ nsLock[HashOf[Current(p)]] \in {Missing, p}
    /\ nsLock' = [nsLock EXCEPT ![HashOf[Current(p)]] = p]
    /\ ppc' = [ppc EXCEPT ![p] = "reading"]
    /\ UNCHANGED <<schemaVars, caller, source, idx, version, pending, answer,
                   writerVars, checkVars, serverVars>>

\* select coalesce(max(version), 0) + 1
ReadNextVersion(p) ==
    /\ ppc[p] = "reading"
    /\ version' = [version EXCEPT ![p] = MaxVersion(table, Current(p)) + 1]
    /\ ppc' = [ppc EXCEPT ![p] = "inserting"]
    /\ UNCHANGED <<schemaVars, nsLock, caller, source, idx, pending, answer,
                   writerVars, checkVars, serverVars>>

NewRow(p) == [namespace |-> Current(p), version |-> version[p], source |-> source[p]]

SameKey(r, s) == r.namespace = s.namespace /\ r.version = s.version

\* unique (namespace, version): an insert waits for an open transaction that has
\* the key, and fails when a committed row has it.
InsertConfig(p) ==
    /\ ppc[p] = "inserting"
    /\ \A q \in Publishers \ {p} : \A r \in pending[q] : ~SameKey(r, NewRow(p))
    /\ \A r \in table : ~SameKey(r, NewRow(p))
    /\ pending' = [pending EXCEPT ![p] = @ \cup {NewRow(p)}]
    /\ idx' = [idx EXCEPT ![p] = @ + 1]
    /\ ppc' = [ppc EXCEPT ![p] = IF idx[p] = Len(source[p].order) THEN "committing"
                                 ELSE "locking"]
    /\ UNCHANGED <<schemaVars, nsLock, caller, source, version, answer,
                   writerVars, checkVars, serverVars>>

\* Mutant: pg_advisory_lock, which the session keeps when the transaction ends.
StillLocked(p) == nsLock

\* The locks of a transaction end with it.
Unlocked(p) == [h \in DOMAIN nsLock |-> IF nsLock[h] = p THEN Missing ELSE nsLock[h]]

\* COMMIT on the server.
LandPublish(p) ==
    /\ table' = table \cup pending[p]
    /\ log' = Append(log, pending[p])
    /\ nsLock' = Unlocked(p)

CommitPublish(p) ==
    /\ ppc[p] = "committing"
    /\ LandPublish(p)
    /\ ppc' = [ppc EXCEPT ![p] = "published"]
    /\ UNCHANGED <<caller, source, idx, version, pending, answer,
                   writerVars, checkVars, serverVars>>

EndPublish(p, a) ==
    /\ ppc' = [ppc EXCEPT ![p] = "idle"]
    /\ caller' = [caller EXCEPT ![p] = Missing]
    /\ source' = [source EXCEPT ![p] = Missing]
    /\ idx' = [idx EXCEPT ![p] = 0]
    /\ version' = [version EXCEPT ![p] = 0]
    /\ pending' = [pending EXCEPT ![p] = {}]
    /\ answer' = [answer EXCEPT ![p] = a]

\* A statement fails, or the answer to COMMIT is lost: ROLLBACK, release, throw.
PublishThrows(p) ==
    /\ \/ /\ ppc[p] \in {"locking", "reading", "inserting", "committing"}
          /\ nsLock' = Unlocked(p)
          /\ UNCHANGED schemaVars
       \/ ppc[p] = "committing" /\ LandPublish(p)
    /\ EndPublish(p, Missing)
    /\ UNCHANGED <<writerVars, checkVars, serverVars>>

\* Calls of which each waits for a lock another one holds.
Deadlocked(S) ==
    /\ S # {}
    /\ \A p \in S : /\ ppc[p] = "locking"
                    /\ nsLock[HashOf[Current(p)]] \in S \ {p}

\* Postgres' deadlock detector makes one of them throw.
BreakDeadlock(p) ==
    /\ \E S \in SUBSET Publishers : p \in S /\ Deadlocked(S)
    /\ nsLock' = Unlocked(p)
    /\ EndPublish(p, Missing)
    /\ UNCHANGED <<schemaVars, writerVars, checkVars, serverVars>>

\* Mutant: the publish route answers and leaves the cache alone.
KeepCache == UNCHANGED <<epoch, cache>>

\* CheckCache.clear
ClearCache == epoch' = epoch + 1 /\ cache' = Missing

\* publishSchema returns; the route of the API clears the cache and answers.
PublishReturns(p) ==
    /\ ppc[p] = "published"
    /\ caller[p] # "dryRun"
    /\ IF caller[p] = "api"
       THEN ClearCache /\ acked' = Len(log)
       ELSE UNCHANGED <<epoch, cache, acked>>
    /\ EndPublish(p, [rows |-> pending[p], source |-> source[p]])
    /\ UNCHANGED <<schemaVars, nsLock, writerVars, checkVars>>

\* cleanupDryRunArtifacts: one delete per namespace that was published, in a
\* transaction of its own; one that fails leaves its row behind.
DeletePublishedNamespaceVersion(p, r) ==
    /\ ppc[p] = "published"
    /\ caller[p] = "dryRun"
    /\ r \in pending[p]
    /\ table' \in { table, { s \in table : ~SameKey(s, r) } }
    /\ pending' = [pending EXCEPT ![p] = @ \ {r}]
    /\ UNCHANGED <<log, nsLock, ppc, caller, source, idx, version, answer,
                   writerVars, checkVars, serverVars>>

CleanupEnds(p) ==
    /\ ppc[p] = "published"
    /\ caller[p] = "dryRun"
    /\ pending[p] = {}
    /\ EndPublish(p, Missing)
    /\ UNCHANGED <<schemaVars, nsLock, writerVars, checkVars, serverVars>>

-----------------------------------------------------------------------------
(* writeTuple: validateAgainstSchema, then the transaction of TupleStore. *)

StartWrite(w, f) ==
    /\ wpc[w] = "idle"
    /\ wpc' = [wpc EXCEPT ![w] = "object"]
    /\ fact' = [fact EXCEPT ![w] = f]
    /\ began' = [began EXCEPT ![w] = Len(log)]
    /\ stored' = [stored EXCEPT ![w] = Missing]
    /\ UNCHANGED <<schemaVars, publisherVars, readAt, checkVars, serverVars>>

EndWrite(w) ==
    /\ wpc' = [wpc EXCEPT ![w] = "idle"]
    /\ fact' = [fact EXCEPT ![w] = Missing]
    /\ began' = [began EXCEPT ![w] = 0]
    /\ readAt' = [readAt EXCEPT ![w] = 0]

Takes(config, f) == config # Missing /\ f \in config.takes

\* A namespace that was never published says nothing of the usersets it has.
HasUserset(config, f) == config # Missing => f \in config.has

\* Mutant: the subject's namespace is not looked up.
SubjectUnchecked(f) == "insert"

AfterObject(f) == IF SubjectNs[f] = Missing THEN "insert" ELSE "subject"

\* The latest config of the object's namespace, and what it says of the tuple.
ReadObjectConfig(w) ==
    /\ wpc[w] = "object"
    /\ IF Takes(LatestConfig(table, ObjectNs[fact[w]]), fact[w])
       THEN /\ wpc' = [wpc EXCEPT ![w] = AfterObject(fact[w])]
            /\ readAt' = [readAt EXCEPT ![w] = Len(log)]
            /\ UNCHANGED <<fact, began>>
       ELSE EndWrite(w)
    /\ UNCHANGED <<schemaVars, publisherVars, stored, checkVars, serverVars>>

\* A second statement of its own: the latest config of the subject's namespace.
ReadSubjectConfig(w) ==
    /\ wpc[w] = "subject"
    /\ IF HasUserset(LatestConfig(table, SubjectNs[fact[w]]), fact[w])
       THEN /\ wpc' = [wpc EXCEPT ![w] = "insert"]
            /\ UNCHANGED <<fact, began, readAt>>
       ELSE EndWrite(w)
    /\ UNCHANGED <<schemaVars, publisherVars, stored, checkVars, serverVars>>

\* The transaction of the write; nothing looks at the schema again.
InsertValidated(w) ==
    /\ wpc[w] = "insert"
    /\ stored' = [stored EXCEPT ![w] = [fact |-> fact[w], from |-> began[w],
                                        object |-> readAt[w], until |-> Len(log)]]
    /\ EndWrite(w)
    /\ UNCHANGED <<schemaVars, publisherVars, checkVars, serverVars>>

-----------------------------------------------------------------------------
(* Checks: every config is read in the snapshot of the walk (getConfig). *)

StartCheck(k) ==
    /\ kpc[k] = "idle"
    /\ kpc' = [kpc EXCEPT ![k] = IF cache = Missing THEN "missed" ELSE "answered"]
    /\ basis' = [basis EXCEPT ![k] = IF cache = Missing THEN 0 ELSE cache]
    /\ missEpoch' = [missEpoch EXCEPT ![k] = epoch]
    /\ need' = [need EXCEPT ![k] = acked]
    /\ told' = [told EXCEPT ![k] = Missing]
    /\ UNCHANGED <<schemaVars, publisherVars, writerVars, serverVars>>

\* The snapshot of the walk, and with it every config the walk will see.
Walk(k) ==
    /\ kpc[k] = "missed"
    /\ basis' = [basis EXCEPT ![k] = Len(log)]
    /\ kpc' = [kpc EXCEPT ![k] = "walked"]
    /\ UNCHANGED <<schemaVars, publisherVars, writerVars, missEpoch, need, told, serverVars>>

\* trySet, unless the cache was cleared since the miss; then the answer.
EndCheck(k) ==
    /\ kpc[k] \in {"walked", "answered"}
    /\ cache' = IF kpc[k] = "walked" /\ missEpoch[k] = epoch THEN basis[k] ELSE cache
    /\ told' = [told EXCEPT ![k] = [basis |-> basis[k], need |-> need[k]]]
    /\ kpc' = [kpc EXCEPT ![k] = "idle"]
    /\ basis' = [basis EXCEPT ![k] = 0]
    /\ missEpoch' = [missEpoch EXCEPT ![k] = 0]
    /\ need' = [need EXCEPT ![k] = 0]
    /\ UNCHANGED <<schemaVars, publisherVars, writerVars, epoch, acked>>

-----------------------------------------------------------------------------
\* What an awaiting publish does of its own accord.
PublishProceeds(p) == \/ ReadNextVersion(p)
                      \/ InsertConfig(p)
                      \/ CommitPublish(p)
                      \/ PublishReturns(p)
                      \/ \E r \in pending[p] : DeletePublishedNamespaceVersion(p, r)
                      \/ CleanupEnds(p)

PublisherStep(p) == \/ PublishSource(p)
                    \/ Rollback(p)
                    \/ LockNamespace(p)
                    \/ PublishProceeds(p)
                    \/ PublishThrows(p)
                    \/ BreakDeadlock(p)

WriterStep(w) == \/ \E f \in Claims : StartWrite(w, f)
                 \/ ReadObjectConfig(w)
                 \/ ReadSubjectConfig(w)
                 \/ InsertValidated(w)

CheckStep(k) == StartCheck(k) \/ Walk(k) \/ EndCheck(k)

PublishNext == \/ \E p \in Publishers : PublisherStep(p)
               \/ \E w \in Writers : WriterStep(w)
               \/ \E k \in Checks : CheckStep(k)

PublishSpec == PublishInit /\ [][PublishNext]_allVars

\* Postgres serves the waiters of a lock in turn and breaks a deadlock, and the
\* event loop runs a call whose statement has answered.
PublishFairness == \A p \in Publishers : /\ WF_allVars(PublishProceeds(p))
                                         /\ SF_allVars(LockNamespace(p))
                                         /\ WF_allVars(BreakDeadlock(p))

FairPublishSpec == PublishSpec /\ PublishFairness

-----------------------------------------------------------------------------
\* "Versions are per-namespace and monotonic", and "every namespace in the source
\* is published together or not at all" (publish.ts:33-37): a publish that was
\* answered is in the table as one row for each namespace of its source; a version
\* number names one source for ever, also one that a dry run has freed and that
\* was handed out again; and outside of dry runs versions follow commit order.
\* The version a publish has read as next is free until it has inserted it, so no
\* publish dies of the unique constraint: the race is "structurally impossible"
\* (publish.ts:91-117).
PublishedIsHistory ==
    /\ \A p \in Publishers : answer[p] # Missing =>
          /\ answer[p].rows \subseteq table
          /\ { r.namespace : r \in answer[p].rows }
                 = { answer[p].source.order[i] : i \in DOMAIN answer[p].source.order }
    /\ \A i, j \in DOMAIN log : \A r \in log[i], s \in log[j] :
          /\ SameKey(r, s) => r.source = s.source
          /\ (r.namespace = s.namespace /\ i < j /\ r.source \notin FuzzSources)
                => r.version < s.version
    /\ \A p, q \in Publishers : (ppc[p] = "inserting" /\ p # q) =>
          \A r \in table \cup pending[q] : ~SameKey(r, NewRow(p))

\* The rows of the first n publishes.
TableAt(n) == UNION { log[i] : i \in 1..n }

\* A stored tuple was validated against schemas that were in force while its
\* call ran: at one instant of it the latest config of its object's namespace took
\* the tuple, and at that or a later one the latest config of its subject's
\* namespace had its userset or was not there, whatever was published meanwhile
\* (tuples.ts:245-281, 551-554).
StoredTupleWasTaken ==
    \A w \in Writers : stored[w] # Missing =>
        LET s == stored[w]
        IN  /\ s.from <= s.object
            /\ Takes(LatestConfig(TableAt(s.object), ObjectNs[s.fact]), s.fact)
            /\ SubjectNs[s.fact] # Missing =>
                  \E n \in s.object..s.until :
                      HasUserset(LatestConfig(TableAt(n), SubjectNs[s.fact]), s.fact)

\* "A republished namespace can change a cached check's answer even with zero
\* tuple writes" (server.ts:2203-2206): a check that starts after the answer to a
\* publish through the same server is computed from that schema or a later one,
\* hit or miss, whatever walk was in flight when the publish cleared the cache.
AcknowledgedPublishIsSeen ==
    \A k \in Checks : told[k] # Missing => told[k].need <= told[k].basis

\* A publish comes to an end, also when two sources name the same namespaces in
\* opposite orders and wait for each other (publish.ts:134-150).
PublishesEnd == \A p \in Publishers : ppc[p] # "idle" ~> ppc[p] = "idle"
=============================================================================

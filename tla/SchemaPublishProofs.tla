------------------------- MODULE SchemaPublishProofs -------------------------
(***************************************************************************)
(* Proofs about SchemaPublish for any number of publishers, writers and    *)
(* checks, of namespaces, sources and publishes.                           *)
(***************************************************************************)
EXTENDS SchemaPublish, NumberLemmas

InTransaction == {"locking", "reading", "inserting", "committing"}
NamespacesOf(s) == { s.order[i] : i \in DOMAIN s.order }

PublishTypeOK ==
    /\ table \in SUBSET Row
    /\ log \in Seq(SUBSET Row)
    /\ nsLock \in [{ HashOf[ns] : ns \in Namespaces } -> Publishers \cup {Missing}]
    /\ ppc \in [Publishers -> {"idle", "published"} \cup InTransaction]
    /\ caller \in [Publishers -> Callers \cup {Missing}]
    /\ source \in [Publishers -> Sources \cup {Missing}]
    /\ idx \in [Publishers -> Nat]
    /\ version \in [Publishers -> Nat]
    /\ pending \in [Publishers -> SUBSET Row]
    /\ answer \in [Publishers -> [rows : SUBSET Row, source : Sources] \cup {Missing}]

\* What a call has inserted, rs, of the source src, and where in it it is.
Holds(at, by, src, i, v, rs) ==
    /\ src \in Sources
    /\ by \in Callers
    /\ by = "dryRun" <=> src \in FuzzSources
    /\ \A r \in rs : r.source = src /\ r.namespace \in NamespacesOf(src)
    /\ \A r, s \in rs : r.namespace = s.namespace => r = s
    /\ at \in {"locking", "reading", "inserting"} => i \in DOMAIN src.order
    /\ at = "inserting" => v # 0
    /\ at = "committing" => i = Len(src.order) + 1
    /\ at \in InTransaction =>
          \A ns : (\E r \in rs : r.namespace = ns) <=> \E j \in 1..(i - 1) : src.order[j] = ns
    /\ at = "published" /\ by # "dryRun" =>
          \A ns : (\E r \in rs : r.namespace = ns) <=> ns \in NamespacesOf(src)

CallHolds(p) == Holds(ppc[p], caller[p], source[p], idx[p], version[p], pending[p])

CallsHold == \A p \in Publishers : IF ppc[p] = "idle" THEN pending[p] = {} ELSE CallHolds(p)

\* A transaction holds the locks of the namespaces it has inserted, and past
\* the lock of the one it is at.
LocksHold ==
    \A p \in Publishers :
        /\ ppc[p] \in {"reading", "inserting"} => nsLock[HashOf[Current(p)]] = p
        /\ ppc[p] \in InTransaction => \A r \in pending[p] : nsLock[HashOf[r.namespace]] = p

\* max(version) is of a finite table.
FinitelyMany == IsFiniteSet(table) /\ \A p \in Publishers : IsFiniteSet(pending[p])

\* unique (namespace, version), open transactions included, and what an answer
\* names is in the table for good.
KeysHold ==
    /\ \A r, s \in table : SameKey(r, s) => r = s
    /\ \A p, q \in Publishers : p # q => \A r \in pending[p], s \in pending[q] : ~SameKey(r, s)
    /\ \A p \in Publishers : ppc[p] = "published" => pending[p] \subseteq table
    /\ \A p \in Publishers : answer[p] # Missing =>
          /\ answer[p].rows \subseteq table
          /\ { r.namespace : r \in answer[p].rows } = NamespacesOf(answer[p].source)
          /\ \A q \in Publishers : \A r \in answer[p].rows, s \in pending[q] : ~SameKey(r, s)

\* What a transaction has inserted, or is about to, is later than what the table
\* has of the namespace.
VersionsHold ==
    \A p \in Publishers :
        /\ ppc[p] \in InTransaction => \A r \in pending[p], s \in table :
              s.namespace = r.namespace => s.version < r.version
        /\ ppc[p] = "inserting" => \A s \in table :
              s.namespace = Current(p) => s.version < version[p]

\* The table is the log without what dry runs have deleted.
LogHolds ==
    /\ \A r \in table : \E i \in DOMAIN log : r \in log[i]
    /\ \A i \in DOMAIN log : \A r \in log[i] :
          /\ r.namespace \in NamespacesOf(r.source)
          /\ r.source \notin FuzzSources => r \in table
    /\ \A i, j \in DOMAIN log : \A r \in log[i], s \in log[j] :
          /\ SameKey(r, s) => r.source = s.source
          /\ (r.namespace = s.namespace /\ i < j /\ r.source \notin FuzzSources)
                => r.version < s.version

PublishInv == /\ PublishTypeOK
              /\ CallsHold
              /\ LocksHold
              /\ FinitelyMany
              /\ KeysHold
              /\ VersionsHold
              /\ LogHolds
LEMMA PublishInvInitially == PublishInit => PublishInv
<1> SUFFICES ASSUME PublishInit PROVE PublishInv
  OBVIOUS
<1>1. PublishTypeOK
  BY DEF PublishInit, PublishTypeOK
<1>2. CallsHold /\ LocksHold /\ KeysHold /\ VersionsHold /\ LogHolds
  BY DEF PublishInit, CallsHold, LocksHold, KeysHold, VersionsHold, LogHolds, InTransaction
<1>3. FinitelyMany
  BY FS_EmptySet DEF PublishInit, FinitelyMany
<1> QED BY <1>1, <1>2, <1>3 DEF PublishInv

\* The steps of one call leave the others as they are.
OnlyMoves(p) ==
    \A q \in Publishers \ {p} :
        /\ ppc'[q] = ppc[q] /\ caller'[q] = caller[q] /\ source'[q] = source[q]
        /\ idx'[q] = idx[q] /\ version'[q] = version[q]
        /\ pending'[q] = pending[q] /\ answer'[q] = answer[q]

LEMMA OthersHold ==
    ASSUME CallsHold, NEW p \in Publishers, OnlyMoves(p), NEW q \in Publishers \ {p}
    PROVE  IF ppc'[q] = "idle" THEN pending'[q] = {} ELSE CallHolds(q)'
<1>1. /\ ppc'[q] = ppc[q] /\ caller'[q] = caller[q] /\ source'[q] = source[q]
      /\ idx'[q] = idx[q] /\ version'[q] = version[q] /\ pending'[q] = pending[q]
  BY DEF OnlyMoves
<1>2. CASE ppc[q] = "idle"
  BY <1>1, <1>2 DEF CallsHold
<1>3. CASE ppc[q] # "idle"
  <2>1. CallHolds(q)
    BY <1>3 DEF CallsHold
  <2>2. CallHolds(q)'
    BY <1>1, <2>1 DEF CallHolds
  <2> QED BY <1>1, <1>3, <2>2
<1> QED BY <1>2, <1>3

\* A statement that inserts nothing.
LEMMA HoldsStays ==
    ASSUME NEW by, NEW src, NEW i, NEW v, NEW w, NEW rs,
           NEW at \in {"locking", "reading", "inserting"},
           NEW to \in {"locking", "reading", "inserting"},
           Holds(at, by, src, i, v, rs), to = "inserting" => w # 0
    PROVE  Holds(to, by, src, i, w, rs)
BY DEF Holds, InTransaction

\* A source names at least one namespace, and each once.
LEMMA OrderOf ==
    ASSUME NEW s \in Sources
    PROVE  /\ s.order \in Seq(Namespaces) /\ Len(s.order) \in Nat
           /\ DOMAIN s.order = 1..Len(s.order) /\ 1 \in DOMAIN s.order
           /\ \A i \in DOMAIN s.order : s.order[i] \in Namespaces
           /\ \A i, j \in DOMAIN s.order : s.order[i] = s.order[j] => i = j
<1>1. s.order \in Seq(Namespaces) /\ s.order # << >>
  BY SourcesAssumption
<1>2. Len(s.order) \in Nat /\ Len(s.order) # 0 /\ DOMAIN s.order = 1..Len(s.order)
  BY <1>1
<1> QED BY <1>1, <1>2, SourcesAssumption

LEMMA StartKeeps ==
    ASSUME PublishInv, NEW p \in Publishers, NEW c \in Callers, NEW s \in Sources,
           StartPublish(p, c, s)
    PROVE  PublishInv'
<1>1. PublishTypeOK'
  BY DEF PublishInv, PublishTypeOK, StartPublish, schemaVars, InTransaction
<1>2. OnlyMoves(p) /\ UNCHANGED <<table, log, nsLock, pending, version>>
  BY DEF PublishInv, PublishTypeOK, StartPublish, schemaVars, OnlyMoves
<1>3. /\ ppc'[p] = "locking" /\ caller'[p] = c /\ source'[p] = s /\ idx'[p] = 1
      /\ answer'[p] = Missing /\ pending[p] = {} /\ (c = "dryRun" <=> s \in FuzzSources)
  BY DEF PublishInv, PublishTypeOK, CallsHold, StartPublish, NoCall
<1>4. CallsHold'
  <2>1. CallHolds(p)'
    BY <1>2, <1>3, OrderOf DEF CallHolds, Holds
  <2> QED BY <1>2, <1>3, <2>1, OthersHold DEF PublishInv, CallsHold
<1>5. LocksHold'
  BY <1>2, <1>3 DEF PublishInv, LocksHold, OnlyMoves, Current
<1>6. FinitelyMany'
  BY <1>2 DEF PublishInv, FinitelyMany
<1>7. KeysHold'
  BY <1>2, <1>3 DEF PublishInv, KeysHold, OnlyMoves, SameKey
<1>8. VersionsHold'
  BY <1>2, <1>3 DEF PublishInv, VersionsHold, OnlyMoves, Current
<1>9. LogHolds'
  BY <1>2 DEF PublishInv, LogHolds, SameKey
<1> QED BY <1>1, <1>4, <1>5, <1>6, <1>7, <1>8, <1>9 DEF PublishInv

LEMMA LockKeeps ==
    ASSUME PublishInv, NEW p \in Publishers, LockNamespace(p)
    PROVE  PublishInv'
<1>1. PublishTypeOK'
  BY DEF PublishInv, PublishTypeOK, LockNamespace, schemaVars, InTransaction
<1>2. OnlyMoves(p)
      /\ UNCHANGED <<table, log, caller, source, idx, version, pending, answer>>
  BY DEF PublishInv, PublishTypeOK, LockNamespace, schemaVars, OnlyMoves
<1>3. /\ ppc[p] = "locking" /\ ppc'[p] = "reading"
      /\ nsLock' = [nsLock EXCEPT ![HashOf[Current(p)]] = p]
      /\ nsLock[HashOf[Current(p)]] \in {Missing, p}
  BY DEF PublishInv, PublishTypeOK, LockNamespace
<1>4. Current(p) \in Namespaces /\ Current(p)' = Current(p)
  BY <1>2, <1>3, OrderOf DEF PublishInv, CallsHold, CallHolds, Holds, Current
<1>5. nsLock'[HashOf[Current(p)]] = p /\ \A q \in Publishers, ns \in Namespaces :
         nsLock[HashOf[ns]] = q => nsLock'[HashOf[ns]] = q
  BY <1>3, <1>4, MissingAssumption DEF PublishInv, PublishTypeOK
<1>6. CallsHold'
  <2>1. CallHolds(p)'
    BY <1>2, <1>3, HoldsStays DEF PublishInv, CallsHold, CallHolds
  <2> QED BY <1>2, <1>3, <2>1, OthersHold DEF PublishInv, CallsHold
<1>7. LocksHold'
  <2>1. ASSUME NEW q \in Publishers, ppc'[q] \in {"reading", "inserting"}
        PROVE  nsLock'[HashOf[Current(q)]] = q /\ Current(q)' = Current(q)
    <3>1. CASE q = p
      BY <1>4, <1>5, <3>1
    <3>2. CASE q # p
      <4>1. ppc[q] \in {"reading", "inserting"}
        BY <1>2, <2>1, <3>2 DEF OnlyMoves
      <4>2. nsLock[HashOf[Current(q)]] = q
        BY <4>1 DEF PublishInv, LocksHold
      <4>3. Current(q) \in Namespaces /\ Current(q)' = Current(q)
        BY <1>2, <4>1, OrderOf DEF PublishInv, CallsHold, CallHolds, Holds, Current
      <4> QED BY <1>5, <4>2, <4>3
    <3> QED BY <3>1, <3>2
  <2>2. ASSUME NEW q \in Publishers, ppc'[q] \in InTransaction, NEW r \in pending[q]
        PROVE  nsLock'[HashOf[r.namespace]] = q
    <3>1. ppc[q] \in InTransaction /\ r.namespace \in Namespaces
      BY <1>2, <1>3, <2>2 DEF OnlyMoves, InTransaction, PublishInv, PublishTypeOK, Row
    <3>2. nsLock[HashOf[r.namespace]] = q
      BY <2>2, <3>1 DEF PublishInv, LocksHold
    <3> QED BY <1>5, <3>1, <3>2
  <2> QED BY <1>2, <2>1, <2>2 DEF LocksHold
<1>8. FinitelyMany'
  BY <1>2 DEF PublishInv, FinitelyMany
<1>9. KeysHold'
  BY <1>2, <1>3 DEF PublishInv, KeysHold, OnlyMoves, SameKey
<1>10. VersionsHold'
  BY <1>2, <1>3 DEF PublishInv, VersionsHold, OnlyMoves, Current, InTransaction
<1>11. LogHolds'
  BY <1>2 DEF PublishInv, LogHolds, SameKey
<1> QED BY <1>1, <1>6, <1>7, <1>8, <1>9, <1>10, <1>11 DEF PublishInv

\* coalesce(max(version), 0) of a finite table: a number that no version of
\* the namespace exceeds.
LEMMA MaxVersionIsMax ==
    ASSUME NEW t \in SUBSET Row, IsFiniteSet(t), NEW ns
    PROVE  /\ MaxVersion(t, ns) \in Nat
           /\ \A r \in t : r.namespace = ns => r.version <= MaxVersion(t, ns)
           /\ Versions(t, ns) # {} => MaxVersion(t, ns) \in Versions(t, ns)
<1> DEFINE of == { r \in t : r.namespace = ns }
           f == [r \in of |-> r.version]
<1>1. IsFiniteSet(of)
  BY FS_Subset
<1>2. f \in Surjection(of, Versions(t, ns))
  BY DEF Surjection, Versions
<1>3. Versions(t, ns) \subseteq Nat \ {0}
  BY DEF Versions, Row
<1>4. IsFiniteSet(Versions(t, ns))
  <2> HIDE DEF of, f
  <2> QED BY <1>1, <1>2, FS_Surjection
<1>5. \E v \in Versions(t, ns) \cup {0} : \A u \in Versions(t, ns) : u <= v
  <2>1. CASE Versions(t, ns) = {}
    BY <2>1
  <2>2. CASE Versions(t, ns) # {}
    <3>1. PICK b \in Nat : \A n \in Versions(t, ns) : n <= b
      BY <1>3, <1>4, FiniteIsBounded
    <3> QED BY <1>3, <2>2, <3>1, GreatestNumber
  <2> QED BY <2>1, <2>2
<1>6. /\ MaxVersion(t, ns) \in Versions(t, ns) \cup {0}
      /\ \A u \in Versions(t, ns) : u <= MaxVersion(t, ns)
  BY <1>5 DEF MaxVersion
<1>7. \A r \in t : r.namespace = ns => r.version \in Versions(t, ns)
  BY DEF Versions
<1>8. ASSUME Versions(t, ns) # {} PROVE MaxVersion(t, ns) # 0
  BY <1>3, <1>6, <1>8
<1> QED BY <1>3, <1>6, <1>7, <1>8

LEMMA ReadVersionKeeps ==
    ASSUME PublishInv, NEW p \in Publishers, ReadNextVersion(p)
    PROVE  PublishInv'
<1> DEFINE v == MaxVersion(table, Current(p)) + 1
<1>1. v \in Nat /\ v # 0 /\ \A r \in table : r.namespace = Current(p) => r.version < v
  <2>1. /\ MaxVersion(table, Current(p)) \in Nat
        /\ \A r \in table : r.namespace = Current(p) =>
                              r.version <= MaxVersion(table, Current(p))
    BY MaxVersionIsMax DEF PublishInv, PublishTypeOK, FinitelyMany
  <2>2. \A r \in table : r.version \in Nat
    BY DEF PublishInv, PublishTypeOK, Row
  <2> QED BY <2>1, <2>2
<1>2. /\ ppc[p] = "reading" /\ ppc' = [ppc EXCEPT ![p] = "inserting"]
      /\ version' = [version EXCEPT ![p] = v]
      /\ UNCHANGED <<table, log, nsLock, caller, source, idx, pending, answer>>
  BY DEF ReadNextVersion, schemaVars
<1> HIDE DEF v
<1>3. PublishTypeOK'
  BY <1>1, <1>2 DEF PublishInv, PublishTypeOK, InTransaction
<1>4. OnlyMoves(p) /\ ppc'[p] = "inserting" /\ version'[p] = v
  BY <1>1, <1>2 DEF PublishInv, PublishTypeOK, OnlyMoves
<1>5. CallsHold'
  <2>1. CallHolds(p)'
    BY <1>1, <1>2, <1>4, HoldsStays DEF PublishInv, CallsHold, CallHolds
  <2> QED BY <1>4, <2>1, OthersHold DEF PublishInv, CallsHold
<1>6. LocksHold'
  BY <1>2, <1>4 DEF PublishInv, LocksHold, OnlyMoves, Current, InTransaction
<1>7. FinitelyMany'
  BY <1>2 DEF PublishInv, FinitelyMany
<1>8. KeysHold'
  BY <1>2, <1>4 DEF PublishInv, KeysHold, OnlyMoves, SameKey
<1>9. VersionsHold'
  BY <1>1, <1>2, <1>4 DEF PublishInv, VersionsHold, OnlyMoves, Current, InTransaction
<1>10. LogHolds'
  BY <1>2 DEF PublishInv, LogHolds, SameKey
<1> QED BY <1>3, <1>5, <1>6, <1>7, <1>8, <1>9, <1>10 DEF PublishInv

\* A call that has inserted one row more is one namespace further.
LEMMA HoldsOneMore ==
    ASSUME NEW by, NEW src \in Sources, NEW i \in 1..Len(src.order), NEW v, NEW rs, NEW new,
           Holds("inserting", by, src, i, v, rs),
           new.source = src, new.namespace = src.order[i]
    PROVE  Holds(IF i = Len(src.order) THEN "committing" ELSE "locking",
                 by, src, i + 1, v, rs \cup {new})
<1>1. /\ Len(src.order) \in Nat /\ DOMAIN src.order = 1..Len(src.order)
      /\ \A j, k \in DOMAIN src.order : src.order[j] = src.order[k] => j = k
  BY OrderOf
<1>2. \A ns : (\E r \in rs : r.namespace = ns) <=> \E j \in 1..(i - 1) : src.order[j] = ns
  BY DEF Holds, InTransaction
<1> DEFINE more == rs \cup {new}
           n == i + 1
<1>3. \A ns : (\E r \in more : r.namespace = ns) <=> \E j \in 1..(n - 1) : src.order[j] = ns
  <2>1. \A j : j \in 1..(n - 1) <=> j \in 1..(i - 1) \/ j = i
    OBVIOUS
  <2> QED BY <1>2, <2>1
<1>4. \A r \in rs : r.namespace # new.namespace
  <2>1. ASSUME NEW r \in rs PROVE r.namespace # src.order[i]
    <3>1. PICK j \in 1..(i - 1) : r.namespace = src.order[j]
      BY <1>2
    <3>2. j \in DOMAIN src.order /\ i \in DOMAIN src.order /\ j # i
      BY <1>1
    <3> QED BY <1>1, <3>1, <3>2
  <2> QED BY <2>1
<1>5. new.namespace \in NamespacesOf(src)
  BY <1>1 DEF NamespacesOf
<1>6. i = Len(src.order) \/ i + 1 \in DOMAIN src.order
  BY <1>1
<1>7. /\ by \in Callers
      /\ by = "dryRun" <=> src \in FuzzSources
  BY DEF Holds
<1>8. \A r \in more : r.source = src /\ r.namespace \in NamespacesOf(src)
  BY <1>5 DEF Holds
<1>9. \A r, s \in more : r.namespace = s.namespace => r = s
  BY <1>4 DEF Holds
<1> HIDE DEF more
<1>11. ASSUME i = Len(src.order) PROVE Holds("committing", by, src, n, v, more)
  BY <1>3, <1>7, <1>8, <1>9, <1>11 DEF Holds
<1>12. ASSUME i # Len(src.order) PROVE Holds("locking", by, src, n, v, more)
  BY <1>3, <1>6, <1>7, <1>8, <1>9, <1>12 DEF Holds
<1> QED BY <1>11, <1>12 DEF more

\* The row a call inserts is new to the table and to every open transaction.
LEMMA InsertKeeps ==
    ASSUME PublishInv, NEW p \in Publishers, InsertConfig(p)
    PROVE  PublishInv'
<1> DEFINE src == source[p]
           i == idx[p]
           new == NewRow(p)
<1>1. /\ ppc[p] = "inserting"
      /\ pending' = [pending EXCEPT ![p] = @ \cup {new}]
      /\ idx' = [idx EXCEPT ![p] = i + 1]
      /\ ppc' = [ppc EXCEPT ![p] = IF i = Len(src.order) THEN "committing" ELSE "locking"]
      /\ UNCHANGED <<table, log, nsLock, caller, source, version, answer>>
      /\ \A q \in Publishers \ {p} : \A r \in pending[q] : ~SameKey(r, new)
      /\ \A r \in table : ~SameKey(r, new)
  BY DEF InsertConfig, schemaVars
<1>2. /\ src \in Sources /\ i \in 1..Len(src.order) /\ Len(src.order) \in Nat
      /\ DOMAIN src.order = 1..Len(src.order) /\ version[p] \in Nat \ {0}
      /\ src.order[i] \in Namespaces
      /\ \A j, k \in DOMAIN src.order : src.order[j] = src.order[k] => j = k
  BY <1>1, OrderOf DEF PublishInv, CallsHold, CallHolds, Holds, PublishTypeOK
<1>3. /\ new \in Row /\ new.namespace = src.order[i] /\ new.version = version[p]
      /\ new.source = src /\ Current(p) = src.order[i]
  BY <1>2 DEF NewRow, Current, Row
<1>4. /\ OnlyMoves(p) /\ pending'[p] = pending[p] \cup {new} /\ idx'[p] = i + 1
      /\ ppc'[p] = (IF i = Len(src.order) THEN "committing" ELSE "locking")
      /\ source'[p] = src /\ caller'[p] = caller[p] /\ answer' = answer
  BY <1>1 DEF PublishInv, PublishTypeOK, OnlyMoves
<1> HIDE DEF new
<1>5. PublishTypeOK'
  BY <1>1, <1>2, <1>3 DEF PublishInv, PublishTypeOK, InTransaction
<1>6. CallsHold'
  <2>1. Holds("inserting", caller[p], src, i, version[p], pending[p])
    BY <1>1 DEF PublishInv, CallsHold, CallHolds
  <2>2. Holds(IF i = Len(src.order) THEN "committing" ELSE "locking",
              caller[p], src, i + 1, version[p], pending[p] \cup {new})
    BY <1>2, <1>3, <2>1, HoldsOneMore
  <2>3. CallHolds(p)'
    BY <1>1, <1>4, <2>2 DEF CallHolds
  <2> QED BY <1>4, <2>3, OthersHold DEF PublishInv, CallsHold
<1>7. LocksHold'
  <2>1. nsLock[HashOf[new.namespace]] = p
    BY <1>1, <1>3 DEF PublishInv, LocksHold
  <2>2. ppc'[p] \notin {"reading", "inserting"} /\ ppc[p] \in InTransaction
    BY <1>1, <1>4 DEF InTransaction
  <2> QED BY <1>1, <1>4, <2>1, <2>2 DEF PublishInv, LocksHold, OnlyMoves, Current
<1>8. FinitelyMany'
  BY <1>1, <1>4, FS_AddElement DEF PublishInv, FinitelyMany, OnlyMoves
<1>9. KeysHold'
  <2>1. \A q, o \in Publishers : q # o =>
           \A r \in pending'[q], s \in pending'[o] : ~SameKey(r, s)
    BY <1>1, <1>4 DEF PublishInv, KeysHold, OnlyMoves, SameKey
  <2>2. \A q \in Publishers : ppc'[q] = "published" => pending'[q] \subseteq table
    BY <1>1, <1>4 DEF PublishInv, KeysHold, OnlyMoves
  <2>3. \A q \in Publishers : answer[q] # Missing =>
          \A o \in Publishers : \A r \in answer[q].rows, s \in pending'[o] : ~SameKey(r, s)
    BY <1>1, <1>4 DEF PublishInv, KeysHold, OnlyMoves, SameKey
  <2>4. \A r, s \in table : SameKey(r, s) => r = s
    BY DEF PublishInv, KeysHold
  <2>5. \A q \in Publishers : answer[q] # Missing =>
          /\ answer[q].rows \subseteq table
          /\ { r.namespace : r \in answer[q].rows } = NamespacesOf(answer[q].source)
    BY DEF PublishInv, KeysHold
  <2> QED BY <1>1, <2>1, <2>2, <2>3, <2>4, <2>5 DEF KeysHold, SameKey
<1>10. VersionsHold'
  <2>1. \A s \in table : s.namespace = new.namespace => s.version < new.version
    BY <1>1, <1>3 DEF PublishInv, VersionsHold
  <2>2. ppc'[p] # "inserting" /\ ppc[p] \in InTransaction
    BY <1>1, <1>4 DEF InTransaction
  <2> QED BY <1>1, <1>4, <2>1, <2>2 DEF PublishInv, VersionsHold, OnlyMoves, Current
<1>11. LogHolds'
  BY <1>1 DEF PublishInv, LogHolds, SameKey
<1> QED BY <1>5, <1>6, <1>7, <1>8, <1>9, <1>10, <1>11 DEF PublishInv

\* The locks of a call that has ended, or committed, are free and nobody else's are.
LEMMA UnlockKeepsLocks ==
    ASSUME PublishInv, NEW p \in Publishers, OnlyMoves(p), ppc'[p] \in {"idle", "published"},
           nsLock' = Unlocked(p)
    PROVE  LocksHold'
<1>1. \A q \in Publishers \ {p}, ns \in Namespaces :
         nsLock[HashOf[ns]] = q => nsLock'[HashOf[ns]] = q
  BY DEF Unlocked, PublishInv, PublishTypeOK
<1>2. ASSUME NEW q \in Publishers, ppc'[q] \in {"reading", "inserting"}
      PROVE  nsLock'[HashOf[Current(q)']] = q
  <2>1. q # p /\ ppc[q] \in {"reading", "inserting"} /\ Current(q)' = Current(q)
    BY <1>2 DEF OnlyMoves, Current
  <2>2. nsLock[HashOf[Current(q)]] = q
    BY <2>1 DEF PublishInv, LocksHold
  <2>3. Current(q) \in Namespaces
    BY <2>1, OrderOf DEF PublishInv, CallsHold, CallHolds, Holds, Current
  <2> QED BY <1>1, <2>1, <2>2, <2>3
<1>3. ASSUME NEW q \in Publishers, ppc'[q] \in InTransaction, NEW r \in pending'[q]
      PROVE  nsLock'[HashOf[r.namespace]] = q
  <2>1. q # p /\ ppc[q] \in InTransaction /\ r \in pending[q]
    BY <1>3 DEF OnlyMoves, InTransaction
  <2>2. nsLock[HashOf[r.namespace]] = q /\ r.namespace \in Namespaces
    BY <2>1 DEF PublishInv, LocksHold, PublishTypeOK, Row
  <2> QED BY <1>1, <2>1, <2>2
<1> QED BY <1>2, <1>3 DEF LocksHold

\* No other transaction is at a namespace that this one has inserted.
LEMMA NamespacesApart ==
    ASSUME PublishInv, NEW p \in Publishers, NEW q \in Publishers, p # q,
           ppc[p] \in InTransaction, NEW s \in pending[p]
    PROVE  /\ ppc[q] \in InTransaction => \A r \in pending[q] : r.namespace # s.namespace
           /\ ppc[q] = "inserting" => Current(q) # s.namespace
<1>1. nsLock[HashOf[s.namespace]] = p
  BY DEF PublishInv, LocksHold
<1> QED BY <1>1 DEF PublishInv, LocksHold

LEMMA SaltedApart ==
    ASSUME NEW s \in FuzzSources \cap Sources, NEW t \in Sources,
           NEW ns \in NamespacesOf(s), ns \in NamespacesOf(t)
    PROVE  t = s
<1>1. PICK i \in DOMAIN s.order : ns = s.order[i]
  BY DEF NamespacesOf
<1>2. PICK j \in DOMAIN t.order : ns = t.order[j]
  BY DEF NamespacesOf
<1>3. \A u \in Sources \ {s} : \A k \in DOMAIN u.order : u.order[k] # s.order[i]
  BY SaltsAssumption
<1> QED BY <1>1, <1>2, <1>3

\* A COMMIT puts rows later than all of their namespaces at the end of the log.
LEMMA LandKeeps ==
    ASSUME PublishInv, NEW p \in Publishers, ppc[p] = "committing", LandPublish(p),
           OnlyMoves(p), ppc'[p] \in {"idle", "published"},
           pending'[p] \in {{}, pending[p]}, answer'[p] \in {answer[p], Missing}
    PROVE  /\ table' \in SUBSET Row /\ log' \in Seq(SUBSET Row) /\ IsFiniteSet(table')
           /\ LocksHold' /\ KeysHold' /\ VersionsHold' /\ LogHolds'
<1>1. /\ table' = table \cup pending[p] /\ log' = Append(log, pending[p])
      /\ nsLock' = Unlocked(p) /\ ppc[p] \in InTransaction
  BY DEF LandPublish, InTransaction
<1>2. /\ table \in SUBSET Row /\ pending[p] \in SUBSET Row /\ log \in Seq(SUBSET Row)
      /\ IsFiniteSet(table) /\ IsFiniteSet(pending[p])
  BY DEF PublishInv, PublishTypeOK, FinitelyMany
<1>3. table' \in SUBSET Row /\ log' \in Seq(SUBSET Row) /\ IsFiniteSet(table')
  <2>1. IsFiniteSet(table \cup pending[p])
    BY <1>2, FS_Union
  <2>2. Append(log, pending[p]) \in Seq(SUBSET Row)
    BY <1>2
  <2> QED BY <1>1, <1>2, <2>1, <2>2
<1>4. LocksHold'
  BY <1>1, UnlockKeepsLocks
<1>5. \A r \in pending[p], s \in table : s.namespace = r.namespace => s.version < r.version
  BY <1>1 DEF PublishInv, VersionsHold
<1>6. /\ \A r \in pending[p] : r.source = source[p] /\ r.namespace \in NamespacesOf(source[p])
      /\ \A r, s \in pending[p] : r.namespace = s.namespace => r = s
      /\ source[p] \in Sources
  BY <1>1 DEF PublishInv, CallsHold, CallHolds, Holds, InTransaction
<1>7. \A r \in table \cup pending[p] : r.version \in Nat
  BY <1>2 DEF Row
<1>8. KeysHold'
  <2>1. \A r, s \in table' : SameKey(r, s) => r = s
    BY <1>1, <1>5, <1>6, <1>7 DEF PublishInv, KeysHold, SameKey
  <2>2. \A q \in Publishers : pending'[q] \subseteq pending[q]
    BY DEF OnlyMoves
  <2>3. \A q, o \in Publishers : q # o =>
           \A r \in pending'[q], s \in pending'[o] : ~SameKey(r, s)
    BY <2>2 DEF PublishInv, KeysHold
  <2>4. \A q \in Publishers : ppc'[q] = "published" => pending'[q] \subseteq table'
    BY <1>1, <2>2 DEF PublishInv, KeysHold, OnlyMoves
  <2>5. \A q \in Publishers : answer'[q] \in {answer[q], Missing}
    BY DEF OnlyMoves
  <2>6. ASSUME NEW q \in Publishers, answer'[q] # Missing
        PROVE  /\ answer'[q].rows \subseteq table'
               /\ { r.namespace : r \in answer'[q].rows } = NamespacesOf(answer'[q].source)
               /\ \A o \in Publishers : \A r \in answer'[q].rows, s \in pending'[o] :
                     ~SameKey(r, s)
    <3>1. answer'[q] = answer[q] /\ answer[q] # Missing
      BY <2>5, <2>6
    <3> QED BY <1>1, <2>2, <3>1 DEF PublishInv, KeysHold
  <2> QED BY <2>1, <2>3, <2>4, <2>6 DEF KeysHold, SameKey
<1>9. VersionsHold'
  <2>1. ASSUME NEW q \in Publishers, ppc'[q] \in InTransaction
        PROVE  /\ q # p /\ ppc[q] = ppc'[q] /\ ppc[q] \in InTransaction
               /\ pending'[q] = pending[q] /\ Current(q)' = Current(q)
               /\ version'[q] = version[q]
    BY <2>1 DEF OnlyMoves, InTransaction, Current
  <2>2. ASSUME NEW q \in Publishers, ppc'[q] \in InTransaction,
               NEW r \in pending'[q], NEW s \in table', s.namespace = r.namespace
        PROVE  s.version < r.version
    BY <1>1, <2>1, <2>2, NamespacesApart DEF PublishInv, VersionsHold
  <2>3. ASSUME NEW q \in Publishers, ppc'[q] = "inserting",
               NEW s \in table', s.namespace = Current(q)'
        PROVE  s.version < version'[q]
    <3>1. ppc'[q] \in InTransaction
      BY <2>3 DEF InTransaction
    <3> QED BY <1>1, <2>1, <2>3, <3>1, NamespacesApart DEF PublishInv, VersionsHold
  <2> QED BY <2>2, <2>3 DEF VersionsHold
<1>10. LogHolds'
  <2> DEFINE n == Len(log) + 1
  <2>1. /\ DOMAIN log = 1..Len(log) /\ DOMAIN log' = 1..n /\ Len(log) \in Nat
        /\ \A i \in DOMAIN log : log'[i] = log[i]
        /\ log'[n] = pending[p]
        /\ \A i \in DOMAIN log' : i \in DOMAIN log \/ i = n
    BY <1>1, <1>2
  <2>2. \A i \in DOMAIN log' : log'[i] \subseteq Row
    BY <1>1, <1>2, <2>1
  <2>3. ASSUME NEW r \in table' PROVE \E i \in DOMAIN log' : r \in log'[i]
    <3>1. CASE r \in pending[p]
      BY <2>1, <3>1
    <3>2. CASE r \in table
      <4>1. PICK i \in DOMAIN log : r \in log[i]
        BY <3>2 DEF PublishInv, LogHolds
      <4> QED BY <2>1, <4>1
    <3> QED BY <1>1, <3>1, <3>2
  <2>4. ASSUME NEW i \in DOMAIN log', NEW r \in log'[i]
        PROVE  /\ r.namespace \in NamespacesOf(r.source)
               /\ r.source \notin FuzzSources => r \in table'
    BY <1>1, <1>6, <2>1 DEF PublishInv, LogHolds
  <2>5. ASSUME NEW i \in DOMAIN log, NEW r \in log[i], NEW s \in pending[p],
               r.namespace = s.namespace
        PROVE  /\ r.source \notin FuzzSources => r.version < s.version
               /\ r.version = s.version => r.source = s.source
    <3>1. CASE r.source \notin FuzzSources
      <4>1. r \in table
        BY <3>1 DEF PublishInv, LogHolds
      <4>2. r.version < s.version
        BY <1>5, <2>5, <4>1
      <4> QED BY <1>7, <4>1, <4>2
    <3>2. CASE r.source \in FuzzSources
      <4>1. r \in Row /\ r.namespace \in NamespacesOf(r.source)
        BY <1>2 DEF PublishInv, LogHolds
      <4>2. r.source \in FuzzSources \cap Sources
        BY <3>2, <4>1 DEF Row
      <4>3. s.namespace \in NamespacesOf(source[p]) /\ source[p] \in Sources
        BY <1>6
      <4>4. source[p] = r.source
        BY <2>5, <4>1, <4>2, <4>3, SaltedApart
      <4> QED BY <1>6, <3>2, <4>4
    <3> QED BY <3>1, <3>2
  <2>6. ASSUME NEW i \in DOMAIN log', NEW j \in DOMAIN log', NEW r \in log'[i], NEW s \in log'[j]
        PROVE  /\ SameKey(r, s) => r.source = s.source
               /\ (r.namespace = s.namespace /\ i < j /\ r.source \notin FuzzSources)
                    => r.version < s.version
    <3>1. CASE i \in DOMAIN log /\ j \in DOMAIN log
      BY <2>1, <3>1 DEF PublishInv, LogHolds
    <3>2. CASE i \in DOMAIN log /\ j = n
      BY <2>1, <2>5, <3>2 DEF SameKey
    <3>3. CASE i = n /\ j \in DOMAIN log
      BY <2>1, <2>5, <3>3 DEF SameKey
    <3>4. CASE i = n /\ j = n
      BY <1>6, <2>1, <3>4
    <3> QED BY <2>1, <3>1, <3>2, <3>3, <3>4
  <2> QED BY <2>3, <2>4, <2>6 DEF LogHolds, SameKey
<1> QED BY <1>3, <1>4, <1>8, <1>9, <1>10

\* A call that has inserted a row for each of its namespaces.
LEMMA HoldsAll ==
    ASSUME NEW by, NEW src, NEW i, NEW v, NEW rs, Holds("committing", by, src, i, v, rs)
    PROVE  Holds("published", by, src, i, v, rs)
<1>1. /\ src \in Sources /\ i = Len(src.order) + 1
      /\ \A ns : (\E r \in rs : r.namespace = ns) <=> \E j \in 1..(i - 1) : src.order[j] = ns
  BY DEF Holds, InTransaction
<1>2. Len(src.order) \in Nat /\ DOMAIN src.order = 1..Len(src.order)
  BY <1>1, OrderOf
<1>3. 1..(i - 1) = DOMAIN src.order
  BY <1>1, <1>2
<1>4. \A ns : (\E r \in rs : r.namespace = ns) <=> ns \in NamespacesOf(src)
  BY <1>1, <1>3 DEF NamespacesOf
<1> QED BY <1>4 DEF Holds, InTransaction

\* A step that adds no row and gives no answer.
LEMMA KeysStay ==
    ASSUME PublishInv, table' = table,
           \A q \in Publishers : /\ pending'[q] \subseteq pending[q]
                                 /\ ppc'[q] = "published" => ppc[q] = "published"
                                 /\ answer'[q] \in {answer[q], Missing}
    PROVE  KeysHold'
<1>1. \A q, o \in Publishers : q # o =>
         \A r \in pending'[q], s \in pending'[o] : ~SameKey(r, s)
  BY DEF PublishInv, KeysHold
<1>2. \A q \in Publishers : ppc'[q] = "published" => pending'[q] \subseteq table
  BY DEF PublishInv, KeysHold
<1>3. ASSUME NEW q \in Publishers, answer'[q] # Missing
      PROVE  /\ answer'[q].rows \subseteq table
             /\ { r.namespace : r \in answer'[q].rows } = NamespacesOf(answer'[q].source)
             /\ \A o \in Publishers : \A r \in answer'[q].rows, s \in pending'[o] :
                   ~SameKey(r, s)
  <2>1. answer'[q] = answer[q] /\ answer[q] # Missing
    BY <1>3
  <2> QED BY <2>1 DEF PublishInv, KeysHold
<1>4. \A r, s \in table : SameKey(r, s) => r = s
  BY DEF PublishInv, KeysHold
<1> QED BY <1>1, <1>2, <1>3, <1>4 DEF KeysHold, SameKey

LEMMA CommitKeeps ==
    ASSUME PublishInv, NEW p \in Publishers, CommitPublish(p)
    PROVE  PublishInv'
<1>1. /\ ppc[p] = "committing" /\ LandPublish(p) /\ ppc' = [ppc EXCEPT ![p] = "published"]
      /\ UNCHANGED <<caller, source, idx, version, pending, answer>>
  BY DEF CommitPublish
<1>2. OnlyMoves(p) /\ ppc'[p] = "published"
  BY <1>1 DEF OnlyMoves, PublishInv, PublishTypeOK
<1>3. /\ table' \in SUBSET Row /\ log' \in Seq(SUBSET Row) /\ IsFiniteSet(table')
      /\ LocksHold' /\ KeysHold' /\ VersionsHold' /\ LogHolds'
  BY <1>1, <1>2, LandKeeps
<1>4. nsLock' \in [{ HashOf[ns] : ns \in Namespaces } -> Publishers \cup {Missing}]
  BY <1>1 DEF LandPublish, Unlocked, PublishInv, PublishTypeOK
<1>5. PublishTypeOK'
  BY <1>1, <1>3, <1>4 DEF PublishInv, PublishTypeOK
<1>6. CallsHold'
  <2>1. Holds("committing", caller[p], source[p], idx[p], version[p], pending[p])
    BY <1>1 DEF PublishInv, CallsHold, CallHolds
  <2>2. Holds("published", caller[p], source[p], idx[p], version[p], pending[p])
    BY <2>1, HoldsAll
  <2>3. CallHolds(p)'
    BY <1>1, <1>2, <2>2 DEF CallHolds
  <2> QED BY <1>2, <2>3, OthersHold DEF PublishInv, CallsHold
<1>7. FinitelyMany'
  BY <1>1, <1>3 DEF PublishInv, FinitelyMany
<1> QED BY <1>3, <1>5, <1>6, <1>7 DEF PublishInv

\* What the end of a call does to its own variables.
LEMMA EndMoves ==
    ASSUME PublishTypeOK, NEW p \in Publishers,
           NEW a \in [rows : SUBSET Row, source : Sources] \cup {Missing}, EndPublish(p, a)
    PROVE  /\ OnlyMoves(p)
           /\ ppc'[p] = "idle" /\ pending'[p] = {} /\ answer'[p] = a
           /\ ppc' \in [Publishers -> {"idle", "published"} \cup InTransaction]
           /\ caller' \in [Publishers -> Callers \cup {Missing}]
           /\ source' \in [Publishers -> Sources \cup {Missing}]
           /\ idx' \in [Publishers -> Nat]
           /\ version' \in [Publishers -> Nat]
           /\ pending' \in [Publishers -> SUBSET Row]
           /\ answer' \in [Publishers -> [rows : SUBSET Row, source : Sources] \cup {Missing}]
<1>1. OnlyMoves(p) /\ ppc'[p] = "idle" /\ pending'[p] = {} /\ answer'[p] = a
  BY DEF OnlyMoves, EndPublish, PublishTypeOK
<1>2. /\ ppc' \in [Publishers -> {"idle", "published"} \cup InTransaction]
      /\ caller' \in [Publishers -> Callers \cup {Missing}]
      /\ source' \in [Publishers -> Sources \cup {Missing}]
  BY DEF EndPublish, PublishTypeOK
<1>3. idx' \in [Publishers -> Nat] /\ version' \in [Publishers -> Nat]
  BY DEF EndPublish, PublishTypeOK
<1>4. /\ pending' \in [Publishers -> SUBSET Row]
      /\ answer' \in [Publishers -> [rows : SUBSET Row, source : Sources] \cup {Missing}]
  BY DEF EndPublish, PublishTypeOK
<1> QED BY <1>1, <1>2, <1>3, <1>4

\* A transaction that is over, and what its end leaves of the invariant.
LEMMA CallEnds ==
    ASSUME PublishInv, NEW p \in Publishers, EndPublish(p, Missing),
           \/ nsLock' = Unlocked(p) /\ UNCHANGED schemaVars
           \/ ppc[p] = "committing" /\ LandPublish(p)
    PROVE  PublishInv'
<1>1. /\ OnlyMoves(p)
      /\ ppc'[p] = "idle" /\ pending'[p] = {} /\ answer'[p] = Missing
      /\ ppc' \in [Publishers -> {"idle", "published"} \cup InTransaction]
      /\ caller' \in [Publishers -> Callers \cup {Missing}]
      /\ source' \in [Publishers -> Sources \cup {Missing}]
      /\ idx' \in [Publishers -> Nat]
      /\ version' \in [Publishers -> Nat]
      /\ pending' \in [Publishers -> SUBSET Row]
      /\ answer' \in [Publishers -> [rows : SUBSET Row, source : Sources] \cup {Missing}]
  BY EndMoves DEF PublishInv
<1>2. nsLock' = Unlocked(p)
  BY DEF LandPublish
<1>3. nsLock' \in [{ HashOf[ns] : ns \in Namespaces } -> Publishers \cup {Missing}]
  BY <1>2 DEF Unlocked, PublishInv, PublishTypeOK
<1>4. /\ table' \in SUBSET Row /\ log' \in Seq(SUBSET Row) /\ IsFiniteSet(table')
      /\ LocksHold' /\ KeysHold' /\ VersionsHold' /\ LogHolds'
  <2>1. CASE ppc[p] = "committing" /\ LandPublish(p)
    BY <1>1, <2>1, LandKeeps
  <2>2. CASE UNCHANGED schemaVars
    <3>1. table' = table /\ log' = log
      BY <2>2 DEF schemaVars
    <3>2. table' \in SUBSET Row /\ log' \in Seq(SUBSET Row) /\ IsFiniteSet(table')
      BY <3>1 DEF PublishInv, PublishTypeOK, FinitelyMany
    <3>3. LocksHold'
      BY <1>1, <1>2, UnlockKeepsLocks
    <3>4. KeysHold'
      <4>1. \A q \in Publishers : /\ pending'[q] \subseteq pending[q]
                                  /\ ppc'[q] = "published" => ppc[q] = "published"
                                  /\ answer'[q] \in {answer[q], Missing}
        BY <1>1 DEF OnlyMoves
      <4> QED BY <3>1, <4>1, KeysStay
    <3>5. VersionsHold'
      BY <1>1, <3>1 DEF PublishInv, VersionsHold, OnlyMoves, Current, InTransaction
    <3>6. LogHolds'
      BY <3>1 DEF PublishInv, LogHolds, SameKey
    <3> QED BY <3>2, <3>3, <3>4, <3>5, <3>6
  <2> QED BY <2>1, <2>2
<1>5. PublishTypeOK'
  BY <1>1, <1>3, <1>4 DEF PublishTypeOK
<1>6. CallsHold'
  BY <1>1, OthersHold DEF PublishInv, CallsHold
<1>7. FinitelyMany'
  BY <1>1, <1>4, FS_EmptySet DEF PublishInv, FinitelyMany, OnlyMoves
<1> QED BY <1>4, <1>5, <1>6, <1>7 DEF PublishInv

\* The answer of a call names rows of one for each namespace of its source.
LEMMA ReturnKeeps ==
    ASSUME PublishInv, NEW p \in Publishers, PublishReturns(p)
    PROVE  PublishInv'
<1> DEFINE a == [rows |-> pending[p], source |-> source[p]]
<1>1. /\ ppc[p] = "published" /\ caller[p] # "dryRun" /\ EndPublish(p, a)
      /\ table' = table /\ log' = log /\ nsLock' = nsLock
  BY DEF PublishReturns, schemaVars
<1>2. Holds("published", caller[p], source[p], idx[p], version[p], pending[p])
  BY <1>1 DEF PublishInv, CallsHold, CallHolds
<1>3. a \in [rows : SUBSET Row, source : Sources]
      /\ { r.namespace : r \in a.rows } = NamespacesOf(a.source)
      /\ a.rows = pending[p]
  <2>1. source[p] \in Sources /\ pending[p] \in SUBSET Row
    BY <1>2 DEF Holds, PublishInv, PublishTypeOK
  <2>2. \A ns : ns \in { r.namespace : r \in pending[p] } <=> ns \in NamespacesOf(source[p])
    BY <1>1, <1>2 DEF Holds
  <2>3. { r.namespace : r \in pending[p] } = NamespacesOf(source[p])
    BY <2>2
  <2> QED BY <2>1, <2>3
<1> HIDE DEF a
<1>4. /\ OnlyMoves(p)
      /\ ppc'[p] = "idle" /\ pending'[p] = {} /\ answer'[p] = a
      /\ ppc' \in [Publishers -> {"idle", "published"} \cup InTransaction]
      /\ caller' \in [Publishers -> Callers \cup {Missing}]
      /\ source' \in [Publishers -> Sources \cup {Missing}]
      /\ idx' \in [Publishers -> Nat]
      /\ version' \in [Publishers -> Nat]
      /\ pending' \in [Publishers -> SUBSET Row]
      /\ answer' \in [Publishers -> [rows : SUBSET Row, source : Sources] \cup {Missing}]
  BY <1>1, <1>3, EndMoves DEF PublishInv
<1>5. PublishTypeOK'
  BY <1>1, <1>4 DEF PublishInv, PublishTypeOK
<1>6. CallsHold'
  BY <1>4, OthersHold DEF PublishInv, CallsHold
<1>7. LocksHold'
  BY <1>1, <1>4 DEF PublishInv, LocksHold, OnlyMoves, Current, InTransaction
<1>8. FinitelyMany'
  BY <1>1, <1>4, FS_EmptySet DEF PublishInv, FinitelyMany, OnlyMoves
<1>9. KeysHold'
  <2>1. pending[p] \subseteq table
    BY <1>1 DEF PublishInv, KeysHold
  <2>2. \A q \in Publishers : pending'[q] \subseteq pending[q]
    BY <1>4 DEF OnlyMoves
  <2>3. \A q, o \in Publishers : q # o =>
           \A r \in pending'[q], s \in pending'[o] : ~SameKey(r, s)
    BY <2>2 DEF PublishInv, KeysHold
  <2>4. \A q \in Publishers : ppc'[q] = "published" => pending'[q] \subseteq table
    BY <1>4 DEF PublishInv, KeysHold, OnlyMoves
  <2>5. ASSUME NEW q \in Publishers, answer'[q] # Missing
        PROVE  /\ answer'[q].rows \subseteq table
               /\ { r.namespace : r \in answer'[q].rows } = NamespacesOf(answer'[q].source)
               /\ \A o \in Publishers : \A r \in answer'[q].rows, s \in pending'[o] :
                     ~SameKey(r, s)
    <3>1. CASE q = p
      <4>1. \A o \in Publishers : \A r \in pending[p], s \in pending'[o] : ~SameKey(r, s)
        BY <1>4 DEF PublishInv, KeysHold, OnlyMoves
      <4> QED BY <1>3, <1>4, <2>1, <3>1, <4>1
    <3>2. CASE q # p
      <4>1. answer'[q] = answer[q]
        BY <1>4, <3>2 DEF OnlyMoves
      <4> QED BY <2>2, <2>5, <4>1 DEF PublishInv, KeysHold
    <3> QED BY <3>1, <3>2
  <2>6. \A r, s \in table : SameKey(r, s) => r = s
    BY DEF PublishInv, KeysHold
  <2> QED BY <1>1, <2>3, <2>4, <2>5, <2>6 DEF KeysHold, SameKey
<1>10. VersionsHold'
  BY <1>1, <1>4 DEF PublishInv, VersionsHold, OnlyMoves, Current, InTransaction
<1>11. LogHolds'
  BY <1>1 DEF PublishInv, LogHolds, SameKey
<1> QED BY <1>5, <1>6, <1>7, <1>8, <1>9, <1>10, <1>11 DEF PublishInv

\* What a dry run deletes is its own row: nobody else has the key.
LEMMA DeleteKeeps ==
    ASSUME PublishInv, NEW p \in Publishers, NEW r \in pending[p],
           DeletePublishedNamespaceVersion(p, r)
    PROVE  PublishInv'
<1>1. /\ ppc[p] = "published" /\ caller[p] = "dryRun"
      /\ table' \in { table, { s \in table : ~SameKey(s, r) } }
      /\ pending' = [pending EXCEPT ![p] = @ \ {r}]
      /\ UNCHANGED <<log, nsLock, ppc, caller, source, idx, version, answer>>
  BY DEF DeletePublishedNamespaceVersion
<1>2. OnlyMoves(p) /\ pending'[p] = pending[p] \ {r}
      /\ \A q \in Publishers : pending'[q] \subseteq pending[q]
  BY <1>1 DEF OnlyMoves, PublishInv, PublishTypeOK
<1>3. Holds("published", caller[p], source[p], idx[p], version[p], pending[p])
  BY <1>1 DEF PublishInv, CallsHold, CallHolds
<1>4. pending[p] \subseteq table /\ r.source \in FuzzSources
  BY <1>1, <1>3 DEF Holds, PublishInv, KeysHold
<1>5. table' \subseteq table /\ \A s \in table : s # r => s \in table'
  BY <1>1, <1>4 DEF PublishInv, KeysHold
<1>6. PublishTypeOK'
  BY <1>1, <1>5 DEF PublishInv, PublishTypeOK
<1>7. CallsHold'
  <2>1. Holds("published", caller[p], source[p], idx[p], version[p], pending[p] \ {r})
    BY <1>1, <1>3 DEF Holds, InTransaction
  <2>2. CallHolds(p)'
    BY <1>1, <1>2, <2>1 DEF CallHolds
  <2> QED BY <1>1, <1>2, <2>2, OthersHold DEF PublishInv, CallsHold
<1>8. LocksHold'
  BY <1>1, <1>2 DEF PublishInv, LocksHold, OnlyMoves, Current, InTransaction
<1>9. FinitelyMany'
  <2>1. IsFiniteSet(table')
    BY <1>5, FS_Subset DEF PublishInv, FinitelyMany
  <2>2. \A q \in Publishers : IsFiniteSet(pending'[q])
    BY <1>2, FS_Subset DEF PublishInv, FinitelyMany
  <2> QED BY <2>1, <2>2 DEF FinitelyMany
<1>10. KeysHold'
  <2>1. \A q, o \in Publishers : q # o =>
           \A s \in pending'[q], t \in pending'[o] : ~SameKey(s, t)
    BY <1>2 DEF PublishInv, KeysHold
  <2>2. ASSUME NEW q \in Publishers, ppc'[q] = "published" PROVE pending'[q] \subseteq table'
    <3>1. pending[q] \subseteq table
      BY <1>1, <2>2 DEF PublishInv, KeysHold
    <3>2. r \notin pending'[q]
      BY <1>2 DEF PublishInv, KeysHold, SameKey
    <3> QED BY <1>2, <1>5, <3>1, <3>2
  <2>3. ASSUME NEW q \in Publishers, answer[q] # Missing
        PROVE  /\ answer[q].rows \subseteq table'
               /\ { s.namespace : s \in answer[q].rows } = NamespacesOf(answer[q].source)
               /\ \A o \in Publishers : \A s \in answer[q].rows, t \in pending'[o] :
                     ~SameKey(s, t)
    <3>1. r \notin answer[q].rows
      BY <2>3 DEF PublishInv, KeysHold, SameKey
    <3> QED BY <1>2, <1>5, <2>3, <3>1 DEF PublishInv, KeysHold
  <2>4. \A s, t \in table' : SameKey(s, t) => s = t
    BY <1>5 DEF PublishInv, KeysHold
  <2> QED BY <1>1, <2>1, <2>2, <2>3, <2>4 DEF KeysHold, SameKey
<1>11. VersionsHold'
  BY <1>1, <1>2, <1>5 DEF PublishInv, VersionsHold, OnlyMoves, Current, InTransaction
<1>12. LogHolds'
  <2>1. \A s \in table' : \E i \in DOMAIN log : s \in log[i]
    BY <1>5 DEF PublishInv, LogHolds
  <2>2. \A i \in DOMAIN log : \A s \in log[i] :
          /\ s.namespace \in NamespacesOf(s.source)
          /\ s.source \notin FuzzSources => s \in table'
    BY <1>4, <1>5 DEF PublishInv, LogHolds
  <2>3. \A i, j \in DOMAIN log : \A t \in log[i], s \in log[j] :
          /\ SameKey(t, s) => t.source = s.source
          /\ (t.namespace = s.namespace /\ i < j /\ t.source \notin FuzzSources)
                => t.version < s.version
    BY DEF PublishInv, LogHolds
  <2> QED BY <1>1, <2>1, <2>2, <2>3 DEF LogHolds, SameKey
<1> QED BY <1>6, <1>7, <1>8, <1>9, <1>10, <1>11, <1>12 DEF PublishInv

\* A dry run that has nothing left to delete.
LEMMA CleanupKeeps ==
    ASSUME PublishInv, NEW p \in Publishers, CleanupEnds(p)
    PROVE  PublishInv'
<1>1. /\ ppc[p] = "published" /\ EndPublish(p, Missing)
      /\ table' = table /\ log' = log /\ nsLock' = nsLock
  BY DEF CleanupEnds, schemaVars
<1>2. /\ OnlyMoves(p)
      /\ ppc'[p] = "idle" /\ pending'[p] = {} /\ answer'[p] = Missing
      /\ ppc' \in [Publishers -> {"idle", "published"} \cup InTransaction]
      /\ caller' \in [Publishers -> Callers \cup {Missing}]
      /\ source' \in [Publishers -> Sources \cup {Missing}]
      /\ idx' \in [Publishers -> Nat]
      /\ version' \in [Publishers -> Nat]
      /\ pending' \in [Publishers -> SUBSET Row]
      /\ answer' \in [Publishers -> [rows : SUBSET Row, source : Sources] \cup {Missing}]
  BY <1>1, EndMoves DEF PublishInv
<1>3. PublishTypeOK'
  BY <1>1, <1>2 DEF PublishInv, PublishTypeOK
<1>4. CallsHold'
  BY <1>2, OthersHold DEF PublishInv, CallsHold
<1>5. LocksHold'
  BY <1>1, <1>2 DEF PublishInv, LocksHold, OnlyMoves, Current, InTransaction
<1>6. FinitelyMany'
  BY <1>1, <1>2, FS_EmptySet DEF PublishInv, FinitelyMany, OnlyMoves
<1>7. KeysHold'
  <2>1. \A q \in Publishers : /\ pending'[q] \subseteq pending[q]
                              /\ ppc'[q] = "published" => ppc[q] = "published"
                              /\ answer'[q] \in {answer[q], Missing}
    BY <1>2 DEF OnlyMoves
  <2> QED BY <1>1, <2>1, KeysStay
<1>8. VersionsHold'
  BY <1>1, <1>2 DEF PublishInv, VersionsHold, OnlyMoves, Current, InTransaction
<1>9. LogHolds'
  BY <1>1 DEF PublishInv, LogHolds, SameKey
<1> QED BY <1>3, <1>4, <1>5, <1>6, <1>7, <1>8, <1>9 DEF PublishInv

LEMMA PublisherKeeps ==
    ASSUME PublishInv, NEW p \in Publishers, PublisherStep(p)
    PROVE  PublishInv'
<1>1. CASE PublishSource(p)
  BY <1>1, StartKeeps DEF PublishSource, Callers
<1>2. CASE Rollback(p)
  <2>1. PICK r \in table : StartPublish(p, "cli", r.source)
    BY <1>2 DEF Rollback
  <2>2. r.source \in Sources /\ "cli" \in Callers
    BY DEF PublishInv, PublishTypeOK, Row, Callers
  <2> QED BY <2>1, <2>2, StartKeeps
<1>3. CASE LockNamespace(p)
  BY <1>3, LockKeeps
<1>4. CASE PublishProceeds(p)
  BY <1>4, ReadVersionKeeps, InsertKeeps, CommitKeeps, ReturnKeeps, DeleteKeeps, CleanupKeeps
  DEF PublishProceeds
<1>5. CASE PublishThrows(p)
  BY <1>5, CallEnds DEF PublishThrows
<1>6. CASE BreakDeadlock(p)
  BY <1>6, CallEnds DEF BreakDeadlock
<1> QED BY <1>1, <1>2, <1>3, <1>4, <1>5, <1>6 DEF PublisherStep

\* Writers and checks only read the schema.
LEMMA ReadersKeep ==
    ASSUME PublishInv, UNCHANGED <<schemaVars, publisherVars>>
    PROVE  PublishInv'
<1>1. UNCHANGED <<table, log, nsLock, ppc, caller, source, idx, version, pending, answer>>
  BY DEF schemaVars, publisherVars
<1>2. PublishTypeOK' /\ FinitelyMany'
  BY <1>1 DEF PublishInv, PublishTypeOK, FinitelyMany
<1>3. CallsHold'
  BY <1>1 DEF PublishInv, CallsHold, CallHolds
<1>4. LocksHold'
  BY <1>1 DEF PublishInv, LocksHold, Current
<1>5. KeysHold'
  BY <1>1, KeysStay
<1>6. VersionsHold'
  BY <1>1 DEF PublishInv, VersionsHold, Current
<1>7. LogHolds'
  BY <1>1 DEF PublishInv, LogHolds, SameKey
<1> QED BY <1>2, <1>3, <1>4, <1>5, <1>6, <1>7 DEF PublishInv

LEMMA PublishInvKept == PublishInv /\ [PublishNext]_allVars => PublishInv'
<1> SUFFICES ASSUME PublishInv, [PublishNext]_allVars PROVE PublishInv'
  OBVIOUS
<1>1. CASE UNCHANGED allVars
  BY <1>1, ReadersKeep DEF allVars
<1>2. ASSUME NEW p \in Publishers, PublisherStep(p) PROVE PublishInv'
  BY <1>2, PublisherKeeps
<1>3. ASSUME NEW w \in Writers, WriterStep(w) PROVE PublishInv'
  BY <1>3, ReadersKeep
  DEF WriterStep, StartWrite, ReadObjectConfig, ReadSubjectConfig, InsertValidated
<1>4. ASSUME NEW k \in Checks, CheckStep(k) PROVE PublishInv'
  BY <1>4, ReadersKeep DEF CheckStep, StartCheck, Walk, EndCheck
<1> QED BY <1>1, <1>2, <1>3, <1>4 DEF PublishNext

LEMMA PublishInvariance == PublishSpec => []PublishInv
BY PublishInvInitially, PublishInvKept, PTL DEF PublishSpec

\* The published schemas are a history that nothing rewrites: a publish that was
\* answered is in the table as one row for each namespace of its source, a version
\* names one source for ever, versions follow commit order, and no publish runs into
\* the unique constraint, whichever publishes, rollbacks and dry runs overlap.
THEOREM PublishedHistory == PublishSpec => []PublishedIsHistory
<1>1. ASSUME PublishInv PROVE PublishedIsHistory
  <2>1. ASSUME NEW p \in Publishers, answer[p] # Missing
        PROVE  /\ answer[p].rows \subseteq table
               /\ { r.namespace : r \in answer[p].rows }
                     = { answer[p].source.order[i] : i \in DOMAIN answer[p].source.order }
    BY <1>1, <2>1 DEF PublishInv, KeysHold, NamespacesOf
  <2>2. \A i, j \in DOMAIN log : \A r \in log[i], s \in log[j] :
          /\ SameKey(r, s) => r.source = s.source
          /\ (r.namespace = s.namespace /\ i < j /\ r.source \notin FuzzSources)
                => r.version < s.version
    BY <1>1 DEF PublishInv, LogHolds
  <2>3. ASSUME NEW p \in Publishers, NEW q \in Publishers, ppc[p] = "inserting", p # q,
               NEW r \in table \cup pending[q]
        PROVE  ~SameKey(r, NewRow(p))
    <3>1. NewRow(p).namespace = Current(p) /\ NewRow(p).version = version[p]
      BY DEF NewRow
    <3>2. CASE r \in table
      <4>1. r.namespace = Current(p) => r.version < version[p]
        BY <1>1, <2>3, <3>2 DEF PublishInv, VersionsHold
      <4>2. r.version \in Nat
        BY <1>1, <3>2 DEF PublishInv, PublishTypeOK, Row
      <4> QED BY <3>1, <4>1, <4>2 DEF SameKey
    <3>3. CASE r \in pending[q] /\ ppc[q] \in InTransaction
      <4>1. r.namespace # Current(p)
        BY <1>1, <2>3, <3>3, NamespacesApart
      <4> QED BY <3>1, <4>1 DEF SameKey
    <3>4. CASE r \in pending[q] /\ ppc[q] \notin InTransaction
      <4>1. ppc[q] \in {"idle", "published"}
        BY <1>1, <3>4 DEF PublishInv, PublishTypeOK
      <4>2. r \in table
        BY <1>1, <3>4, <4>1 DEF PublishInv, KeysHold, CallsHold
      <4> QED BY <3>2, <4>2
    <3> QED BY <2>3, <3>2, <3>3, <3>4
  <2> QED BY <2>1, <2>2, <2>3 DEF PublishedIsHistory
<1> QED BY <1>1, PublishInvariance, PTL

-----------------------------------------------------------------------------
(* Writers and checks beside the publishes. *)

\* The log grows at its end.
LEMMA LogOnlyGrows ==
    ASSUME PublishInv, [PublishNext]_allVars
    PROVE  /\ log \in Seq(SUBSET Row) /\ log' \in Seq(SUBSET Row)
           /\ Len(log) \in Nat /\ Len(log') \in Nat /\ Len(log) <= Len(log')
           /\ \A i \in 1..Len(log) : log'[i] = log[i]
<1>1. log \in Seq(SUBSET Row) /\ log' \in Seq(SUBSET Row)
  BY PublishInvKept DEF PublishInv, PublishTypeOK
<1>2. log' = log \/ \E p \in Publishers : log' = Append(log, pending[p])
  <2>1. CASE UNCHANGED log
    BY <2>1
  <2>2. ASSUME NEW p \in Publishers, PublisherStep(p)
        PROVE  log' = log \/ log' = Append(log, pending[p])
    BY <2>2
    DEF PublisherStep, PublishSource, Rollback, StartPublish, LockNamespace, PublishProceeds,
        ReadNextVersion, InsertConfig, CommitPublish, LandPublish, PublishReturns, CleanupEnds,
        DeletePublishedNamespaceVersion, PublishThrows, BreakDeadlock, schemaVars
  <2>3. ASSUME NEW w \in Writers, WriterStep(w) PROVE log' = log
    BY <2>3 DEF WriterStep, StartWrite, ReadObjectConfig, ReadSubjectConfig, InsertValidated,
                schemaVars
  <2>4. ASSUME NEW k \in Checks, CheckStep(k) PROVE log' = log
    BY <2>4 DEF CheckStep, StartCheck, Walk, EndCheck, schemaVars
  <2> QED BY <2>1, <2>2, <2>3, <2>4 DEF PublishNext, allVars, schemaVars
<1>3. ASSUME NEW p \in Publishers, log' = Append(log, pending[p])
      PROVE  Len(log') = Len(log) + 1 /\ \A i \in 1..Len(log) : log'[i] = log[i]
  BY <1>1, <1>3
<1> QED BY <1>1, <1>2, <1>3

\* TableAt of any log.
TableOf(l, n) == UNION { l[i] : i \in 1..n }

\* The latest config of a namespace that no dry run touches is that of the log.
LEMMA LatestIsOfLog ==
    ASSUME PublishInv, NEW ns,
           \A s \in FuzzSources \cap Sources : ns \notin NamespacesOf(s)
    PROVE  LatestConfig(table, ns) = LatestConfig(TableOf(log, Len(log)), ns)
<1> DEFINE all == TableOf(log, Len(log))
           max == MaxVersion(table, ns)
           IsLast(r) == r.namespace = ns /\ r.version = max
<1>1. log \in Seq(SUBSET Row) /\ DOMAIN log = 1..Len(log)
  BY DEF PublishInv, PublishTypeOK
<1>2. ASSUME NEW r, r.namespace = ns PROVE r \in table <=> r \in all
  <2>1. r \in all <=> \E i \in DOMAIN log : r \in log[i]
    BY <1>1 DEF TableOf
  <2>2. ASSUME NEW i \in DOMAIN log, r \in log[i] PROVE r.source \notin FuzzSources
    <3>1. r \in Row /\ r.namespace \in NamespacesOf(r.source)
      BY <1>1, <2>2 DEF PublishInv, LogHolds
    <3> QED BY <1>2, <3>1 DEF Row
  <2> QED BY <2>1, <2>2 DEF PublishInv, LogHolds
<1> HIDE DEF all
<1>3. { r \in table : r.namespace = ns } = { r \in all : r.namespace = ns }
  BY <1>2
<1>4. Versions(table, ns) = Versions(all, ns)
  BY <1>3 DEF Versions
<1>5. MaxVersion(all, ns) = max
  BY <1>4 DEF MaxVersion
<1>6. ASSUME Versions(table, ns) # {}
      PROVE  (CHOOSE r \in table : IsLast(r)) = (CHOOSE r \in all : IsLast(r))
  <2>1. max \in Versions(table, ns)
    BY <1>6, MaxVersionIsMax DEF PublishInv, PublishTypeOK, FinitelyMany
  <2>2. PICK r \in table : IsLast(r)
    BY <2>1 DEF Versions
  <2>3. \A q \in table : IsLast(q) => q = r
    BY <2>2 DEF PublishInv, KeysHold, SameKey
  <2>4. r \in all /\ \A q \in all : IsLast(q) => q = r
    BY <1>2, <2>2, <2>3
  <2> HIDE DEF IsLast
  <2> QED BY <2>2, <2>3, <2>4
<1>7. CASE Versions(table, ns) = {}
  <2>1. LatestConfig(table, ns) = Missing /\ LatestConfig(all, ns) = Missing
    BY <1>4, <1>7 DEF LatestConfig
  <2> QED BY <2>1 DEF all
<1>8. CASE Versions(table, ns) # {}
  <2>1. LatestConfig(table, ns) = (CHOOSE r \in table : IsLast(r)).source.config[ns]
    BY <1>8 DEF LatestConfig
  <2>2. LatestConfig(all, ns) = (CHOOSE r \in all : IsLast(r)).source.config[ns]
    BY <1>4, <1>5, <1>8 DEF LatestConfig
  <2>3. LatestConfig(table, ns) = LatestConfig(all, ns)
    BY <1>6, <1>8, <2>1, <2>2
  <2> QED BY <2>3 DEF all
<1> QED BY <1>7, <1>8

\* What a validation has established of a tuple f against the first entries of l.
TookObject(l, f, start, at) ==
    /\ start <= at
    /\ at <= Len(l)
    /\ Takes(LatestConfig(TableOf(l, at), ObjectNs[f]), f)
TookSubject(l, f, at, until) ==
    SubjectNs[f] # Missing =>
        \E n \in at..until : HasUserset(LatestConfig(TableOf(l, n), SubjectNs[f]), f)

\* One writer, at a place of its call, and the last insert it made.
WriterHolds(l, at, f, b, r, s) ==
    /\ at # "idle" => f \in Claims /\ b <= Len(l)
    /\ at \in {"subject", "insert"} => TookObject(l, f, b, r)
    /\ at = "insert" => TookSubject(l, f, r, Len(l))
    /\ s # Missing => /\ s.until <= Len(l)
                      /\ TookObject(l, s.fact, s.from, s.object)
                      /\ TookSubject(l, s.fact, s.object, s.until)

Stored == [fact : Claims, from : Nat, object : Nat, until : Nat]

WritersHold ==
    /\ wpc \in [Writers -> {"idle", "object", "subject", "insert"}]
    /\ fact \in [Writers -> Claims \cup {Missing}]
    /\ began \in [Writers -> Nat]
    /\ readAt \in [Writers -> Nat]
    /\ stored \in [Writers -> Stored \cup {Missing}]
    /\ \A w \in Writers : WriterHolds(log, wpc[w], fact[w], began[w], readAt[w], stored[w])

LEMMA WritersInitially == PublishInit => WritersHold
<1> SUFFICES ASSUME PublishInit PROVE WritersHold
  OBVIOUS
<1> QED BY DEF PublishInit, WritersHold, WriterHolds

\* What was established of the log stays true as it grows.
LEMMA TookStays ==
    ASSUME NEW l \in Seq(SUBSET Row), NEW m \in Seq(SUBSET Row), Len(l) <= Len(m),
           \A i \in 1..Len(l) : m[i] = l[i], NEW f
    PROVE  /\ \A start, at \in Nat : TookObject(l, f, start, at) => TookObject(m, f, start, at)
           /\ \A at, until, later \in Nat :
                 TookSubject(l, f, at, until) /\ until <= Len(l) /\ until <= later
                     => TookSubject(m, f, at, later)
<1>1. Len(l) \in Nat /\ Len(m) \in Nat
  OBVIOUS
<1>2. ASSUME NEW n \in Nat, n <= Len(l) PROVE TableOf(m, n) = TableOf(l, n)
  <2>1. \A i \in 1..n : m[i] = l[i]
    BY <1>1, <1>2
  <2>2. { m[i] : i \in 1..n } = { l[i] : i \in 1..n }
    BY <2>1
  <2> QED BY <2>2 DEF TableOf
<1>3. ASSUME NEW start \in Nat, NEW at \in Nat, TookObject(l, f, start, at)
      PROVE  TookObject(m, f, start, at)
  BY <1>1, <1>2, <1>3 DEF TookObject
<1>4. ASSUME NEW at \in Nat, NEW until \in Nat, NEW later \in Nat,
             TookSubject(l, f, at, until), until <= Len(l), until <= later,
             SubjectNs[f] # Missing
      PROVE  \E n \in at..later : HasUserset(LatestConfig(TableOf(m, n), SubjectNs[f]), f)
  <2>1. PICK n \in at..until : HasUserset(LatestConfig(TableOf(l, n), SubjectNs[f]), f)
    BY <1>4 DEF TookSubject
  <2>2. n \in at..later /\ n \in Nat /\ n <= Len(l)
    BY <1>1, <1>4
  <2> QED BY <1>2, <2>1, <2>2
<1> QED BY <1>3, <1>4 DEF TookSubject

LEMMA TookSubjectStays ==
    ASSUME NEW l \in Seq(SUBSET Row), NEW m \in Seq(SUBSET Row), Len(l) <= Len(m),
           \A i \in 1..Len(l) : m[i] = l[i], NEW f,
           NEW at \in Nat, NEW until \in Nat, NEW later \in Nat,
           TookSubject(l, f, at, until), until <= Len(l), until <= later
    PROVE  TookSubject(m, f, at, later)
BY TookStays

LEMMA WriterStays ==
    ASSUME NEW l \in Seq(SUBSET Row), NEW m \in Seq(SUBSET Row), Len(l) <= Len(m),
           \A i \in 1..Len(l) : m[i] = l[i],
           NEW at, NEW f, NEW b \in Nat, NEW r \in Nat, NEW s \in Stored \cup {Missing},
           WriterHolds(l, at, f, b, r, s)
    PROVE  WriterHolds(m, at, f, b, r, s)
<1>1. Len(l) \in Nat /\ Len(m) \in Nat
  OBVIOUS
<1>2. at # "idle" => f \in Claims /\ b <= Len(m)
  BY <1>1 DEF WriterHolds
<1>3. at \in {"subject", "insert"} => TookObject(m, f, b, r)
  BY TookStays DEF WriterHolds
<1>4. at = "insert" => TookSubject(m, f, r, Len(m))
  <2>1. at = "insert" => TookSubject(l, f, r, Len(l))
    BY DEF WriterHolds
  <2>2. Len(l) <= Len(l)
    BY <1>1
  <2> QED BY <1>1, <2>1, <2>2, TookSubjectStays
<1>5. ASSUME s # Missing
      PROVE  /\ s.until <= Len(m)
             /\ TookObject(m, s.fact, s.from, s.object)
             /\ TookSubject(m, s.fact, s.object, s.until)
  <2>1. s.from \in Nat /\ s.object \in Nat /\ s.until \in Nat
    BY <1>5 DEF Stored
  <2>2. /\ s.until <= Len(l)
        /\ TookObject(l, s.fact, s.from, s.object)
        /\ TookSubject(l, s.fact, s.object, s.until)
    BY <1>5 DEF WriterHolds
  <2>3. s.until <= Len(m)
    BY <1>1, <2>1, <2>2
  <2>4. TookObject(m, s.fact, s.from, s.object)
    BY <2>1, <2>2, TookStays
  <2>5. TookSubject(m, s.fact, s.object, s.until)
    BY <1>1, <2>1, <2>2, <2>3, TookSubjectStays, SMTT(60)
  <2> QED BY <2>3, <2>4, <2>5
<1> QED BY <1>2, <1>3, <1>4, <1>5 DEF WriterHolds

\* The latest config of a namespace that a caller of writeTuple names.
LEMMA ClaimReadsLog ==
    ASSUME PublishInv, NEW f \in Claims, NEW ns \in {ObjectNs[f], SubjectNs[f]}
    PROVE  LatestConfig(table, ns) = LatestConfig(TableOf(log, Len(log)), ns)
<1>1. \A s \in FuzzSources \cap Sources : ns \notin NamespacesOf(s)
  BY SaltsAssumption DEF NamespacesOf
<1> QED BY <1>1, LatestIsOfLog

\* The steps of a writer, one by one.
LEMMA WriterKeeps ==
    ASSUME PublishInv, WritersHold, NEW w \in Writers, WriterStep(w)
    PROVE  WritersHold'
<1> USE DEF Stored
<1>1. /\ log \in Seq(SUBSET Row) /\ Len(log) \in Nat
      /\ WriterHolds(log, wpc[w], fact[w], began[w], readAt[w], stored[w])
  BY DEF PublishInv, PublishTypeOK, WritersHold
<1>2. ASSUME NEW f \in Claims, StartWrite(w, f) PROVE WritersHold'
  <2>1. WriterHolds(log, "object", f, Len(log), readAt[w], Missing)
    BY <1>1 DEF WriterHolds
  <2> QED BY <1>1, <1>2, <2>1 DEF WritersHold, StartWrite, schemaVars
<1>3. ASSUME NEW s \in Stored \cup {Missing}, EndWrite(w),
             stored' = [stored EXCEPT ![w] = s], UNCHANGED log,
             WriterHolds(log, "idle", Missing, 0, 0, s)
      PROVE  WritersHold'
  BY <1>3 DEF WritersHold, EndWrite
<1>4. ASSUME EndWrite(w), UNCHANGED <<log, stored>> PROVE WritersHold'
  <2>1. WriterHolds(log, "idle", Missing, 0, 0, stored[w])
    BY <1>1 DEF WriterHolds
  <2>2. stored[w] \in Stored \cup {Missing} /\ stored' = [stored EXCEPT ![w] = stored[w]]
    BY <1>4 DEF WritersHold
  <2> HIDE DEF Stored
  <2> QED BY <1>3, <1>4, <2>1, <2>2
<1>5. CASE ReadObjectConfig(w)
  <2> DEFINE f == fact[w]
             next == AfterObject(f)
  <2>1. f \in Claims /\ began[w] \in Nat /\ began[w] <= Len(log)
    BY <1>1, <1>5 DEF ReadObjectConfig, WriterHolds, WritersHold
  <2>2. CASE Takes(LatestConfig(table, ObjectNs[f]), f)
    <3>1. TookObject(log, f, began[w], Len(log))
      BY <1>1, <2>1, <2>2, ClaimReadsLog DEF TookObject
    <3>2. next \in {"subject", "insert"} /\ (next = "insert" => SubjectNs[f] = Missing)
      BY DEF AfterObject
    <3>3. WriterHolds(log, next, f, began[w], Len(log), stored[w])
      BY <1>1, <2>1, <3>1, <3>2 DEF WriterHolds, TookSubject
    <3>4. /\ wpc' = [wpc EXCEPT ![w] = next] /\ readAt' = [readAt EXCEPT ![w] = Len(log)]
          /\ UNCHANGED <<log, fact, began, stored>>
      BY <1>5, <2>2 DEF ReadObjectConfig, schemaVars
    <3> HIDE DEF next, f
    <3>5. wpc' \in [Writers -> {"idle", "object", "subject", "insert"}]
      BY <3>2, <3>4 DEF WritersHold
    <3>6. readAt' \in [Writers -> Nat]
      BY <1>1, <3>4 DEF WritersHold
    <3>7. ASSUME NEW v \in Writers
          PROVE  WriterHolds(log', wpc'[v], fact'[v], began'[v], readAt'[v], stored'[v])
      BY <3>3, <3>4 DEF WritersHold, f
    <3> QED BY <3>4, <3>5, <3>6, <3>7 DEF WritersHold
  <2>3. CASE ~Takes(LatestConfig(table, ObjectNs[f]), f)
    BY <1>4, <1>5, <2>3 DEF ReadObjectConfig, schemaVars
  <2> QED BY <2>2, <2>3
<1>6. CASE ReadSubjectConfig(w)
  <2> DEFINE f == fact[w]
  <2>1. f \in Claims /\ TookObject(log, f, began[w], readAt[w]) /\ readAt[w] \in Nat
    BY <1>1, <1>6 DEF ReadSubjectConfig, WriterHolds, WritersHold
  <2>2. CASE HasUserset(LatestConfig(table, SubjectNs[f]), f)
    <3>1. Len(log) \in readAt[w]..Len(log)
      BY <1>1, <2>1 DEF TookObject
    <3>2. HasUserset(LatestConfig(TableOf(log, Len(log)), SubjectNs[f]), f)
      BY <2>1, <2>2, ClaimReadsLog
    <3>3. TookSubject(log, f, readAt[w], Len(log))
      BY <3>1, <3>2 DEF TookSubject
    <3>4. wpc[w] = "subject"
      BY <1>6 DEF ReadSubjectConfig
    <3>5. WriterHolds(log, "insert", f, began[w], readAt[w], stored[w])
      BY <1>1, <2>1, <3>3, <3>4 DEF WriterHolds
    <3>6. /\ wpc' = [wpc EXCEPT ![w] = "insert"]
          /\ UNCHANGED <<log, fact, began, readAt, stored>>
      BY <1>6, <2>2 DEF ReadSubjectConfig, schemaVars
    <3>7. ASSUME NEW v \in Writers
          PROVE  WriterHolds(log', wpc'[v], fact'[v], began'[v], readAt'[v], stored'[v])
      BY <3>5, <3>6 DEF WritersHold
    <3> QED BY <3>6, <3>7 DEF WritersHold
  <2>3. CASE ~HasUserset(LatestConfig(table, SubjectNs[f]), f)
    BY <1>4, <1>6, <2>3 DEF ReadSubjectConfig, schemaVars
  <2> QED BY <2>2, <2>3
<1>7. CASE InsertValidated(w)
  <2> DEFINE s == [fact |-> fact[w], from |-> began[w], object |-> readAt[w],
                   until |-> Len(log)]
  <2>1. wpc[w] = "insert" /\ began[w] \in Nat /\ readAt[w] \in Nat
    BY <1>7 DEF InsertValidated, WritersHold
  <2>2. /\ fact[w] \in Claims /\ TookObject(log, fact[w], began[w], readAt[w])
        /\ TookSubject(log, fact[w], readAt[w], Len(log))
    BY <1>1, <2>1 DEF WriterHolds
  <2>3. WriterHolds(log, "idle", Missing, 0, 0, s)
    BY <1>1, <2>2 DEF WriterHolds
  <2>4. s \in Stored \cup {Missing}
    BY <1>1, <2>1, <2>2
  <2> HIDE DEF Stored
  <2> QED BY <1>3, <1>7, <2>3, <2>4 DEF InsertValidated, schemaVars
<1> QED BY <1>2, <1>5, <1>6, <1>7 DEF WriterStep

LEMMA WritersKept == PublishInv /\ WritersHold /\ [PublishNext]_allVars => WritersHold'
<1> SUFFICES ASSUME PublishInv, WritersHold, [PublishNext]_allVars PROVE WritersHold'
  OBVIOUS
<1>1. ASSUME UNCHANGED writerVars PROVE WritersHold'
  <2>1. ASSUME NEW v \in Writers
        PROVE  WriterHolds(log', wpc[v], fact[v], began[v], readAt[v], stored[v])
    <3>1. /\ began[v] \in Nat /\ readAt[v] \in Nat /\ stored[v] \in Stored \cup {Missing}
          /\ WriterHolds(log, wpc[v], fact[v], began[v], readAt[v], stored[v])
      BY DEF WritersHold
    <3> QED BY <3>1, LogOnlyGrows, WriterStays
  <2> QED BY <1>1, <2>1 DEF WritersHold, writerVars
<1>2. ASSUME NEW p \in Publishers, PublisherStep(p) PROVE UNCHANGED writerVars
  BY <1>2
  DEF PublisherStep, PublishSource, Rollback, StartPublish, LockNamespace, PublishProceeds,
      ReadNextVersion, InsertConfig, CommitPublish, LandPublish, PublishReturns, CleanupEnds,
      DeletePublishedNamespaceVersion, PublishThrows, BreakDeadlock
<1>3. ASSUME NEW w \in Writers, WriterStep(w) PROVE WritersHold'
  BY <1>3, WriterKeeps
<1>4. ASSUME NEW k \in Checks, CheckStep(k) PROVE UNCHANGED writerVars
  BY <1>4 DEF CheckStep, StartCheck, Walk, EndCheck
<1> QED BY <1>1, <1>2, <1>3, <1>4 DEF PublishNext, allVars

\* A stored tuple was validated against schemas that were in force while its call
\* ran, whatever was published, rolled back or dry-run between its two reads and its
\* insert: its object's namespace took it at one instant of the call, and its
\* subject's namespace had its userset, or was not there, at that or a later one.
THEOREM StoredWasTaken == PublishSpec => []StoredTupleWasTaken
<1>1. PublishSpec => []WritersHold
  BY PublishInvariance, WritersInitially, WritersKept, PTL DEF PublishSpec
<1>2. ASSUME WritersHold, NEW w \in Writers, stored[w] # Missing
      PROVE  /\ TookObject(log, stored[w].fact, stored[w].from, stored[w].object)
             /\ TookSubject(log, stored[w].fact, stored[w].object, stored[w].until)
  BY <1>2 DEF WritersHold, WriterHolds
<1>3. WritersHold => StoredTupleWasTaken
  BY <1>2 DEF StoredTupleWasTaken, TookObject, TookSubject, TableAt, TableOf
<1> QED BY <1>1, <1>3, PTL

\* One check of a server whose cache is in epoch e, which has answered the publishes
\* up to a of the l there are: at a place, with the epoch of its miss, what its
\* answer is based on, what it has to cover, and what it told last.
CheckHolds(e, a, l, at, missed, from, needs, told0) ==
    /\ at = "missed" => missed <= e /\ needs <= a
    /\ at = "walked" => /\ missed <= e /\ needs <= from /\ from <= l
                        /\ missed = e => a <= from
    /\ at = "answered" => needs <= from
    /\ told0 # Missing => told0.need <= told0.basis

Told == [basis : Nat, need : Nat]

\* What the cache holds was computed after every publish that was answered.
ServerHolds ==
    /\ epoch \in Nat /\ acked \in Nat /\ acked <= Len(log)
    /\ cache \in Nat \cup {Missing}
    /\ cache # Missing => acked <= cache /\ cache <= Len(log)

ChecksHold ==
    /\ kpc \in [Checks -> {"idle", "missed", "walked", "answered"}]
    /\ missEpoch \in [Checks -> Nat]
    /\ basis \in [Checks -> Nat]
    /\ need \in [Checks -> Nat]
    /\ told \in [Checks -> Told \cup {Missing}]
    /\ \A k \in Checks : CheckHolds(epoch, acked, Len(log), kpc[k], missEpoch[k], basis[k],
                                    need[k], told[k])

LEMMA ServerInitially == PublishInit => ServerHolds /\ ChecksHold
<1> SUFFICES ASSUME PublishInit PROVE ServerHolds /\ ChecksHold
  OBVIOUS
<1> QED BY DEF PublishInit, ServerHolds, ChecksHold, CheckHolds

\* A check stands while the log grows, and while a publish is answered.
LEMMA CheckStays ==
    ASSUME NEW e \in Nat, NEW a \in Nat, NEW l \in Nat, NEW m \in Nat, a <= l, l <= m,
           NEW at, NEW missed \in Nat, NEW from \in Nat, NEW needs \in Nat,
           NEW t \in Told \cup {Missing}, CheckHolds(e, a, l, at, missed, from, needs, t)
    PROVE  /\ CheckHolds(e, a, m, at, missed, from, needs, t)
           /\ CheckHolds(e + 1, l, l, at, missed, from, needs, t)
BY DEF CheckHolds

LEMMA ServerKept ==
    PublishInv /\ ServerHolds /\ ChecksHold /\ [PublishNext]_allVars
        => (ServerHolds /\ ChecksHold)'
<1> SUFFICES ASSUME PublishInv, ServerHolds, ChecksHold, [PublishNext]_allVars
             PROVE  (ServerHolds /\ ChecksHold)'
  OBVIOUS
<1> USE DEF Told
<1>1. Len(log) \in Nat /\ Len(log') \in Nat /\ Len(log) <= Len(log')
  BY LogOnlyGrows
<1>2. ASSUME NEW k \in Checks
      PROVE  /\ missEpoch[k] \in Nat /\ basis[k] \in Nat /\ need[k] \in Nat
             /\ told[k] \in Told \cup {Missing}
             /\ CheckHolds(epoch, acked, Len(log), kpc[k], missEpoch[k], basis[k], need[k],
                           told[k])
  BY DEF ChecksHold
<1>3. ASSUME UNCHANGED <<checkVars, serverVars>> PROVE (ServerHolds /\ ChecksHold)'
  <2>1. ServerHolds'
    BY <1>1, <1>3 DEF ServerHolds, serverVars
  <2>2. ASSUME NEW k \in Checks
        PROVE  CheckHolds(epoch, acked, Len(log'), kpc[k], missEpoch[k], basis[k], need[k],
                          told[k])
    <3> HIDE DEF Told
    <3> QED BY <1>1, <1>2, CheckStays DEF ServerHolds
  <2> QED BY <1>3, <2>1, <2>2 DEF ChecksHold, serverVars, checkVars
<1>4. ASSUME ClearCache, acked' = Len(log), UNCHANGED <<log, checkVars>>
      PROVE  (ServerHolds /\ ChecksHold)'
  <2>1. ServerHolds'
    BY <1>1, <1>4 DEF ServerHolds, ClearCache
  <2>2. ASSUME NEW k \in Checks
        PROVE  CheckHolds(epoch + 1, Len(log), Len(log), kpc[k], missEpoch[k], basis[k],
                          need[k], told[k])
    <3> HIDE DEF Told
    <3>1. Len(log) <= Len(log)
      BY <1>1
    <3> QED BY <1>1, <1>2, <3>1, CheckStays DEF ServerHolds
  <2> QED BY <1>4, <2>1, <2>2 DEF ChecksHold, ClearCache, checkVars
<1>5. ASSUME NEW p \in Publishers, PublisherStep(p) PROVE (ServerHolds /\ ChecksHold)'
  <2>1. CASE PublishReturns(p)
    BY <1>3, <1>4, <2>1 DEF PublishReturns, schemaVars, serverVars
  <2>2. CASE ~PublishReturns(p)
    BY <1>3, <1>5, <2>2
    DEF PublisherStep, PublishSource, Rollback, StartPublish, LockNamespace, PublishProceeds,
        ReadNextVersion, InsertConfig, CommitPublish, LandPublish, CleanupEnds,
        DeletePublishedNamespaceVersion, PublishThrows, BreakDeadlock
  <2> QED BY <2>1, <2>2
<1>6. ASSUME NEW w \in Writers, WriterStep(w) PROVE (ServerHolds /\ ChecksHold)'
  BY <1>3, <1>6 DEF WriterStep, StartWrite, ReadObjectConfig, ReadSubjectConfig, InsertValidated
<1>7. ASSUME NEW k \in Checks, StartCheck(k) PROVE (ServerHolds /\ ChecksHold)'
  <2> DEFINE at == IF cache = Missing THEN "missed" ELSE "answered"
             from == IF cache = Missing THEN 0 ELSE cache
  <2>1. from \in Nat /\ at \in {"idle", "missed", "walked", "answered"}
    BY DEF ServerHolds
  <2>2. CheckHolds(epoch, acked, Len(log), at, epoch, from, acked, Missing)
    BY <1>1 DEF CheckHolds, ServerHolds
  <2>3. /\ kpc' = [kpc EXCEPT ![k] = at]
        /\ basis' = [basis EXCEPT ![k] = from]
        /\ missEpoch' = [missEpoch EXCEPT ![k] = epoch]
        /\ need' = [need EXCEPT ![k] = acked]
        /\ told' = [told EXCEPT ![k] = Missing]
        /\ UNCHANGED <<log, epoch, cache, acked>>
    BY <1>7 DEF StartCheck, schemaVars, serverVars
  <2> HIDE DEF at, from
  <2> QED BY <2>1, <2>2, <2>3 DEF ServerHolds, ChecksHold
<1>8. ASSUME NEW k \in Checks, Walk(k) PROVE (ServerHolds /\ ChecksHold)'
  <2>1. CheckHolds(epoch, acked, Len(log), "walked", missEpoch[k], Len(log), need[k], told[k])
    BY <1>1, <1>2, <1>8 DEF CheckHolds, ServerHolds, Walk
  <2>2. /\ basis' = [basis EXCEPT ![k] = Len(log)]
        /\ kpc' = [kpc EXCEPT ![k] = "walked"]
        /\ UNCHANGED <<log, epoch, cache, acked, missEpoch, need, told>>
    BY <1>8 DEF Walk, schemaVars, serverVars
  <2> QED BY <1>1, <2>1, <2>2 DEF ServerHolds, ChecksHold
<1>9. ASSUME NEW k \in Checks, EndCheck(k) PROVE (ServerHolds /\ ChecksHold)'
  <2> DEFINE t == [basis |-> basis[k], need |-> need[k]]
  <2>1. t \in Told /\ kpc[k] \in {"walked", "answered"}
    BY <1>2, <1>9 DEF EndCheck
  <2>2. CheckHolds(epoch, acked, Len(log), "idle", 0, 0, 0, t)
    BY <1>2, <2>1 DEF CheckHolds
  <2>3. /\ kpc' = [kpc EXCEPT ![k] = "idle"]
        /\ basis' = [basis EXCEPT ![k] = 0]
        /\ missEpoch' = [missEpoch EXCEPT ![k] = 0]
        /\ need' = [need EXCEPT ![k] = 0]
        /\ told' = [told EXCEPT ![k] = t]
    BY <1>9 DEF EndCheck
  <2>4. log' = log /\ epoch' = epoch /\ acked' = acked
    BY <1>9 DEF EndCheck, schemaVars
  <2>5. ASSUME kpc[k] = "walked", missEpoch[k] = epoch PROVE ServerHolds'
    <3>1. acked <= basis[k] /\ basis[k] <= Len(log)
      BY <1>2, <2>5 DEF CheckHolds
    <3>2. cache' = basis[k]
      BY <1>9, <2>5 DEF EndCheck
    <3>3. basis[k] \in Nat
      BY <1>2
    <3> QED BY <2>4, <3>1, <3>2, <3>3 DEF ServerHolds
  <2>6. ASSUME ~(kpc[k] = "walked" /\ missEpoch[k] = epoch) PROVE ServerHolds'
    <3>1. cache' = cache
      BY <1>9, <2>6 DEF EndCheck
    <3> QED BY <2>4, <3>1 DEF ServerHolds
  <2>7. ServerHolds'
    BY <2>5, <2>6
  <2> HIDE DEF t
  <2>8. ChecksHold'
    BY <2>1, <2>2, <2>3, <2>4 DEF ChecksHold
  <2> QED BY <2>7, <2>8
<1> QED BY <1>3, <1>5, <1>6, <1>7, <1>8, <1>9
    DEF PublishNext, CheckStep, allVars

\* A check that starts after the answer to a publish through the same server is told
\* what that schema or a later one says, hit or miss, whatever walk was in flight
\* when the publish cleared the cache.
THEOREM AcknowledgedIsSeen == PublishSpec => []AcknowledgedPublishIsSeen
<1>1. PublishSpec => []ChecksHold
  BY PublishInvariance, ServerInitially, ServerKept, PTL DEF PublishSpec
<1>2. ChecksHold => AcknowledgedPublishIsSeen
  BY DEF ChecksHold, CheckHolds, AcknowledgedPublishIsSeen
<1> QED BY <1>1, <1>2, PTL

=============================================================================

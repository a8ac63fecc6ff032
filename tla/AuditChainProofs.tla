-------------------------- MODULE AuditChainProofs --------------------------
(***************************************************************************)
(* That concurrent, failing and dying insertCheckRow calls never fork or   *)
(* break the chain, and that audit verify finds what somebody did to the   *)
(* rows, for every number of calls and rows and however often he does it.  *)
(***************************************************************************)
EXTENDS AuditChain, NumberLemmas, SequenceTheorems

Reading == {"read", "inserted", "orphanedCommit"}
Pending == {"inserted", "orphanedCommit"}

-----------------------------------------------------------------------------
\* A row after all others whose hash extends their tip leaves an unbroken
\* chain unbroken: no other row's predecessors change.
LEMMA ExtendingKeepsChain ==
    ASSUME NEW rows, NEW x,
           \A r \in rows : r.seq \in Nat /\ r.seq < x.seq,
           x.seq \in Nat,
           Broken(rows) = {},
           x.hash = Hash(x.body, x.at, TipHash(rows))
    PROVE  Broken(rows \cup {x}) = {}
<1> DEFINE all == rows \cup {x}
           Before(s, r) == { t \in Chained(s) : t.seq < r.seq }
<1>1. \A r \in rows : Before(all, r) = Before(rows, r)
  BY DEF Chained
<1>2. Before(all, x) = Chained(rows)
  BY DEF Chained
<1>3. TipHash(Chained(rows)) = TipHash(rows)
  <2>1. Chained(Chained(rows)) = Chained(rows)
    BY DEF Chained
  <2> QED BY <2>1 DEF TipHash, TipRow
<1>4. \A r \in Chained(rows) : r.hash = Hash(r.body, r.at, TipHash(Before(rows, r)))
  BY DEF Broken
<1>5. \A r \in Chained(all) : r.hash = Hash(r.body, r.at, TipHash(Before(all, r)))
  <2> SUFFICES ASSUME NEW r \in Chained(all)
               PROVE  r.hash = Hash(r.body, r.at, TipHash(Before(all, r)))
    OBVIOUS
  <2>1. CASE r = x
    BY <2>1, <1>2, <1>3
  <2>2. CASE r \in rows
    <3>1. r \in Chained(rows)
      BY <2>2 DEF Chained
    <3> QED BY <3>1, <2>2, <1>1, <1>4
  <2> QED BY <2>1, <2>2 DEF Chained
<1> QED BY <1>5 DEF Broken

-----------------------------------------------------------------------------
(* The rows, the calls, and somebody who edits, deletes and rewrites rows. *)

Record == [seq : Nat, body : Bodies, at : Instants,
           prev : Hashes \cup {None}, hash : Hashes \cup {None}]

Keyed(rows) == \A r, s \in rows : r.seq = s.seq => r = s

\* A later row has seen more of the chain.
Rising(rows) == \A r, s \in Chained(rows) : r.seq < s.seq => Len(r.hash) < Len(s.hash)

Intact(rows) == Broken(rows) = {} /\ Rising(rows)

RowsHold(rows, n) ==
    /\ rows \subseteq Record
    /\ Keyed(rows)
    /\ \A r \in rows : r.seq <= n
    /\ \A r \in Chained(rows) : r.hash # << >>

\* Row y is what is left of row r: nobody gives a row another place, another time
\* or a longer past, and while no hash was rewritten it has the hash of r.
LeftOf(y, r, rew) ==
    /\ y.seq = r.seq /\ y.at = r.at /\ y.prev = r.prev
    /\ Len(y.hash) <= Len(r.hash)
    /\ rew = 0 => y.hash = r.hash

\* The rows there are, the rows that were recorded, and how often somebody rewrote.
StoreHolds(cks, rec, n, rew) ==
    /\ n \in Nat /\ rew \in Nat
    /\ RowsHold(cks, n) /\ RowsHold(rec, n)
    /\ Rising(cks)
    /\ \A y \in Chained(cks) : \E r \in Chained(rec) : LeftOf(y, r, rew)
    /\ rew = 0 => /\ Intact(rec)
                  /\ \A r \in Chained(rec) : \E y \in Chained(cks) : r.seq <= y.seq

\* The rows an audit verify has read.
ReadHolds(rr, rec, rew) ==
    /\ rr \subseteq Record
    /\ Keyed(rr)
    /\ \A y \in rr : /\ y.hash \in Hashes /\ y.hash # << >>
                     /\ \E r \in Chained(rec) : LeftOf(y, r, rew)

\* An anchor taken before any rewrite names a recorded row, and up to it the
\* recorded rows are one chain.
AnchorHolds(a, rec) ==
    a.clean => /\ \E r \in Chained(rec) : r.seq = a.seq /\ r.hash = a.hash
               /\ Intact({ r \in rec : r.seq <= a.seq })

\* A call c at a place, with what it records, the tip it read and the row it inserted.
CallHolds(c, at, b, ca, pv, x, cks, rec, n, lk, rew) ==
    /\ at # "idle" => b \in Bodies /\ ca \in Instants
    /\ at \in Holding => lk = c
    /\ at \in Reading => /\ pv \in Hashes
                         /\ \A r \in Chained(cks) : Len(r.hash) <= Len(pv)
                         /\ rew = 0 => pv = TipHash(rec)
    /\ at \in Pending => /\ x \in Record /\ x.seq <= n
                         /\ \A r \in cks \cup rec : r.seq < x.seq
                         /\ x.hash = Hash(x.body, x.at, pv)

CallFunctions ==
    /\ pc \in [Calls -> States]
    /\ body = [c \in Calls |-> body[c]]
    /\ checkedAt = [c \in Calls |-> checkedAt[c]]
    /\ prev = [c \in Calls |-> prev[c]]
    /\ row = [c \in Calls |-> row[c]]

TamperInv ==
    /\ now \in Instants /\ edits \in Nat
    /\ CallFunctions
    /\ \A c \in Calls : CallHolds(c, pc[c], body[c], checkedAt[c], prev[c], row[c],
                                  checks, recorded, seq, lock, rewrites)
    /\ StoreHolds(checks, recorded, seq, rewrites)
    /\ rowsRead # None => ReadHolds(rowsRead, recorded, rewrites)
    /\ tip # None => AnchorHolds(tip, recorded)
    /\ \A a \in anchors : AnchorHolds(a, recorded)

-----------------------------------------------------------------------------
(* Two chains that meet at one row are the same chain below it. *)

Before(rows, r) == { s \in Chained(rows) : s.seq < r.seq }
IsLast(rows, t) == t \in rows /\ \A r \in rows : r.seq <= t.seq

\* The row that is last is the one the query for the tip finds.
LEMMA TipIsLast ==
    ASSUME NEW rows, NEW t, Keyed(rows), \A r \in rows : r.seq \in Nat,
           \A r \in rows : r.hash # None, IsLast(rows, t)
    PROVE  TipRow(rows) = t /\ TipHash(rows) = t.hash
<1>1. Chained(rows) = rows
  BY DEF Chained
<1>2. \A r \in rows : (\A s \in rows : s.seq <= r.seq) <=> r = t
  BY DEF IsLast, Keyed
<1>3. TipRow(rows) = t
  <2>1. TipRow(rows) = CHOOSE r \in rows : \A s \in rows : s.seq <= r.seq
    BY <1>1 DEF TipRow
  <2>2. t \in rows
    BY DEF IsLast
  <2> QED BY <1>2, <2>1, <2>2
<1> QED BY <1>1, <1>3 DEF TipHash, IsLast

\* Rows whose numbers are bounded have a last one.
LEMMA LastExists ==
    ASSUME NEW rows, rows # {}, NEW n \in Nat, \A r \in rows : r.seq \in Nat /\ r.seq <= n
    PROVE  \E t : IsLast(rows, t)
<1> DEFINE T == { r.seq : r \in rows }
<1>1. T \subseteq Nat /\ T # {} /\ \A m \in T : m <= n
  OBVIOUS
<1> HIDE DEF T
<1>2. PICK m \in T : \A k \in T : k <= m
  BY <1>1, GreatestNumber
<1>3. PICK t \in rows : t.seq = m
  BY <1>2 DEF T
<1>4. \A r \in rows : r.seq <= t.seq
  BY <1>2, <1>3 DEF T
<1> QED BY <1>3, <1>4 DEF IsLast

\* From a row of both, down: when below every row of both the last one of P is in Q,
\* all of P from that row down is in Q.
LEMMA WalkDown ==
    ASSUME NEW P, NEW Q, NEW top \in P \cap Q, Keyed(P), \A p \in P : p.seq \in Nat,
           \A s \in P \cap Q, y \in P :
               (/\ s.seq <= top.seq
                /\ y.seq < s.seq
                /\ \A z \in P : z.seq < s.seq => z.seq <= y.seq) => y \in Q
    PROVE  \A p \in P : p.seq <= top.seq => p \in Q
<1> DEFINE Bad == { p \in P : p.seq <= top.seq /\ p \notin Q }
<1>1. SUFFICES ASSUME Bad # {} PROVE FALSE
  OBVIOUS
<1>2. PICK y : IsLast(Bad, y)
  <2>1. \A r \in Bad : r.seq \in Nat /\ r.seq <= top.seq
    OBVIOUS
  <2>2. top.seq \in Nat
    OBVIOUS
  <2> HIDE DEF Bad
  <2> QED BY <1>1, <2>1, <2>2, LastExists
<1>3. y \in P /\ y.seq < top.seq /\ y.seq \in Nat /\ y \notin Q
  <2>1. y \in P /\ y.seq <= top.seq /\ y \notin Q
    BY <1>2 DEF IsLast
  <2>2. y.seq # top.seq
    BY <2>1 DEF Keyed
  <2> QED BY <2>1, <2>2
<1>4. PICK s \in P : s.seq > y.seq /\ \A z \in P : z.seq > y.seq => s.seq <= z.seq
  <2> DEFINE T == { p.seq : p \in { z \in P : z.seq > y.seq } }
  <2>1. T \subseteq Nat /\ T # {}
    BY <1>3
  <2> HIDE DEF T
  <2>2. PICK m \in T : \A n \in T : m <= n
    BY <2>1, LeastNumber
  <2> QED BY <2>2 DEF T
<1>5. s.seq <= top.seq
  BY <1>3, <1>4
<1>6. s \in Q
  <2>1. s \notin Bad
    BY <1>2, <1>3, <1>4 DEF IsLast
  <2> QED BY <1>5, <2>1
<1>7. \A z \in P : z.seq < s.seq => z.seq <= y.seq
  BY <1>3, <1>4
<1> QED BY <1>3, <1>4, <1>5, <1>6, <1>7

\* The rows of a chain determine, by their hash, what comes before them.
LEMMA SameHashSamePast ==
    ASSUME NEW b \in Bodies, NEW d \in Bodies, NEW i \in Instants, NEW j \in Instants,
           NEW g \in Hashes, NEW h \in Hashes, Hash(b, i, g) = Hash(d, j, h)
    PROVE  b = d /\ i = j /\ g = h
<1>1. <<b, i>> \in Bodies \X Instants /\ <<d, j>> \in Bodies \X Instants
  OBVIOUS
<1>2. g = h /\ <<b, i>> = <<d, j>>
  BY <1>1, AppendInjective DEF Hash, Hashes
<1> QED BY <1>2

\* The hash of the tip of chained rows is the empty past or the hash of one of them.
LEMMA TipHashType ==
    ASSUME NEW rows, NEW n \in Nat, rows \subseteq Record, Keyed(rows),
           \A r \in rows : r.seq <= n, \A r \in rows : r.hash # None
    PROVE  /\ TipHash(rows) \in Hashes
           /\ rows = {} => TipHash(rows) = << >>
           /\ rows # {} => IsLast(rows, TipRow(rows)) /\ TipHash(rows) = TipRow(rows).hash
<1>1. Chained(rows) = rows
  BY DEF Chained
<1>2. CASE rows = {}
  BY <1>1, <1>2 DEF TipHash, Genesis, Hashes
<1>3. CASE rows # {}
  <2>1. \A r \in rows : r.seq \in Nat /\ r.seq <= n
    BY DEF Record
  <2>2. PICK t : IsLast(rows, t)
    BY <1>3, <2>1, LastExists
  <2>3. TipRow(rows) = t /\ TipHash(rows) = t.hash
    BY <2>1, <2>2, TipIsLast
  <2>4. t.hash \in Hashes
    BY <2>2 DEF IsLast, Record
  <2> QED BY <1>3, <2>2, <2>3, <2>4
<1> QED BY <1>2, <1>3

\* Up to the number of a row they have in common, by hash, rows that verify are the
\* recorded ones: none was changed, none is missing, none was added.
LEMMA SameChain ==
    ASSUME NEW rec, NEW rr, NEW n \in Nat, NEW rew, RowsHold(rec, n), ReadHolds(rr, rec, rew),
           Broken(rr) = {}, NEW t \in rr, NEW top \in Chained(rec),
           t.seq = top.seq, t.hash = top.hash,
           Intact({ r \in rec : r.seq <= top.seq })
    PROVE  { y \in rr : y.seq <= top.seq } = { r \in Chained(rec) : r.seq <= top.seq }
<1> DEFINE A == { r \in Chained(rec) : r.seq <= top.seq }
           Up == { r \in rec : r.seq <= top.seq }
<1>1. /\ A = Chained(Up) /\ Chained(rr) = rr
      /\ A \subseteq Record /\ rr \subseteq Record /\ Keyed(A) /\ Keyed(rr)
      /\ \A r \in A : r.hash \in Hashes /\ r.hash # << >> /\ r.hash # None /\ r.seq <= n
      /\ \A y \in rr : y.hash \in Hashes /\ y.hash # << >> /\ y.hash # None
      /\ top \in A
  <2>1. A = Chained(Up)
    BY DEF Chained
  <2>2. \A y \in rr : y.hash # None
    BY ChainAssumption DEF ReadHolds, Hashes, Instants
  <2>3. Chained(rr) = rr
    BY <2>2 DEF Chained
  <2>4. A \subseteq rec /\ top \in A
    BY DEF Chained, RowsHold, Record
  <2>5. \A r \in A : r.hash \in Hashes /\ r.hash # << >> /\ r.hash # None
    BY DEF Chained, RowsHold, Record
  <2> QED BY <2>1, <2>2, <2>3, <2>4, <2>5 DEF RowsHold, ReadHolds, Keyed
<1>2. \A y \in rr : y.seq <= n
  <2>1. ASSUME NEW y \in rr PROVE y.seq <= n
    <3>1. PICK r \in Chained(rec) : LeftOf(y, r, rew)
      BY DEF ReadHolds
    <3> QED BY <3>1 DEF LeftOf, Chained, RowsHold
  <2> QED BY <2>1
<1>3. /\ \A r \in A : r.hash = Hash(r.body, r.at, TipHash(Before(A, r)))
      /\ \A y \in rr : y.hash = Hash(y.body, y.at, TipHash(Before(rr, y)))
  <2>1. \A r \in A : { s \in Chained(Up) : s.seq < r.seq } = Before(A, r)
    BY <1>1 DEF Before, Chained
  <2>2. \A r \in A : r.hash = Hash(r.body, r.at, TipHash({ s \in Chained(Up) : s.seq < r.seq }))
    BY <1>1 DEF Intact, Broken
  <2>3. \A y \in rr : y.hash = Hash(y.body, y.at, TipHash({ s \in Chained(rr) : s.seq < y.seq }))
    BY <1>1 DEF Broken
  <2> QED BY <2>1, <2>2, <2>3 DEF Before
<1>4. \A r, s \in A : r.seq < s.seq => Len(r.hash) < Len(s.hash)
  BY <1>1 DEF Intact, Rising
<1> HIDE DEF Up
\* The rows below one, and the hash they lead to.
<1>5. ASSUME NEW R \in {A, rr}, NEW s \in R
      PROVE  /\ Before(R, s) \subseteq R
             /\ TipHash(Before(R, s)) \in Hashes
             /\ Before(R, s) = {} => TipHash(Before(R, s)) = << >>
             /\ Before(R, s) # {} => \E p : /\ IsLast(Before(R, s), p)
                                            /\ TipHash(Before(R, s)) = p.hash
  <2> DEFINE B == Before(R, s)
  <2>1. B \subseteq R
    BY DEF Before, Chained
  <2>2. B \subseteq Record /\ Keyed(B)
    BY <1>1, <2>1 DEF Keyed
  <2>3. \A r \in B : r.seq <= n /\ r.hash # None
    BY <1>1, <1>2, <2>1
  <2> HIDE DEF B
  <2>4. /\ TipHash(B) \in Hashes
        /\ B = {} => TipHash(B) = << >>
        /\ B # {} => IsLast(B, TipRow(B)) /\ TipHash(B) = TipRow(B).hash
    BY <2>2, <2>3, TipHashType
  <2> QED BY <2>1, <2>4 DEF B
\* A row of the one and a row of the other with one number and one hash are the same.
<1>6. ASSUME NEW y \in rr, NEW x \in A, y.seq = x.seq, y.hash = x.hash PROVE y = x
  <2>1. PICK r \in Chained(rec) : LeftOf(y, r, rew)
    BY DEF ReadHolds
  <2>2. r = x
    BY <1>6, <2>1 DEF LeftOf, RowsHold, Keyed, Chained
  <2>3. y.at = x.at /\ y.prev = x.prev
    BY <2>1, <2>2 DEF LeftOf
  <2>4. x \in Record /\ y \in Record
    BY <1>1
  <2>5. y.body = x.body
    <3>1. y.body \in Bodies /\ x.body \in Bodies /\ y.at \in Instants /\ x.at \in Instants
      BY <2>4 DEF Record
    <3>2. Hash(y.body, y.at, TipHash(Before(rr, y))) = Hash(x.body, x.at, TipHash(Before(A, x)))
      BY <1>3, <1>6
    <3>3. TipHash(Before(rr, y)) \in Hashes /\ TipHash(Before(A, x)) \in Hashes
      BY <1>5
    <3> QED BY <3>1, <3>2, <3>3, SameHashSamePast
  <2> QED BY <1>6, <2>3, <2>4, <2>5 DEF Record
\* Below a row of both, the last rows of the one and of the other are the same row.
<1>7. ASSUME NEW s \in A \cap rr
      PROVE  \/ Before(A, s) = {} /\ Before(rr, s) = {}
             \/ \E x \in A \cap rr : IsLast(Before(A, s), x) /\ IsLast(Before(rr, s), x)
  <2>1. TipHash(Before(A, s)) = TipHash(Before(rr, s))
    <3>1. s.body \in Bodies /\ s.at \in Instants
      BY <1>1 DEF Record
    <3>2. Hash(s.body, s.at, TipHash(Before(A, s))) = Hash(s.body, s.at, TipHash(Before(rr, s)))
      BY <1>3
    <3>3. TipHash(Before(rr, s)) \in Hashes /\ TipHash(Before(A, s)) \in Hashes
      BY <1>5
    <3> QED BY <3>1, <3>2, <3>3, SameHashSamePast
  <2>2. ASSUME Before(A, s) = {} PROVE Before(rr, s) = {}
    <3>1. SUFFICES ASSUME Before(rr, s) # {} PROVE FALSE
      OBVIOUS
    <3>2. PICK p : IsLast(Before(rr, s), p) /\ TipHash(Before(rr, s)) = p.hash
      BY <1>5, <3>1
    <3>3. p \in rr /\ p.hash = << >>
      BY <1>5, <2>1, <2>2, <3>2 DEF IsLast
    <3> QED BY <1>1, <3>3
  <2>3. ASSUME Before(A, s) # {}
        PROVE  \E x \in A \cap rr : IsLast(Before(A, s), x) /\ IsLast(Before(rr, s), x)
    <3>1. PICK x : IsLast(Before(A, s), x) /\ TipHash(Before(A, s)) = x.hash
      BY <1>5, <2>3
    <3>2. x \in A /\ x.hash # << >> /\ x.seq < s.seq
      BY <1>1, <1>5, <3>1 DEF IsLast, Before
    <3>3. Before(rr, s) # {}
      BY <1>5, <2>1, <3>1, <3>2
    <3>4. PICK y : IsLast(Before(rr, s), y) /\ TipHash(Before(rr, s)) = y.hash
      BY <1>5, <3>3
    <3>5. y \in rr /\ y.seq < s.seq /\ y.hash = x.hash
      BY <1>5, <2>1, <3>1, <3>4 DEF IsLast, Before
    <3>6. PICK r \in Chained(rec) : LeftOf(y, r, rew)
      BY <3>5 DEF ReadHolds
    <3>7. r \in A /\ r.seq < s.seq
      <4>1. s.seq <= top.seq /\ s \in Record /\ y \in Record /\ top \in Record
        BY <1>1, <3>5
      <4> QED BY <3>5, <3>6, <4>1 DEF LeftOf, Record
    <3>8. r.seq <= x.seq
      <4>1. r \in Before(A, s)
        BY <1>1, <3>7 DEF Before, Chained
      <4> QED BY <3>1, <4>1 DEF IsLast
    <3>9. y.seq = x.seq
      <4>1. r \in Record /\ x \in Record
        BY <1>1, <3>2, <3>7
      <4>2. CASE r.seq < x.seq
        <5>1. Len(r.hash) < Len(x.hash) /\ Len(x.hash) <= Len(r.hash)
          BY <1>4, <3>2, <3>5, <3>6, <3>7, <4>2 DEF LeftOf
        <5>2. Len(r.hash) \in Nat /\ Len(x.hash) \in Nat
          BY <1>1, <3>2, <3>7 DEF Hashes
        <5> QED BY <5>1, <5>2
      <4>3. CASE r.seq = x.seq
        BY <3>6, <4>3 DEF LeftOf
      <4> QED BY <3>8, <4>1, <4>2, <4>3 DEF Record
    <3>10. y = x
      BY <1>6, <3>2, <3>5, <3>9
    <3> QED BY <3>1, <3>2, <3>4, <3>5, <3>10
  <2> QED BY <2>2, <2>3
<1>8. t = top
  BY <1>1, <1>6
<1>9. ASSUME NEW P \in {A, rr}, NEW Q \in {A, rr}, NEW s \in P \cap Q, NEW y \in P,
             P \cap Q = A \cap rr, y.seq < s.seq,
             \A z \in P : z.seq < s.seq => z.seq <= y.seq
      PROVE  y \in Q
  <2>1. y \in Before(P, s)
    BY <1>1, <1>9 DEF Before, Chained
  <2>2. PICK x \in A \cap rr : IsLast(Before(P, s), x)
    BY <1>7, <1>9, <2>1
  <2>3. x \in P /\ x.seq < s.seq
    BY <1>5, <1>9, <2>2 DEF IsLast, Before
  <2>4. x.seq <= y.seq /\ y.seq <= x.seq /\ x.seq \in Nat /\ y.seq \in Nat
    BY <1>1, <1>9, <2>1, <2>2, <2>3 DEF IsLast, Record
  <2>5. x = y
    BY <1>1, <2>3, <2>4 DEF Keyed
  <2> QED BY <1>9, <2>2, <2>5
<1>10. (\A y \in rr : y.seq \in Nat) /\ (\A r \in A : r.seq \in Nat)
  BY <1>1 DEF Record
<1>11. \A y \in rr : y.seq <= top.seq => y \in A
  <2>1. \A s \in rr \cap A, y \in rr :
            (/\ s.seq <= top.seq
             /\ y.seq < s.seq
             /\ \A z \in rr : z.seq < s.seq => z.seq <= y.seq) => y \in A
    BY <1>9
  <2> HIDE DEF A
  <2> QED BY <1>1, <1>8, <1>10, <2>1, WalkDown
<1>12. \A r \in A : r.seq <= top.seq => r \in rr
  <2>1. \A s \in A \cap rr, y \in A :
            (/\ s.seq <= top.seq
             /\ y.seq < s.seq
             /\ \A z \in A : z.seq < s.seq => z.seq <= y.seq) => y \in rr
    BY <1>9
  <2> HIDE DEF A
  <2> QED BY <1>1, <1>8, <1>10, <2>1, WalkDown
<1> QED BY <1>11, <1>12

-----------------------------------------------------------------------------
(* What calls, operators and the one at the rows do to them. *)

\* A recorded row that comes after all others: what was read and anchored stands.
LEMMA RecordingKeepsReaders ==
    ASSUME NEW rec, NEW n \in Nat, NEW rew, RowsHold(rec, n), NEW x,
           x.seq \in Nat, \A r \in rec : r.seq < x.seq
    PROVE  /\ \A rr : ReadHolds(rr, rec, rew) => ReadHolds(rr, rec \cup {x}, rew)
           /\ \A a : AnchorHolds(a, rec) => AnchorHolds(a, rec \cup {x})
<1>1. Chained(rec) \subseteq Chained(rec \cup {x})
  BY DEF Chained
<1>2. ASSUME NEW rr, ReadHolds(rr, rec, rew) PROVE ReadHolds(rr, rec \cup {x}, rew)
  BY <1>1, <1>2 DEF ReadHolds
<1>3. ASSUME NEW a, AnchorHolds(a, rec), a.clean PROVE AnchorHolds(a, rec \cup {x})
  <2>1. PICK r \in Chained(rec) : r.seq = a.seq /\ r.hash = a.hash
    BY <1>3 DEF AnchorHolds
  <2>2. r \in rec /\ r.seq \in Nat /\ \A q \in rec : q.seq \in Nat
    BY DEF Chained, RowsHold, Record
  <2>3. { q \in rec \cup {x} : q.seq <= a.seq } = { q \in rec : q.seq <= a.seq }
    BY <2>1, <2>2
  <2> QED BY <1>1, <1>3, <2>1, <2>3 DEF AnchorHolds
<1>4. ASSUME NEW a, AnchorHolds(a, rec) PROVE AnchorHolds(a, rec \cup {x})
  <2>1. CASE a.clean
    BY <1>3, <1>4, <2>1
  <2>2. CASE ~a.clean
    BY <2>2 DEF AnchorHolds
  <2> QED BY <2>1, <2>2
<1> QED BY <1>2, <1>4

\* A commit of the inserted row.
LEMMA LandKeepsStore ==
    ASSUME NEW cks, NEW rec, NEW n, NEW rew, StoreHolds(cks, rec, n, rew),
           NEW c, NEW at \in Pending, NEW b, NEW ca, NEW pv, NEW x, NEW lk,
           CallHolds(c, at, b, ca, pv, x, cks, rec, n, lk, rew)
    PROVE  StoreHolds(cks \cup {x}, rec \cup {x}, n, rew)
<1>1. /\ x \in Record /\ x.seq <= n /\ x.seq \in Nat
      /\ \A r \in cks \cup rec : r.seq < x.seq
      /\ x.hash = Hash(x.body, x.at, pv)
      /\ pv \in Hashes
      /\ \A r \in Chained(cks) : Len(r.hash) <= Len(pv)
      /\ rew = 0 => pv = TipHash(rec)
  BY DEF CallHolds, Pending, Reading, Record
<1>2. x.hash \in Hashes /\ Len(x.hash) = Len(pv) + 1 /\ Len(pv) \in Nat /\ x.hash # << >>
  <2>1. <<x.body, x.at>> \in Bodies \X Instants
    BY <1>1 DEF Record
  <2> QED BY <1>1, <2>1, AppendProperties DEF Hash, Hashes
<1>3. x.hash # None
  BY <1>2, ChainAssumption DEF Hashes, Instants
<1>4. /\ RowsHold(cks, n) /\ RowsHold(rec, n) /\ n \in Nat /\ rew \in Nat /\ Rising(cks)
      /\ \A y \in Chained(cks) : \E r \in Chained(rec) : LeftOf(y, r, rew)
      /\ rew = 0 => /\ Intact(rec)
                    /\ \A r \in Chained(rec) : \E y \in Chained(cks) : r.seq <= y.seq
  BY DEF StoreHolds
<1>5. ASSUME NEW rows \in {cks, rec}
      PROVE  /\ RowsHold(rows \cup {x}, n)
             /\ Chained(rows \cup {x}) = Chained(rows) \cup {x}
  <2>1. RowsHold(rows, n) /\ \A r \in rows : r.seq < x.seq
    BY <1>1, <1>4
  <2>2. Chained(rows \cup {x}) = Chained(rows) \cup {x}
    BY <1>3 DEF Chained
  <2>3. Keyed(rows \cup {x})
    BY <2>1, <1>1 DEF Keyed, RowsHold, Record
  <2> QED BY <1>1, <1>2, <2>1, <2>2, <2>3 DEF RowsHold
<1>6. ASSUME NEW rows \in {cks, rec}, Rising(rows),
             \A r \in Chained(rows) : Len(r.hash) <= Len(pv)
      PROVE  Rising(rows \cup {x})
  <2> SUFFICES ASSUME NEW r \in Chained(rows) \cup {x}, NEW s \in Chained(rows) \cup {x},
                      r.seq < s.seq
               PROVE  Len(r.hash) < Len(s.hash)
    BY <1>5 DEF Rising
  <2>1. \A q \in Chained(rows) : q.hash \in Hashes /\ q.seq < x.seq /\ q.seq \in Nat
    BY <1>1, <1>4 DEF Chained, RowsHold, Record
  <2>2. r \in Chained(rows)
    BY <1>1, <2>1
  <2>3. CASE s \in Chained(rows)
    BY <1>6, <2>2, <2>3 DEF Rising
  <2>4. CASE s = x
    <3>1. Len(r.hash) \in Nat
      BY <2>1, <2>2 DEF Hashes
    <3> QED BY <1>2, <1>6, <2>2, <2>4, <3>1
  <2> QED BY <2>3, <2>4
<1>7. \A y \in Chained(cks) \cup {x} : \E r \in Chained(rec) \cup {x} : LeftOf(y, r, rew)
  <2>1. LeftOf(x, x, rew)
    BY <1>2 DEF LeftOf
  <2> QED BY <1>4, <2>1
<1>8. ASSUME rew = 0 PROVE Intact(rec \cup {x})
  <2>1. Broken(rec \cup {x}) = {}
    <3>1. \A r \in rec : r.seq \in Nat /\ r.seq < x.seq
      BY <1>1, <1>4 DEF RowsHold, Record
    <3>2. Broken(rec) = {} /\ x.hash = Hash(x.body, x.at, TipHash(rec))
      BY <1>1, <1>4, <1>8 DEF Intact
    <3> QED BY <1>1, <3>1, <3>2, ExtendingKeepsChain
  <2>2. ASSUME NEW r \in Chained(rec) PROVE Len(r.hash) <= Len(pv)
    <3>1. PICK y \in Chained(cks) : r.seq <= y.seq
      BY <1>4, <1>8
    <3>2. PICK s \in Chained(rec) : LeftOf(y, s, rew)
      BY <1>4
    <3>3. y.seq = s.seq /\ y.hash = s.hash
      BY <1>8, <3>2 DEF LeftOf
    <3>4. r \in Record /\ s \in Record /\ r \in rec /\ s \in rec /\ r.hash # None /\ s.hash # None
      BY <1>4 DEF Chained, RowsHold
    <3>5. Len(r.hash) <= Len(s.hash)
      <4>1. Len(r.hash) \in Nat /\ Len(s.hash) \in Nat
        BY <3>4 DEF Record, Hashes
      <4>2. CASE r.seq = s.seq
        BY <1>4, <3>4, <4>1, <4>2 DEF RowsHold, Keyed
      <4>3. CASE r.seq < s.seq
        BY <1>4, <1>8, <4>1, <4>3 DEF Intact, Rising
      <4> QED BY <3>1, <3>3, <3>4, <4>2, <4>3 DEF Record
    <3> QED BY <1>1, <3>3, <3>5
  <2> QED BY <1>4, <1>6, <1>8, <2>1, <2>2 DEF Intact
<1>9. \A r \in Chained(rec) \cup {x} : \E y \in Chained(cks) \cup {x} : r.seq <= y.seq
  <2>1. x.seq <= x.seq
    BY <1>1
  <2>2. \A r \in Chained(rec) : r.seq <= x.seq
    BY <1>1, <1>4 DEF Chained, RowsHold, Record
  <2> QED BY <2>1, <2>2
<1> QED BY <1>1, <1>4, <1>5, <1>6, <1>7, <1>8, <1>9 DEF StoreHolds

\* Row y can stand in the place of row r: with its number, time and prev_hash, and no
\* more of a past, but still more than the rows before it.
CanReplace(cks, r, y) ==
    /\ y.seq = r.seq /\ y.at = r.at /\ y.prev = r.prev
    /\ y.hash \in Hashes /\ y.hash # << >> /\ Len(y.hash) <= Len(r.hash)
    /\ \A p \in Chained(cks) : p.seq < r.seq => Len(p.hash) < Len(y.hash)

\* One row put in the place of another.
LEMMA ReplaceKeepsStore ==
    ASSUME NEW cks, NEW rec, NEW n, NEW rew, StoreHolds(cks, rec, n, rew),
           NEW r \in Chained(cks), NEW y \in Record, NEW rew2 \in Nat, CanReplace(cks, r, y),
           rew2 = 0 => rew = 0 /\ y.hash = r.hash
    PROVE  StoreHolds((cks \ {r}) \cup {y}, rec, n, rew2)
<1> DEFINE new == (cks \ {r}) \cup {y}
<1> USE DEF CanReplace
<1>1. /\ RowsHold(cks, n) /\ RowsHold(rec, n) /\ n \in Nat /\ rew \in Nat /\ Rising(cks)
      /\ \A q \in Chained(cks) : \E s \in Chained(rec) : LeftOf(q, s, rew)
      /\ rew = 0 => /\ Intact(rec)
                    /\ \A s \in Chained(rec) : \E q \in Chained(cks) : s.seq <= q.seq
  BY DEF StoreHolds
<1>2. y.hash # None /\ r \in cks /\ r \in Record /\ r.hash \in Hashes /\ y.seq \in Nat
  BY <1>1, ChainAssumption DEF Hashes, Instants, Chained, RowsHold, Record
<1>3. Chained(new) = (Chained(cks) \ {r}) \cup {y}
  BY <1>2 DEF Chained
<1>4. RowsHold(new, n)
  <2>1. Keyed(new)
    BY <1>1, <1>2 DEF Keyed, RowsHold
  <2>2. \A q \in new : q \in Record /\ q.seq <= n
    BY <1>1, <1>2 DEF RowsHold
  <2>3. \A q \in Chained(new) : q.hash # << >>
    BY <1>1, <1>3 DEF RowsHold
  <2> QED BY <2>1, <2>2, <2>3 DEF RowsHold
<1>5. Rising(new)
  <2>1. \A q \in Chained(cks) : q.hash \in Hashes /\ q.seq \in Nat /\ Len(q.hash) \in Nat
    BY <1>1 DEF Chained, RowsHold, Record, Hashes
  <2>2. Len(y.hash) \in Nat /\ Len(r.hash) \in Nat
    BY <1>2 DEF Hashes
  <2> SUFFICES ASSUME NEW p \in Chained(new), NEW q \in Chained(new), p.seq < q.seq
               PROVE  Len(p.hash) < Len(q.hash)
    BY DEF Rising
  <2>3. CASE p # y /\ q # y
    BY <1>1, <1>3, <2>3 DEF Rising
  <2>4. CASE p # y /\ q = y
    BY <1>3, <2>4
  <2>5. CASE p = y /\ q # y
    <3>1. Len(r.hash) < Len(q.hash)
      BY <1>1, <1>3, <2>5 DEF Rising
    <3>2. Len(q.hash) \in Nat
      BY <1>3, <2>1, <2>5
    <3> QED BY <2>2, <2>5, <3>1, <3>2
  <2>6. ~(p = y /\ q = y)
    BY <1>2
  <2> QED BY <2>3, <2>4, <2>5, <2>6
<1>6. ASSUME NEW q \in Chained(new) PROVE \E s \in Chained(rec) : LeftOf(q, s, rew2)
  <2>1. CASE q = y
    <3>1. PICK s \in Chained(rec) : LeftOf(r, s, rew)
      BY <1>1
    <3>2. s.hash \in Hashes
      BY <1>1 DEF Chained, RowsHold, Record
    <3>3. Len(y.hash) \in Nat /\ Len(r.hash) \in Nat /\ Len(s.hash) \in Nat
      BY <1>2, <3>2 DEF Hashes
    <3>4. Len(y.hash) <= Len(s.hash)
      BY <3>1, <3>3 DEF LeftOf
    <3> QED BY <2>1, <3>1, <3>4 DEF LeftOf
  <2>2. CASE q # y
    <3>1. PICK s \in Chained(rec) : LeftOf(q, s, rew)
      BY <1>1, <1>3, <2>2
    <3> QED BY <3>1 DEF LeftOf
  <2> QED BY <2>1, <2>2
<1>7. rew2 = 0 => /\ Intact(rec)
                  /\ \A s \in Chained(rec) : \E q \in Chained(new) : s.seq <= q.seq
  BY <1>1, <1>3
<1> QED BY <1>1, <1>3, <1>4, <1>5, <1>6, <1>7 DEF StoreHolds

\* One row taken out.
LEMMA RemoveKeepsStore ==
    ASSUME NEW cks, NEW rec, NEW n, NEW rew, StoreHolds(cks, rec, n, rew),
           NEW r \in Chained(cks), NEW rew2 \in Nat,
           rew2 = 0 => rew = 0 /\ \E s \in Chained(cks) : r.seq < s.seq
    PROVE  StoreHolds(cks \ {r}, rec, n, rew2)
<1> DEFINE new == cks \ {r}
<1>1. /\ RowsHold(cks, n) /\ RowsHold(rec, n) /\ n \in Nat /\ rew \in Nat /\ Rising(cks)
      /\ \A q \in Chained(cks) : \E s \in Chained(rec) : LeftOf(q, s, rew)
      /\ rew = 0 => /\ Intact(rec)
                    /\ \A s \in Chained(rec) : \E q \in Chained(cks) : s.seq <= q.seq
  BY DEF StoreHolds
<1>2. Chained(new) = Chained(cks) \ {r}
  BY DEF Chained
<1>3. RowsHold(new, n) /\ Rising(new)
  BY <1>1, <1>2 DEF RowsHold, Keyed, Rising
<1>4. ASSUME NEW q \in Chained(new) PROVE \E s \in Chained(rec) : LeftOf(q, s, rew2)
  <2>1. PICK s \in Chained(rec) : LeftOf(q, s, rew)
    BY <1>1, <1>2
  <2> QED BY <2>1 DEF LeftOf
<1>5. ASSUME rew2 = 0, NEW s \in Chained(rec) PROVE \E q \in Chained(new) : s.seq <= q.seq
  <2>1. PICK q \in Chained(cks) : s.seq <= q.seq
    BY <1>1, <1>5
  <2>2. PICK p \in Chained(cks) : r.seq < p.seq
    BY <1>5
  <2>3. \A d \in cks : d.seq \in Nat
    BY <1>1 DEF RowsHold, Record
  <2>4. s.seq \in Nat
    BY <1>1 DEF Chained, RowsHold, Record
  <2>5. q \in cks /\ p \in cks /\ r \in cks
    BY DEF Chained
  <2>6. p # r
    BY <2>2, <2>3, <2>5
  <2>7. CASE q # r
    BY <1>2, <2>1, <2>7
  <2>8. CASE q = r
    <3>1. s.seq <= p.seq
      BY <2>1, <2>2, <2>3, <2>4, <2>5, <2>8
    <3> QED BY <1>2, <2>6, <3>1
  <2> QED BY <2>7, <2>8
<1>6. rew2 = 0 => Intact(rec)
  BY <1>1
<1> QED BY <1>1, <1>3, <1>4, <1>5, <1>6 DEF StoreHolds

\* A call stands when no row gets a longer past or a new number.
LEMMA TamperKeepsCall ==
    ASSUME NEW cks, NEW rec, NEW n, NEW rew, NEW new, NEW rew2, StoreHolds(cks, rec, n, rew),
           StoreHolds(new, rec, n, rew2), rew2 = 0 => rew = 0,
           \A y \in new : \E r \in cks : r.seq = y.seq,
           \A y \in Chained(new) : \E r \in Chained(cks) : Len(y.hash) <= Len(r.hash),
           NEW c, NEW at, NEW b, NEW ca, NEW pv, NEW x, NEW lk,
           CallHolds(c, at, b, ca, pv, x, cks, rec, n, lk, rew)
    PROVE  CallHolds(c, at, b, ca, pv, x, new, rec, n, lk, rew2)
<1>1. ASSUME at \in Reading, NEW y \in Chained(new) PROVE Len(y.hash) <= Len(pv)
  <2>1. PICK r \in Chained(cks) : Len(y.hash) <= Len(r.hash)
    OBVIOUS
  <2>2. pv \in Hashes /\ Len(r.hash) <= Len(pv)
    BY <1>1 DEF CallHolds
  <2>3. r.hash \in Hashes /\ y.hash \in Hashes
    BY DEF StoreHolds, RowsHold, Chained, Record
  <2>4. Len(y.hash) \in Nat /\ Len(r.hash) \in Nat /\ Len(pv) \in Nat
    BY <2>2, <2>3 DEF Hashes
  <2> QED BY <2>1, <2>2, <2>4
<1>2. ASSUME at \in Pending, NEW y \in new PROVE y.seq < x.seq
  <2>1. PICK r \in cks : r.seq = y.seq
    OBVIOUS
  <2> QED BY <1>2, <2>1 DEF CallHolds
<1> QED BY <1>1, <1>2 DEF CallHolds

-----------------------------------------------------------------------------
(* TamperInv is an invariant. *)

LEMMA TamperInitially == Init => TamperInv
<1> SUFFICES ASSUME Init PROVE TamperInv
  OBVIOUS
<1>1. PICK n \in 0..MaxLegacy : checks = Legacy(n) /\ seq = n
  BY DEF Init
<1>2. n \in Nat /\ recorded = checks /\ rewrites = 0
  BY ChainAssumption DEF Init
<1>3. PICK first : first \in Bodies /\ first = CHOOSE b \in Bodies : TRUE
  BY ChainAssumption
<1>4. checks = { [seq |-> i, body |-> first, at |-> 0, prev |-> None, hash |-> None] : i \in 1..n }
  BY <1>1, <1>3 DEF Legacy
<1>5. Chained(checks) = {}
  BY <1>4 DEF Chained
<1>6. RowsHold(checks, n)
  <2>1. 0 \in Instants
    BY ChainAssumption DEF Instants
  <2>2. checks \subseteq Record
    BY <1>2, <1>3, <1>4, <2>1 DEF Record
  <2>3. Keyed(checks) /\ \A r \in checks : r.seq <= n
    BY <1>2, <1>4 DEF Keyed
  <2> QED BY <1>5, <2>2, <2>3 DEF RowsHold
<1>7. StoreHolds(checks, recorded, seq, rewrites)
  BY <1>1, <1>2, <1>5, <1>6 DEF StoreHolds, Intact, Rising, Broken
<1>8. /\ \A c \in Calls : CallHolds(c, pc[c], body[c], checkedAt[c], prev[c], row[c],
                                    checks, recorded, seq, lock, rewrites)
      /\ CallFunctions
  BY DEF Init, CallHolds, CallFunctions, Holding, Reading, Pending, States
<1>9. now \in Instants /\ edits \in Nat /\ rowsRead = None /\ tip = None /\ anchors = {}
  BY ChainAssumption DEF Init, Instants
<1> QED BY <1>7, <1>8, <1>9 DEF TamperInv

\* A call that is not under the lock needs nothing of the rows.
LEMMA FreeCall ==
    ASSUME NEW c, NEW at, at \notin Holding, NEW b, NEW ca, NEW pv, NEW x,
           NEW cks, NEW rec, NEW n, NEW lk, NEW rew,
           at # "idle" => b \in Bodies /\ ca \in Instants
    PROVE  CallHolds(c, at, b, ca, pv, x, cks, rec, n, lk, rew)
BY DEF CallHolds, Holding, Reading, Pending

\* A step of one call that commits nothing.
LEMMA MoveKeeps ==
    ASSUME TamperInv, NEW c \in Calls, NEW at \in States, NEW b, NEW ca, NEW pv, NEW x,
           NEW n \in Nat, seq <= n, seq' = n,
           pc' = [pc EXCEPT ![c] = at],
           body' = [body EXCEPT ![c] = b],
           checkedAt' = [checkedAt EXCEPT ![c] = ca],
           prev' = [prev EXCEPT ![c] = pv],
           row' = [row EXCEPT ![c] = x],
           UNCHANGED <<now, checks, recorded, toolVars, tamperVars>>,
           CallHolds(c, at, b, ca, pv, x, checks, recorded, n, lock', rewrites),
           \A d \in Calls \ {c} : pc[d] \in Holding => lock' = lock
    PROVE  TamperInv'
<1>1. CallFunctions'
  BY DEF TamperInv, CallFunctions
<1>2. ASSUME NEW d \in Calls
      PROVE  CallHolds(d, pc'[d], body'[d], checkedAt'[d], prev'[d], row'[d],
                       checks, recorded, n, lock', rewrites)
  <2>1. CASE d = c
    BY <2>1 DEF TamperInv, CallFunctions
  <2>2. CASE d # c
    <3>1. CallHolds(d, pc[d], body[d], checkedAt[d], prev[d], row[d],
                    checks, recorded, seq, lock, rewrites)
      BY DEF TamperInv
    <3>2. seq \in Nat
      BY DEF TamperInv, StoreHolds
    <3>3. pc[d] \in Pending => row[d].seq <= n
      BY <3>1, <3>2 DEF CallHolds, Record
    <3>4. CallHolds(d, pc[d], body[d], checkedAt[d], prev[d], row[d],
                    checks, recorded, n, lock', rewrites)
      BY <2>2, <3>1, <3>3 DEF CallHolds
    <3> QED BY <2>2, <3>4 DEF TamperInv, CallFunctions
  <2> QED BY <2>1, <2>2
<1>3. StoreHolds(checks, recorded, n, rewrites)
  <2>1. seq \in Nat
    BY DEF TamperInv, StoreHolds
  <2>2. ASSUME NEW rows, RowsHold(rows, seq) PROVE RowsHold(rows, n)
    BY <2>1, <2>2 DEF RowsHold, Record
  <2> QED BY <2>2 DEF TamperInv, StoreHolds
<1> QED BY <1>1, <1>2, <1>3 DEF TamperInv, toolVars, tamperVars

\* A commit, seen by its caller or not.
LEMMA LandKeeps ==
    ASSUME TamperInv, NEW c \in Calls, pc[c] \in Pending, Land(c), Leave(c),
           UNCHANGED <<now, seq, toolVars, tamperVars>>
    PROVE  TamperInv'
<1> DEFINE x == row[c]
<1>1. CallHolds(c, pc[c], body[c], checkedAt[c], prev[c], x, checks, recorded, seq, lock, rewrites)
  BY DEF TamperInv
<1>2. /\ x.seq \in Nat /\ \A r \in recorded : r.seq < x.seq
      /\ lock = c
  BY <1>1 DEF CallHolds, Pending, Holding, Record
<1>3. StoreHolds(checks \cup {x}, recorded \cup {x}, seq, rewrites)
  <2>1. StoreHolds(checks, recorded, seq, rewrites)
    BY DEF TamperInv
  <2> QED BY <1>1, <2>1, LandKeepsStore
<1>4. ASSUME NEW d \in Calls
      PROVE  CallHolds(d, pc'[d], body'[d], checkedAt'[d], prev'[d], row'[d],
                       checks', recorded', seq, lock', rewrites)
  <2>1. CASE d = c
    <3>1. pc'[d] = "idle"
      BY <2>1 DEF Leave, TamperInv, CallFunctions
    <3> QED BY <3>1, FreeCall DEF Holding
  <2>2. CASE d # c
    <3>1. CallHolds(d, pc[d], body[d], checkedAt[d], prev[d], row[d],
                    checks, recorded, seq, lock, rewrites)
      BY DEF TamperInv
    <3>2. pc[d] \notin Holding
      BY <1>2, <2>2, <3>1 DEF CallHolds
    <3>3. pc'[d] = pc[d] /\ body'[d] = body[d] /\ checkedAt'[d] = checkedAt[d]
      BY <2>2 DEF Leave, TamperInv, CallFunctions
    <3>4. pc[d] # "idle" => body[d] \in Bodies /\ checkedAt[d] \in Instants
      BY <3>1 DEF CallHolds
    <3> QED BY <3>2, <3>3, <3>4, FreeCall
  <2> QED BY <2>1, <2>2
<1>5. CallFunctions'
  BY DEF Leave, TamperInv, CallFunctions, States
<1>6. RowsHold(recorded, seq) /\ seq \in Nat
  BY DEF TamperInv, StoreHolds
<1>7. ASSUME NEW a, AnchorHolds(a, recorded) PROVE AnchorHolds(a, recorded \cup {x})
  BY <1>2, <1>6, <1>7, RecordingKeepsReaders
<1>8. ASSUME NEW rr, ReadHolds(rr, recorded, rewrites)
      PROVE  ReadHolds(rr, recorded \cup {x}, rewrites)
  BY <1>2, <1>6, <1>8, RecordingKeepsReaders
<1>9. /\ now' \in Instants /\ edits' \in Nat
      /\ rowsRead' # None => ReadHolds(rowsRead', recorded', rewrites')
      /\ tip' # None => AnchorHolds(tip', recorded')
      /\ \A a \in anchors' : AnchorHolds(a, recorded')
  <2>1. recorded' = recorded \cup {x}
    BY DEF Land
  <2> QED BY <1>7, <1>8, <2>1 DEF TamperInv, toolVars, tamperVars
<1>10. StoreHolds(checks', recorded', seq', rewrites')
  BY <1>3 DEF Land, tamperVars
<1> QED BY <1>4, <1>5, <1>9, <1>10 DEF TamperInv, tamperVars

\* The last row of the log has seen most of the chain.
LEMMA TipOfStore ==
    ASSUME NEW cks, NEW rec, NEW n, NEW rew, StoreHolds(cks, rec, n, rew)
    PROVE  /\ Chained(cks) = {} => TipHash(cks) = << >>
           /\ Chained(cks) # {} => /\ IsLast(Chained(cks), TipRow(cks))
                                   /\ TipHash(cks) = TipRow(cks).hash
           /\ TipHash(cks) \in Hashes
           /\ \A r \in Chained(cks) : Len(r.hash) <= Len(TipHash(cks))
<1>1. Chained(Chained(cks)) = Chained(cks) /\ Chained(cks) \subseteq cks
  BY DEF Chained
<1>2. TipHash(cks) = TipHash(Chained(cks)) /\ TipRow(cks) = TipRow(Chained(cks))
  BY <1>1 DEF TipHash, TipRow
<1>3. /\ Chained(cks) \subseteq Record /\ Keyed(Chained(cks))
      /\ \A r \in Chained(cks) : r.seq <= n /\ r.hash # None
      /\ n \in Nat
  BY DEF Chained, StoreHolds, RowsHold, Keyed
<1>4. /\ TipHash(cks) \in Hashes
      /\ Chained(cks) = {} => TipHash(cks) = << >>
      /\ Chained(cks) # {} => /\ IsLast(Chained(cks), TipRow(cks))
                              /\ TipHash(cks) = TipRow(cks).hash
  BY <1>2, <1>3, TipHashType
<1>5. ASSUME NEW r \in Chained(cks) PROVE Len(r.hash) <= Len(TipHash(cks))
  <2> DEFINE t == TipRow(cks)
  <2>1. t \in Chained(cks) /\ r.seq <= t.seq /\ TipHash(cks) = t.hash
    BY <1>4 DEF IsLast
  <2>2. t \in Record /\ r \in Record /\ t.hash \in Hashes /\ r.hash \in Hashes
    BY <1>3, <2>1 DEF Record
  <2>3. t.seq \in Nat /\ r.seq \in Nat /\ Len(t.hash) \in Nat /\ Len(r.hash) \in Nat
    BY <2>2 DEF Record, Hashes
  <2>4. CASE r.seq = t.seq
    <3>1. r = t
      BY <1>3, <2>1, <2>4 DEF Keyed
    <3> QED BY <2>1, <2>3, <3>1
  <2>5. CASE r.seq < t.seq
    <3>1. Len(r.hash) < Len(t.hash)
      BY <2>1, <2>5 DEF StoreHolds, Rising
    <3> QED BY <2>1, <2>3, <3>1
  <2> QED BY <2>1, <2>3, <2>4, <2>5
<1> QED BY <1>4, <1>5

\* While no hash was rewritten, the tip is that of the recorded rows.
LEMMA TipIsRecorded ==
    ASSUME NEW cks, NEW rec, NEW n, StoreHolds(cks, rec, n, 0)
    PROVE  /\ TipHash(cks) = TipHash(rec)
           /\ Chained(cks) # {} => \E r : /\ IsLast(Chained(rec), r)
                                          /\ r.seq = TipRow(cks).seq /\ r.hash = TipHash(cks)
<1>1. /\ \A y \in Chained(cks) : \E r \in Chained(rec) : LeftOf(y, r, 0)
      /\ \A r \in Chained(rec) : \E y \in Chained(cks) : r.seq <= y.seq
      /\ RowsHold(rec, n) /\ RowsHold(cks, n) /\ n \in Nat
  BY DEF StoreHolds
<1>2. CASE Chained(cks) = {}
  <2>1. Chained(rec) = {}
    BY <1>1, <1>2
  <2> QED BY <1>2, <2>1 DEF TipHash
<1>3. CASE Chained(cks) # {}
  <2> DEFINE t == TipRow(cks)
  <2>1. IsLast(Chained(cks), t) /\ TipHash(cks) = t.hash
    BY <1>3, TipOfStore
  <2>2. PICK r \in Chained(rec) : r.seq = t.seq /\ r.hash = t.hash
    BY <1>1, <2>1 DEF IsLast, LeftOf
  <2>3. /\ \A q \in Chained(rec) : q.seq \in Nat /\ q.hash # None
        /\ \A q \in Chained(cks) : q.seq \in Nat
        /\ Keyed(Chained(rec))
    BY <1>1 DEF Chained, RowsHold, Record, Keyed
  <2>4. ASSUME NEW q \in Chained(rec) PROVE q.seq <= r.seq
    <3>1. PICK y \in Chained(cks) : q.seq <= y.seq
      BY <1>1
    <3>2. y.seq <= t.seq /\ t \in Chained(cks)
      BY <2>1 DEF IsLast
    <3> QED BY <2>2, <2>3, <3>1, <3>2
  <2>5. IsLast(Chained(rec), r)
    BY <2>2, <2>4 DEF IsLast
  <2>6. TipHash(Chained(rec)) = r.hash
    BY <2>3, <2>5, TipIsLast
  <2>7. TipHash(rec) = TipHash(Chained(rec))
    <3>1. Chained(Chained(rec)) = Chained(rec)
      BY DEF Chained
    <3> QED BY <3>1 DEF TipHash, TipRow
  <2> QED BY <2>1, <2>2, <2>5, <2>6, <2>7
<1> QED BY <1>2, <1>3

\* The steps of a call, one by one.
LEMMA CallKeeps ==
    ASSUME TamperInv, NEW c \in Calls, CallStep(c) PROVE TamperInv'
<1>1. /\ CallFunctions /\ seq \in Nat /\ seq <= seq
      /\ CallHolds(c, pc[c], body[c], checkedAt[c], prev[c], row[c],
                   checks, recorded, seq, lock, rewrites)
      /\ \A d \in Calls : pc[d] \in Holding => lock = d
      /\ now \in Instants
  BY DEF TamperInv, StoreHolds, CallHolds
<1>2. /\ pc = [pc EXCEPT ![c] = pc[c]] /\ body = [body EXCEPT ![c] = body[c]]
      /\ checkedAt = [checkedAt EXCEPT ![c] = checkedAt[c]]
      /\ prev = [prev EXCEPT ![c] = prev[c]] /\ row = [row EXCEPT ![c] = row[c]]
  BY <1>1 DEF CallFunctions
<1>3. ASSUME NEW b \in Bodies, CaptureCheckedAt(c, b) PROVE TamperInv'
  <2>1. CallHolds(c, "captured", b, now, prev[c], row[c], checks, recorded, seq, lock, rewrites)
    BY <1>1, FreeCall DEF Holding
  <2>2. /\ pc' = [pc EXCEPT ![c] = "captured"] /\ body' = [body EXCEPT ![c] = b]
        /\ checkedAt' = [checkedAt EXCEPT ![c] = now] /\ prev' = prev /\ row' = row
        /\ seq' = seq /\ lock' = lock
        /\ UNCHANGED <<now, checks, recorded, toolVars, tamperVars>>
    BY <1>3 DEF CaptureCheckedAt
  <2> QED BY <1>1, <1>2, <2>1, <2>2, MoveKeeps DEF States
<1>4. ASSUME NEW at \in States, NEW n \in Nat, NEW pv, NEW x, seq <= n, seq' = n,
             pc' = [pc EXCEPT ![c] = at],
             prev' = [prev EXCEPT ![c] = pv], row' = [row EXCEPT ![c] = x],
             UNCHANGED <<now, checks, recorded, body, checkedAt, toolVars, tamperVars>>,
             CallHolds(c, at, body[c], checkedAt[c], pv, x, checks, recorded, n, lock', rewrites),
             \A d \in Calls \ {c} : pc[d] \in Holding => lock' = lock
      PROVE  TamperInv'
  <2>1. UNCHANGED <<now, checks, recorded, toolVars, tamperVars>>
    BY <1>4
  <2>2. body' = [body EXCEPT ![c] = body[c]] /\ checkedAt' = [checkedAt EXCEPT ![c] = checkedAt[c]]
    BY <1>2, <1>4
  <2> QED BY <1>4, <2>1, <2>2, MoveKeeps
<1>5. ASSUME NEW at \in States, pc' = [pc EXCEPT ![c] = at],
             UNCHANGED <<now, checks, recorded, seq, body, checkedAt, prev, row,
                         toolVars, tamperVars>>,
             CallHolds(c, at, body[c], checkedAt[c], prev[c], row[c],
                       checks, recorded, seq, lock', rewrites),
             \A d \in Calls \ {c} : pc[d] \in Holding => lock' = lock
      PROVE  TamperInv'
  <2>1. prev' = [prev EXCEPT ![c] = prev[c]] /\ row' = [row EXCEPT ![c] = row[c]]
    BY <1>2, <1>5
  <2>2. UNCHANGED <<now, checks, recorded, body, checkedAt, toolVars, tamperVars>>
    BY <1>5
  <2>3. seq' = seq
    BY <1>5
  <2> QED BY <1>1, <1>4, <1>5, <2>1, <2>2, <2>3
<1>6. CASE BeginTransaction(c)
  <2>1. CallHolds(c, "begun", body[c], checkedAt[c], prev[c], row[c],
                  checks, recorded, seq, lock, rewrites)
    BY <1>1, <1>6 DEF BeginTransaction, CallHolds, Holding, Reading, Pending
  <2>2. pc' = [pc EXCEPT ![c] = "begun"] /\ lock' = lock
    BY <1>6 DEF BeginTransaction
  <2>3. UNCHANGED <<now, checks, recorded, seq, body, checkedAt, prev, row, toolVars, tamperVars>>
    BY <1>6 DEF BeginTransaction
  <2>4. "begun" \in States
    BY DEF States
  <2> QED BY <1>5, <2>1, <2>2, <2>3, <2>4
<1>7. CASE AcquireChainLock(c)
  <2>1. CallHolds(c, "locked", body[c], checkedAt[c], prev[c], row[c],
                  checks, recorded, seq, c, rewrites)
    BY <1>1, <1>7 DEF AcquireChainLock, CallHolds, Holding, Reading, Pending
  <2>2. pc' = [pc EXCEPT ![c] = "locked"] /\ lock' = c /\ lock = None
    BY <1>7 DEF AcquireChainLock
  <2>3. UNCHANGED <<now, checks, recorded, seq, body, checkedAt, prev, row, toolVars, tamperVars>>
    BY <1>7 DEF AcquireChainLock
  <2>4. \A d \in Calls : pc[d] \notin Holding
    BY <1>1, <2>2, ChainAssumption
  <2>5. "locked" \in States
    BY DEF States, Holding
  <2> QED BY <1>5, <2>1, <2>2, <2>3, <2>4, <2>5
<1>8. CASE FetchChainTipHash(c)
  <2>1. StoreHolds(checks, recorded, seq, rewrites)
    BY DEF TamperInv
  <2>2. TipHash(checks) \in Hashes /\ \A r \in Chained(checks) : Len(r.hash) <= Len(TipHash(checks))
    BY <2>1, TipOfStore
  <2>3. rewrites = 0 => TipHash(checks) = TipHash(recorded)
    BY <2>1, TipIsRecorded
  <2>4. CallHolds(c, "read", body[c], checkedAt[c], TipHash(checks), row[c],
                  checks, recorded, seq, lock, rewrites)
    BY <1>1, <1>8, <2>2, <2>3 DEF FetchChainTipHash, CallHolds, Holding, Reading, Pending
  <2>5. /\ pc' = [pc EXCEPT ![c] = "read"] /\ prev' = [prev EXCEPT ![c] = TipHash(checks)]
        /\ row' = [row EXCEPT ![c] = row[c]] /\ seq' = seq /\ lock' = lock
    BY <1>2, <1>8 DEF FetchChainTipHash
  <2>6. UNCHANGED <<now, checks, recorded, body, checkedAt, toolVars, tamperVars>>
    BY <1>8 DEF FetchChainTipHash
  <2>7. "read" \in States
    BY DEF States, Holding
  <2> QED BY <1>1, <1>4, <2>4, <2>5, <2>6, <2>7
<1>9. CASE InsertRow(c)
  <2> DEFINE x == [seq |-> seq + 1, body |-> body[c], at |-> checkedAt[c], prev |-> prev[c],
                   hash |-> Hash(body[c], checkedAt[c], prev[c])]
  <2>1. /\ body[c] \in Bodies /\ checkedAt[c] \in Instants /\ prev[c] \in Hashes
        /\ pc[c] = "read"
    BY <1>1, <1>9 DEF InsertRow, CallHolds, Reading
  <2>2. x \in Record /\ x.seq <= seq + 1 /\ x.hash = Hash(x.body, x.at, prev[c])
    <3>1. Hash(body[c], checkedAt[c], prev[c]) \in Hashes
      BY <2>1, AppendProperties DEF Hash, Hashes
    <3> QED BY <1>1, <2>1, <3>1 DEF Record
  <2>3. \A r \in checks \cup recorded : r.seq < x.seq
    BY <1>1 DEF TamperInv, StoreHolds, RowsHold, Record
  <2> HIDE DEF x
  <2>4. CallHolds(c, "inserted", body[c], checkedAt[c], prev[c], x,
                  checks, recorded, seq + 1, lock, rewrites)
    BY <1>1, <2>1, <2>2, <2>3 DEF CallHolds, Holding, Reading, Pending
  <2>5. /\ pc' = [pc EXCEPT ![c] = "inserted"] /\ row' = [row EXCEPT ![c] = x]
        /\ prev' = [prev EXCEPT ![c] = prev[c]] /\ seq' = seq + 1 /\ lock' = lock
    BY <1>2, <1>9 DEF InsertRow, x
  <2>6. UNCHANGED <<now, checks, recorded, body, checkedAt, toolVars, tamperVars>>
    BY <1>9 DEF InsertRow
  <2>7. seq + 1 \in Nat /\ seq <= seq + 1 /\ "inserted" \in States
    BY <1>1 DEF States, Holding
  <2> QED BY <1>4, <2>4, <2>5, <2>6, <2>7
<1>10. CASE Commit(c)
  BY <1>10, LandKeeps DEF Commit, Pending
<1>11. ASSUME Leave(c), lock' = IF lock = c THEN None ELSE lock,
             UNCHANGED <<now, checks, recorded, seq, toolVars, tamperVars>>
      PROVE  TamperInv'
  <2>1. CallHolds(c, "idle", None, 0, None, None, checks, recorded, seq, lock', rewrites)
    BY FreeCall DEF Holding
  <2>2. \A d \in Calls \ {c} : pc[d] \in Holding => lock' = lock
    BY <1>1, <1>11
  <2> QED BY <1>1, <1>11, <2>1, <2>2, MoveKeeps DEF States, Leave
<1>12. CASE Throw(c)
  BY <1>11, <1>12 DEF Throw
<1>13. CASE LoseConnection(c)
  <2> DEFINE at == IF pc[c] = "inserted" THEN "orphanedCommit" ELSE "orphaned"
  <2>1. CallHolds(c, at, body[c], checkedAt[c], prev[c], row[c],
                  checks, recorded, seq, lock, rewrites)
    BY <1>1, <1>13 DEF LoseConnection, CallHolds, Holding, Reading, Pending
  <2>2. at \in States
    BY DEF States, Holding
  <2>3. pc' = [pc EXCEPT ![c] = at] /\ lock' = lock
    BY <1>1, <1>13 DEF LoseConnection, CallFunctions
  <2>4. UNCHANGED <<now, checks, recorded, seq, body, checkedAt, prev, row, toolVars, tamperVars>>
    BY <1>13 DEF LoseConnection
  <2> HIDE DEF at
  <2> QED BY <1>5, <2>1, <2>2, <2>3, <2>4
<1>14. CASE Reap(c)
  BY <1>11, <1>14 DEF Reap
<1>15. CASE LandOrphan(c)
  BY <1>15, LandKeeps DEF LandOrphan, Pending
<1> QED BY <1>3, <1>6, <1>7, <1>8, <1>9, <1>10, <1>12, <1>13, <1>14, <1>15
    DEF CallStep

\* The clock and the commands of an operator.
LEMMA OperatorKeeps ==
    ASSUME TamperInv, Tick \/ Operator \/ UNCHANGED vars PROVE TamperInv'
<1>1. ASSUME UNCHANGED <<checks, recorded, seq, lock, callVars, tamperVars>>, now' \in Instants,
             rowsRead' # None => ReadHolds(rowsRead', recorded, rewrites),
             tip' # None => AnchorHolds(tip', recorded),
             \A a \in anchors' : AnchorHolds(a, recorded)
      PROVE  TamperInv'
  <2>1. CallFunctions'
    BY <1>1 DEF TamperInv, CallFunctions, callVars
  <2> QED BY <1>1, <2>1 DEF TamperInv, callVars, tamperVars
<1>2. /\ now \in Instants
      /\ rowsRead # None => ReadHolds(rowsRead, recorded, rewrites)
      /\ tip # None => AnchorHolds(tip, recorded)
      /\ \A a \in anchors : AnchorHolds(a, recorded)
      /\ StoreHolds(checks, recorded, seq, rewrites)
  BY DEF TamperInv
<1>3. CASE UNCHANGED vars
  BY <1>1, <1>2, <1>3 DEF vars, toolVars
<1>4. CASE Tick
  BY <1>1, <1>2, <1>4, ChainAssumption DEF Tick, toolVars, Instants
<1>5. CASE ReadChainTip
  <2> DEFINE t == TipRow(checks)
             new == [seq |-> t.seq, hash |-> t.hash, clean |-> rewrites = 0]
  <2>1. AnchorHolds(new, recorded)
    <3> SUFFICES ASSUME rewrites = 0 PROVE AnchorHolds(new, recorded)
      BY DEF AnchorHolds
    <3>1. Chained(checks) # {} /\ StoreHolds(checks, recorded, seq, 0)
      BY <1>2, <1>5 DEF ReadChainTip
    <3>2. PICK r : /\ IsLast(Chained(recorded), r)
                   /\ r.seq = t.seq /\ r.hash = TipHash(checks)
      BY <3>1, TipIsRecorded
    <3>3. TipHash(checks) = t.hash
      BY <3>1, TipOfStore
    <3>4. Intact(recorded) /\ RowsHold(recorded, seq)
      BY <3>1 DEF StoreHolds
    <3>5. Intact({ q \in recorded : q.seq <= t.seq })
      <4> DEFINE Up == { q \in recorded : q.seq <= t.seq }
      <4>1. Chained(Up) = Chained(recorded)
        BY <3>2 DEF Chained, IsLast
      <4>2. Broken(Up) = Broken(recorded) /\ (Rising(Up) <=> Rising(recorded))
        BY <4>1 DEF Broken, Rising
      <4> QED BY <3>4, <4>2 DEF Intact
    <3> QED BY <3>2, <3>3, <3>5 DEF AnchorHolds, IsLast
  <2> HIDE DEF new
  <2>2. tip' = new /\ UNCHANGED <<checks, recorded, seq, lock, callVars, tamperVars>>
    BY <1>5 DEF ReadChainTip, new
  <2>3. now' = now /\ rowsRead' = rowsRead /\ anchors' = anchors
    BY <1>5 DEF ReadChainTip
  <2> QED BY <1>1, <1>2, <2>1, <2>2, <2>3
<1>6. CASE AppendAnchor
  <2>1. UNCHANGED <<checks, recorded, seq, lock, callVars, tamperVars>>
    BY <1>6 DEF AppendAnchor
  <2>2. /\ now' = now /\ rowsRead' = rowsRead /\ anchors' = anchors \cup {tip}
        /\ tip # None /\ tip' = None
    BY <1>6 DEF AppendAnchor
  <2> QED BY <1>1, <1>2, <2>1, <2>2
<1>7. CASE ReadRows
  <2>1. ReadHolds(Chained(checks), recorded, rewrites)
    <3>1. /\ RowsHold(checks, seq)
          /\ \A y \in Chained(checks) : \E r \in Chained(recorded) : LeftOf(y, r, rewrites)
      BY <1>2 DEF StoreHolds
    <3> QED BY <3>1 DEF ReadHolds, RowsHold, Chained, Keyed, Record
  <2>2. UNCHANGED <<checks, recorded, seq, lock, callVars, tamperVars>>
    BY <1>7 DEF ReadRows
  <2>3. now' = now /\ rowsRead' = Chained(checks) /\ anchors' = anchors /\ tip' = tip
    BY <1>7 DEF ReadRows
  <2> QED BY <1>1, <1>2, <2>1, <2>2, <2>3
<1>8. ASSUME NEW withAnchors \in BOOLEAN, Verify(withAnchors) PROVE TamperInv'
  <2>1. UNCHANGED <<checks, recorded, seq, lock, callVars, tamperVars>>
    BY <1>8 DEF Verify
  <2>2. now' = now /\ rowsRead' = None /\ anchors' = anchors /\ tip' = tip
    BY <1>8 DEF Verify
  <2> QED BY <1>1, <1>2, <2>1, <2>2
<1> QED BY <1>3, <1>4, <1>5, <1>6, <1>7, <1>8 DEF Operator

\* Whoever is at the rows.
LEMMA TamperKeeps ==
    ASSUME TamperInv, Tamper PROVE TamperInv'
<1>1. /\ StoreHolds(checks, recorded, seq, rewrites) /\ rewrites \in Nat /\ edits \in Nat
      /\ RowsHold(checks, seq) /\ Rising(checks) /\ seq \in Nat
  BY DEF TamperInv, StoreHolds
\* It is enough that the rows hold, that none has a longer past or a new number, and
\* that a rewrite is counted.
<1>2. ASSUME UNCHANGED <<now, recorded, seq, lock, callVars, toolVars>>,
             rewrites' = 0 => rewrites = 0, edits' \in Nat,
             StoreHolds(checks', recorded, seq, rewrites'),
             \A y \in checks' : \E r \in checks : r.seq = y.seq,
             \A y \in Chained(checks') : \E r \in Chained(checks) : Len(y.hash) <= Len(r.hash)
      PROVE  TamperInv'
  <2>1. ASSUME NEW c \in Calls
        PROVE  CallHolds(c, pc[c], body[c], checkedAt[c], prev[c], row[c],
                         checks', recorded, seq, lock, rewrites')
    <3>1. CallHolds(c, pc[c], body[c], checkedAt[c], prev[c], row[c],
                    checks, recorded, seq, lock, rewrites)
      BY DEF TamperInv
    <3> QED BY <1>1, <1>2, <3>1, TamperKeepsCall
  <2>2. \A rr : ReadHolds(rr, recorded, rewrites) => ReadHolds(rr, recorded, rewrites')
    BY <1>2 DEF ReadHolds, LeftOf
  <2>3. CallFunctions'
    BY <1>2 DEF TamperInv, CallFunctions, callVars
  <2>4. /\ now' \in Instants
        /\ rowsRead' # None => ReadHolds(rowsRead', recorded', rewrites')
        /\ tip' # None => AnchorHolds(tip', recorded')
        /\ \A a \in anchors' : AnchorHolds(a, recorded')
    BY <1>2, <2>2 DEF TamperInv, toolVars
  <2> QED BY <1>2, <2>1, <2>3, <2>4 DEF TamperInv, callVars
<1>3. \A r \in Chained(checks) : /\ r \in checks /\ r \in Record
                                 /\ r.hash \in Hashes /\ r.hash # << >> /\ r.seq \in Nat
                                 /\ Len(r.hash) \in Nat
  BY <1>1 DEF Chained, RowsHold, Record, Hashes
\* A row replaced, or removed.
<1>4. ASSUME NEW r \in Chained(checks), NEW y \in Record,
             UNCHANGED <<now, recorded, seq, lock, callVars, toolVars>>,
             rewrites' \in Nat, rewrites' = 0 => rewrites = 0 /\ y.hash = r.hash, edits' \in Nat,
             checks' = (checks \ {r}) \cup {y},
             CanReplace(checks, r, y)
      PROVE  TamperInv'
  <2>1. /\ StoreHolds((checks \ {r}) \cup {y}, recorded, seq, rewrites')
        /\ Chained((checks \ {r}) \cup {y}) = (Chained(checks) \ {r}) \cup {y}
    <3>1. /\ StoreHolds(checks, recorded, seq, rewrites) /\ rewrites' \in Nat
          /\ CanReplace(checks, r, y)
          /\ rewrites' = 0 => rewrites = 0 /\ y.hash = r.hash
      BY <1>1, <1>4
    <3>2. StoreHolds((checks \ {r}) \cup {y}, recorded, seq, rewrites')
      BY <3>1, ReplaceKeepsStore
    <3>3. y.hash # None
      BY <1>4, ChainAssumption DEF CanReplace, Hashes, Instants
    <3>4. Chained((checks \ {r}) \cup {y}) = (Chained(checks) \ {r}) \cup {y}
      BY <3>3 DEF Chained
    <3> QED BY <3>2, <3>4
  <2>2. \A q \in (checks \ {r}) \cup {y} : \E p \in checks : p.seq = q.seq
    BY <1>3, <1>4 DEF CanReplace
  <2>3. ASSUME NEW q \in (Chained(checks) \ {r}) \cup {y}
        PROVE  \E p \in Chained(checks) : Len(q.hash) <= Len(p.hash)
    <3>1. CASE q = y
      BY <1>4, <3>1 DEF CanReplace
    <3>2. CASE q # y
      <4>1. q \in Chained(checks) /\ Len(q.hash) <= Len(q.hash)
        BY <1>3, <3>2
      <4> QED BY <4>1
    <3> QED BY <3>1, <3>2
  <2>4. /\ StoreHolds(checks', recorded, seq, rewrites')
        /\ \A q \in checks' : \E p \in checks : p.seq = q.seq
        /\ \A q \in Chained(checks') : \E p \in Chained(checks) : Len(q.hash) <= Len(p.hash)
    BY <1>4, <2>1, <2>2, <2>3
  <2> QED BY <1>2, <1>4, <2>4
<1>5. ASSUME NEW r \in Chained(checks),
             UNCHANGED <<now, recorded, seq, lock, callVars, toolVars>>,
             rewrites' \in Nat, edits' \in Nat, checks' = checks \ {r},
             rewrites' = 0 => rewrites = 0 /\ \E s \in Chained(checks) : r.seq < s.seq
      PROVE  TamperInv'
  <2>1. StoreHolds(checks \ {r}, recorded, seq, rewrites')
    BY <1>1, <1>5, RemoveKeepsStore
  <2>2. \A q \in Chained(checks \ {r}) : q \in Chained(checks) /\ Len(q.hash) <= Len(q.hash)
    <3>1. Chained(checks \ {r}) \subseteq Chained(checks)
      BY DEF Chained
    <3> QED BY <1>3, <3>1
  <2>3. /\ StoreHolds(checks', recorded, seq, rewrites')
        /\ \A q \in checks' : \E p \in checks : p.seq = q.seq
        /\ \A q \in Chained(checks') : \E p \in Chained(checks) : Len(q.hash) <= Len(p.hash)
    BY <1>5, <2>1, <2>2
  <2> QED BY <1>2, <1>5, <2>3
<1>6. ASSUME NEW r \in checks, NEW b \in Bodies, EditRow(r, b) PROVE TamperInv'
  <2> DEFINE y == [r EXCEPT !.body = b]
  <2>1. r \in Chained(checks)
    BY <1>6 DEF EditRow, Chained
  <2>2. /\ y \in Record /\ y.seq = r.seq /\ y.at = r.at /\ y.prev = r.prev /\ y.hash = r.hash
    BY <1>3, <2>1 DEF Record
  <2>3. /\ UNCHANGED <<now, recorded, seq, lock, callVars, toolVars>>
        /\ checks' = (checks \ {r}) \cup {y} /\ rewrites' = rewrites /\ edits' = edits + 1
    BY <1>6 DEF EditRow
  <2> HIDE DEF y
  <2>4. y.hash \in Hashes /\ y.hash # << >> /\ Len(y.hash) <= Len(r.hash)
    BY <1>3, <2>1, <2>2
  <2>5. \A p \in Chained(checks) : p.seq < r.seq => Len(p.hash) < Len(y.hash)
    BY <1>1, <2>1, <2>2 DEF Rising
  <2>6. rewrites' \in Nat /\ edits' \in Nat /\ (rewrites' = 0 => rewrites = 0 /\ y.hash = r.hash)
    BY <1>1, <2>2, <2>3
  <2>7. CanReplace(checks, r, y)
    BY <2>2, <2>4, <2>5 DEF CanReplace
  <2> QED BY <1>4, <2>1, <2>2, <2>3, <2>6, <2>7
<1>7. ASSUME NEW r \in checks, DeleteRow(r) PROVE TamperInv'
  <2>1. r \in Chained(checks) /\ \E s \in Chained(checks) : r.seq < s.seq
    BY <1>7 DEF DeleteRow, Chained
  <2>2. /\ UNCHANGED <<now, recorded, seq, lock, callVars, toolVars>>
        /\ checks' = checks \ {r} /\ rewrites' = rewrites /\ edits' = edits + 1
    BY <1>7 DEF DeleteRow
  <2>3. rewrites' \in Nat /\ edits' \in Nat
    BY <1>1, <2>2
  <2> QED BY <1>5, <2>1, <2>2, <2>3
<1>8. ASSUME Chained(checks) # {}
      PROVE  /\ TipRow(checks) \in Chained(checks)
             /\ IsLast(Chained(checks), TipRow(checks))
  BY <1>1, <1>8, TipOfStore DEF IsLast
<1>9. CASE TruncateTip
  <2>1. TipRow(checks) \in Chained(checks)
    BY <1>8, <1>9 DEF TruncateTip
  <2>2. /\ UNCHANGED <<now, recorded, seq, lock, callVars, toolVars>>
        /\ checks' = checks \ {TipRow(checks)} /\ rewrites' = rewrites + 1 /\ edits' = edits
    BY <1>9 DEF TruncateTip
  <2>3. rewrites' \in Nat /\ edits' \in Nat /\ rewrites' # 0
    BY <1>1, <2>2
  <2> QED BY <1>5, <2>1, <2>2, <2>3
<1>10. ASSUME NEW b \in Bodies, RewriteTip(b) PROVE TamperInv'
  <2> DEFINE r == TipRow(checks)
             B == Before(checks, r)
             h == Hash(b, r.at, TipHash(B))
             y == [r EXCEPT !.body = b, !.hash = h]
  <2>1. r \in Chained(checks) /\ r \in Record
    BY <1>3, <1>8, <1>10 DEF RewriteTip
  <2>2. /\ UNCHANGED <<now, recorded, seq, lock, callVars, toolVars>>
        /\ checks' = (checks \ {r}) \cup {y} /\ rewrites' = rewrites + 1 /\ edits' = edits
    BY <1>10 DEF RewriteTip, Before
  <2>3. B \subseteq Chained(checks) /\ \A p \in B : p.seq < r.seq
    BY DEF Before
  <2>4. /\ TipHash(B) \in Hashes
        /\ B = {} => TipHash(B) = << >>
        /\ B # {} => IsLast(B, TipRow(B)) /\ TipHash(B) = TipRow(B).hash
    <3>1. B \subseteq Record /\ Keyed(B) /\ \A p \in B : p.seq <= seq /\ p.hash # None
      BY <1>1, <2>3 DEF Chained, RowsHold, Keyed
    <3> HIDE DEF B
    <3> QED BY <1>1, <3>1, TipHashType
  <2> HIDE DEF B
  <2>5. /\ h \in Hashes /\ h # << >> /\ Len(h) = Len(TipHash(B)) + 1 /\ Len(TipHash(B)) \in Nat
    <3>1. <<b, r.at>> \in Bodies \X Instants
      BY <2>1 DEF Record
    <3>2. TipHash(B) \in Seq(Bodies \X Instants)
      BY <2>4 DEF Hashes
    <3>3. h = Append(TipHash(B), <<b, r.at>>)
      BY DEF Hash
    <3> HIDE DEF h, r
    <3>4. h \in Seq(Bodies \X Instants) /\ h # << >> /\ Len(h) = Len(TipHash(B)) + 1
      BY <3>1, <3>2, <3>3, AppendProperties
    <3> QED BY <3>2, <3>4 DEF Hashes
  <2>6. Len(h) <= Len(r.hash)
    <3>1. CASE B = {}
      <4>1. Len(TipHash(B)) = 0 /\ r.hash \in Hashes /\ r.hash # << >> /\ Len(r.hash) \in Nat
        BY <1>3, <2>1, <2>4, <3>1
      <4>2. Len(r.hash) # 0
        BY <4>1, EmptySeq DEF Hashes
      <4> QED BY <2>5, <4>1, <4>2
    <3>2. CASE B # {}
      <4>1. TipRow(B) \in B /\ TipHash(B) = TipRow(B).hash
        BY <2>4, <3>2 DEF IsLast
      <4>2. Len(TipRow(B).hash) < Len(r.hash)
        BY <1>1, <2>1, <2>3, <4>1 DEF Rising
      <4>3. Len(r.hash) \in Nat
        BY <1>3, <2>1
      <4> QED BY <2>5, <4>1, <4>2, <4>3
    <3> QED BY <3>1, <3>2
  <2>7. ASSUME NEW p \in Chained(checks), p.seq < r.seq PROVE Len(p.hash) < Len(h)
    <3>1. p \in B
      BY <2>7 DEF B, Before
    <3>2. TipRow(B) \in B /\ TipHash(B) = TipRow(B).hash /\ p.seq <= TipRow(B).seq
      BY <2>4, <3>1 DEF IsLast
    <3>3. Len(p.hash) <= Len(TipRow(B).hash)
      <4>1. TipRow(B) \in Chained(checks)
        BY <2>3, <3>2
      <4>2. CASE p.seq = TipRow(B).seq
        <5>1. p = TipRow(B)
          BY <1>1, <1>3, <4>1, <4>2 DEF RowsHold, Keyed
        <5>2. Len(p.hash) \in Nat
          BY <1>3
        <5> QED BY <5>1, <5>2
      <4>3. CASE p.seq < TipRow(B).seq
        <5>1. Len(p.hash) < Len(TipRow(B).hash)
          BY <1>1, <4>1, <4>3 DEF Rising
        <5> QED BY <1>3, <4>1, <5>1
      <4>4. p.seq \in Nat /\ TipRow(B).seq \in Nat
        BY <1>3, <4>1
      <4> QED BY <3>2, <4>2, <4>3, <4>4
    <3>4. Len(p.hash) \in Nat
      BY <1>3
    <3> QED BY <2>5, <3>2, <3>3, <3>4
  <2> HIDE DEF h
  <2>8. y \in Record /\ y.seq = r.seq /\ y.at = r.at /\ y.prev = r.prev /\ y.hash = h
    BY <2>1, <2>5 DEF Record
  <2> HIDE DEF y, r
  <2>9. rewrites' \in Nat /\ edits' \in Nat /\ rewrites' # 0
    BY <1>1, <2>2
  <2>10. CanReplace(checks, r, y)
    BY <2>5, <2>6, <2>7, <2>8 DEF CanReplace
  <2> QED BY <1>4, <2>1, <2>2, <2>8, <2>9, <2>10
<1> QED BY <1>6, <1>7, <1>9, <1>10 DEF Tamper

LEMMA TamperInvKept == TamperInv /\ [TamperNext]_vars => TamperInv'
<1> SUFFICES ASSUME TamperInv, [TamperNext]_vars PROVE TamperInv'
  OBVIOUS
<1>1. CASE \E c \in Calls : CallStep(c)
  BY <1>1, CallKeeps
<1>2. CASE Tick \/ Operator \/ UNCHANGED vars
  BY <1>2, OperatorKeeps
<1>3. CASE Tamper
  BY <1>3, TamperKeeps
<1> QED BY <1>1, <1>2, <1>3 DEF TamperNext, Next

LEMMA TamperInvariance == TamperSpec => []TamperInv
BY TamperInitially, TamperInvKept, PTL DEF TamperSpec

\* Only audit verify itself gives a verdict on rows that were read.
LEMMA VerdictIsGiven ==
    ASSUME [TamperNext]_vars, rowsRead # None,
           verdict' # verdict \/ rowsRead' # rowsRead
    PROVE  \E withAnchors \in BOOLEAN : Verify(withAnchors)
<1>1. UNCHANGED toolVars => FALSE
  BY DEF toolVars
<1>2. UNCHANGED vars => UNCHANGED toolVars
  BY DEF vars
<1>3. ASSUME NEW c \in Calls, CallStep(c) PROVE UNCHANGED toolVars
  BY <1>3 DEF CallStep, CaptureCheckedAt, BeginTransaction, AcquireChainLock,
              FetchChainTipHash, InsertRow, Commit, Throw, LoseConnection, Reap, LandOrphan
<1>4. Tick \/ Tamper => UNCHANGED toolVars
  BY DEF Tick, Tamper, EditRow, DeleteRow, TruncateTip, RewriteTip
<1>5. ~ReadRows /\ ~(ReadChainTip \/ AppendAnchor)
  BY DEF ReadRows, ReadChainTip, AppendAnchor
<1> QED BY <1>1, <1>2, <1>3, <1>4, <1>5 DEF TamperNext, Next, Operator

\* While an audit verify is walking the rows it has no verdict.
VerdictLast == rowsRead # None => verdict = "none"

LEMMA VerdictComesLast == TamperSpec => []VerdictLast
<1>1. Init => VerdictLast
  BY DEF Init, VerdictLast
<1>2. ASSUME VerdictLast, [TamperNext]_vars PROVE VerdictLast'
  <2>1. CASE verdict' = verdict /\ rowsRead' = rowsRead
    BY <1>2, <2>1 DEF VerdictLast
  <2>2. CASE rowsRead' = None
    BY <2>2 DEF VerdictLast
  <2>3. CASE verdict' = "none"
    BY <2>3 DEF VerdictLast
  <2>4. ASSUME rowsRead' # None, verdict' # "none", ~(verdict' = verdict /\ rowsRead' = rowsRead)
        PROVE  FALSE
    <3>1. UNCHANGED toolVars => FALSE
      BY <2>4 DEF toolVars
    <3>2. UNCHANGED vars => UNCHANGED toolVars
      BY DEF vars
    <3>3. ASSUME NEW c \in Calls, CallStep(c) PROVE UNCHANGED toolVars
      BY <3>3 DEF CallStep, CaptureCheckedAt, BeginTransaction, AcquireChainLock,
                  FetchChainTipHash, InsertRow, Commit, Throw, LoseConnection, Reap, LandOrphan
    <3>4. Tick \/ Tamper => UNCHANGED toolVars
      BY DEF Tick, Tamper, EditRow, DeleteRow, TruncateTip, RewriteTip
    <3>5. ~Operator
      BY <2>4 DEF Operator, ReadChainTip, AppendAnchor, ReadRows, Verify
    <3> QED BY <1>2, <3>1, <3>2, <3>3, <3>4, <3>5 DEF TamperNext, Next
  <2> QED BY <2>1, <2>2, <2>3, <2>4
<1> QED BY <1>1, <1>2, PTL DEF TamperSpec

\* A chain is one up to each of its rows.
LEMMA PrefixIntact ==
    ASSUME NEW rec, NEW n, RowsHold(rec, n), Intact(rec), NEW m \in Nat
    PROVE  Intact({ r \in rec : r.seq <= m })
<1> DEFINE Up == { r \in rec : r.seq <= m }
<1>1. Chained(Up) = { r \in Chained(rec) : r.seq <= m }
  BY DEF Chained
<1>2. \A r \in rec : r.seq \in Nat
  BY DEF RowsHold, Record
<1>3. Rising(Up)
  BY <1>1 DEF Intact, Rising
<1>4. ASSUME NEW r \in Chained(Up)
      PROVE  { s \in Chained(Up) : s.seq < r.seq } = { s \in Chained(rec) : s.seq < r.seq }
  <2>1. r \in rec /\ r.seq <= m
    BY <1>1 DEF Chained
  <2>2. ASSUME NEW s \in Chained(rec), s.seq < r.seq PROVE s \in Chained(Up)
    <3>1. s.seq \in Nat
      BY <1>2 DEF Chained
    <3> QED BY <1>1, <1>2, <2>1, <2>2, <3>1
  <2> QED BY <1>1, <2>2
<1>5. Broken(Up) = {}
  <2>1. ASSUME NEW r \in Chained(Up)
        PROVE  r.hash = Hash(r.body, r.at, TipHash({ s \in Chained(Up) : s.seq < r.seq }))
    <3>1. r.hash = Hash(r.body, r.at, TipHash({ s \in Chained(rec) : s.seq < r.seq }))
      BY <1>1 DEF Intact, Broken
    <3> QED BY <1>4, <3>1
  <2> QED BY <2>1 DEF Broken
<1> QED BY <1>3, <1>5 DEF Intact

\* What the walk of an audit verify finds intact, with no hash rewritten.
LEMMA IntactRead ==
    ASSUME TamperInv, rowsRead # None, Broken(rowsRead) = {}, rewrites = 0
    PROVE  rowsRead = { r \in Chained(recorded) : \E s \in rowsRead : r.seq <= s.seq }
<1>1. /\ ReadHolds(rowsRead, recorded, 0) /\ StoreHolds(checks, recorded, seq, 0)
      /\ RowsHold(recorded, seq) /\ seq \in Nat /\ Intact(recorded)
  BY DEF TamperInv, StoreHolds
<1>2. CASE rowsRead = {}
  BY <1>2
<1>3. CASE rowsRead # {}
  <2>1. ASSUME NEW y \in rowsRead PROVE y.seq \in Nat /\ y.seq <= seq
    <3>1. PICK r \in Chained(recorded) : LeftOf(y, r, 0)
      BY <1>1 DEF ReadHolds
    <3> QED BY <1>1, <3>1 DEF LeftOf, Chained, RowsHold, Record
  <2>2. PICK t : IsLast(rowsRead, t)
    BY <1>1, <1>3, <2>1, LastExists
  <2>3. PICK top \in Chained(recorded) : t.seq = top.seq /\ t.hash = top.hash
    BY <1>1, <2>2 DEF ReadHolds, LeftOf, IsLast
  <2>4. top.seq \in Nat /\ t \in rowsRead
    BY <2>1, <2>2, <2>3 DEF IsLast
  <2>5. Intact({ r \in recorded : r.seq <= top.seq })
    BY <1>1, <2>4, PrefixIntact
  <2>6. { y \in rowsRead : y.seq <= top.seq } = { r \in Chained(recorded) : r.seq <= top.seq }
    BY <1>1, <2>3, <2>4, <2>5, SameChain
  <2>7. { y \in rowsRead : y.seq <= top.seq } = rowsRead
    BY <2>2, <2>3 DEF IsLast
  <2>8. \A r \in Chained(recorded) : (\E s \in rowsRead : r.seq <= s.seq) <=> r.seq <= top.seq
    <3>1. \A r \in Chained(recorded) : r.seq \in Nat
      BY <1>1 DEF Chained, RowsHold, Record
    <3> QED BY <2>1, <2>2, <2>3, <2>4, <3>1 DEF IsLast
  <2> QED BY <2>6, <2>7, <2>8
<1> QED BY <1>2, <1>3

\* What passes the walk and the anchors, whatever was rewritten.
LEMMA AnchoredRead ==
    ASSUME TamperInv, rowsRead # None, Broken(rowsRead) = {}, Mismatched(rowsRead) = {},
           NEW a \in anchors, a.clean, NEW r \in rowsRead, r.seq <= a.seq
    PROVE  r \in recorded
<1>1. /\ ReadHolds(rowsRead, recorded, rewrites) /\ AnchorHolds(a, recorded)
      /\ RowsHold(recorded, seq) /\ seq \in Nat
  BY DEF TamperInv, StoreHolds
<1>2. PICK top \in Chained(recorded) : top.seq = a.seq /\ top.hash = a.hash
  BY <1>1 DEF AnchorHolds
<1>3. PICK t \in rowsRead : t.seq = a.seq /\ t.hash = a.hash
  BY DEF Mismatched
<1>4. Intact({ q \in recorded : q.seq <= top.seq })
  BY <1>1, <1>2 DEF AnchorHolds
<1>5. { y \in rowsRead : y.seq <= top.seq } = { q \in Chained(recorded) : q.seq <= top.seq }
  <2>1. t.seq = top.seq /\ t.hash = top.hash
    BY <1>2, <1>3
  <2> QED BY <1>1, <1>4, <2>1, SameChain
<1> QED BY <1>2, <1>5 DEF Chained

\* "intact" is only said of rows that are, from the first to the last one read, the
\* rows insertCheckRow committed: whatever rows somebody edits and whatever rows he
\* takes out from between others, as often as he likes and whatever is recorded
\* meanwhile, the walk finds it as long as he does not rewrite hashes.
THEOREM IntactIsAsRecorded == TamperSpec => IntactMeansAsRecorded
<1>1. ASSUME TamperInv, VerdictLast, [TamperNext]_vars PROVE IntactOnlyAsRecorded
  <2> SUFFICES ASSUME verdict' = "intact", rowsRead # None, rewrites = 0
               PROVE  rowsRead = { r \in Chained(recorded) : \E s \in rowsRead : r.seq <= s.seq }
    BY DEF IntactOnlyAsRecorded
  <2>1. verdict' # verdict
    BY <1>1 DEF VerdictLast
  <2>2. PICK withAnchors \in BOOLEAN : Verify(withAnchors)
    BY <1>1, <2>1, VerdictIsGiven
  <2>3. Broken(rowsRead) = {}
    BY <2>2 DEF Verify
  <2> QED BY <1>1, <2>3, IntactRead
<1>2. TamperSpec => [][IntactOnlyAsRecorded]_vars
  BY <1>1, TamperInvariance, VerdictComesLast, PTL DEF TamperSpec
<1> QED BY <1>2 DEF IntactMeansAsRecorded

\* With an anchor taken before anybody rewrote hashes, "anchored" is only said when
\* every row at or before that anchor is as insertCheckRow committed it: a rewrite
\* with matching hashes, which the walk cannot see, is found against the anchor.
THEOREM AnchoredIsAsRecorded == TamperSpec => AnchoredMeansAsRecorded
<1>1. ASSUME TamperInv, VerdictLast, [TamperNext]_vars PROVE AnchoredOnlyAsRecorded
  <2> SUFFICES ASSUME verdict' = "anchored", rowsRead # None,
                      NEW a \in anchors, NEW r \in rowsRead, a.clean, r.seq <= a.seq
               PROVE  r \in recorded
    BY DEF AnchoredOnlyAsRecorded
  <2>1. verdict' # verdict
    BY <1>1 DEF VerdictLast
  <2>2. PICK withAnchors \in BOOLEAN : Verify(withAnchors)
    BY <1>1, <2>1, VerdictIsGiven
  <2>3. Broken(rowsRead) = {} /\ Mismatched(rowsRead) = {}
    BY <2>2 DEF Verify
  <2> QED BY <1>1, <2>3, AnchoredRead
<1>2. TamperSpec => [][AnchoredOnlyAsRecorded]_vars
  BY <1>1, TamperInvariance, VerdictComesLast, PTL DEF TamperSpec
<1> QED BY <1>2 DEF AnchoredMeansAsRecorded

\* Rows nobody touched are the recorded ones.
Untouched == edits = 0 /\ rewrites = 0 => checks = recorded

LEMMA UntouchedStays == TamperInv /\ Untouched /\ [TamperNext]_vars => Untouched'
<1> SUFFICES ASSUME TamperInv, Untouched, [TamperNext]_vars, edits' = 0, rewrites' = 0
             PROVE  checks' = recorded'
  BY DEF Untouched
<1>1. edits \in Nat /\ rewrites \in Nat
  BY DEF TamperInv, StoreHolds
<1>2. CASE UNCHANGED <<checks, recorded, tamperVars>>
  BY <1>2 DEF Untouched, tamperVars
<1>3. ASSUME NEW c \in Calls, CallStep(c) PROVE checks' = recorded'
  <2>1. edits' = edits /\ rewrites' = rewrites
    BY <1>3 DEF CallStep, CaptureCheckedAt, BeginTransaction, AcquireChainLock,
                FetchChainTipHash, InsertRow, Commit, Throw, LoseConnection, Reap, LandOrphan,
                tamperVars
  <2>2. \/ UNCHANGED <<checks, recorded>>
        \/ checks' = checks \cup {row[c]} /\ recorded' = recorded \cup {row[c]}
    BY <1>3 DEF CallStep, CaptureCheckedAt, BeginTransaction, AcquireChainLock,
                FetchChainTipHash, InsertRow, Commit, Throw, LoseConnection, Reap, LandOrphan,
                Land
  <2> QED BY <2>1, <2>2 DEF Untouched
<1>4. CASE Tamper
  <2>1. edits' = edits + 1 \/ rewrites' = rewrites + 1
    BY <1>4 DEF Tamper, EditRow, DeleteRow, TruncateTip, RewriteTip
  <2> QED BY <1>1, <2>1
<1>5. CASE Tick \/ Operator
  BY <1>2, <1>5 DEF Tick, Operator, ReadChainTip, AppendAnchor, ReadRows, Verify
<1>6. CASE UNCHANGED vars
  BY <1>2, <1>6 DEF vars
<1> QED BY <1>3, <1>4, <1>5, <1>6 DEF TamperNext, Next

\* In a log only insertCheckRow writes, audit verify never finds a break, however
\* calls overlap, fail or lose their connections (checks.ts:232-257).
THEOREM ChainNeverBroken == TamperSpec => []NeverBroken
<1>1. Init => Untouched
  BY DEF Init, Untouched
<1>2. TamperInv /\ Untouched => NeverBroken
  BY DEF TamperInv, StoreHolds, Intact, Untouched, NeverBroken
<1> QED BY <1>1, <1>2, TamperInvariance, UntouchedStays, PTL DEF TamperSpec
=============================================================================

---------------------------- MODULE NumberLemmas ----------------------------
(***************************************************************************)
(* Least and greatest elements of sets of natural numbers, for the proofs  *)
(* that argue by a least counterexample or about a maximum; and a log that *)
(* is only appended to.                                                    *)
(***************************************************************************)
EXTENDS Integers, Sequences, FiniteSets, WellFoundedInduction, FiniteSetTheorems, TLAPS

\* A set of numbers that is not empty has a least one: what holds of a number
\* whenever it holds of those before it holds of all.
LEMMA LeastNumber ==
    ASSUME NEW T, T \subseteq Nat, T # {}
    PROVE  \E m \in T : \A n \in T : m <= n
<1>1. PICK m \in T : \A n \in T : ~ (<<n, m>> \in OpToRel(<, Nat))
  BY NatLessThanWellFounded, WFMin
<1>2. \A n \in T : ~ (n < m)
  BY <1>1 DEF OpToRel
<1> QED BY <1>2

\* A bounded set of numbers that is not empty has a greatest one.
LEMMA GreatestNumber ==
    ASSUME NEW T, T \subseteq Nat, T # {}, NEW b \in Nat, \A n \in T : n <= b
    PROVE  \E m \in T : \A n \in T : n <= m
<1> DEFINE U == { k \in Nat : \A n \in T : n <= k }
<1>1. U # {} /\ U \subseteq Nat
  OBVIOUS
<1> HIDE DEF U
<1>2. PICK m \in U : \A k \in U : m <= k
  BY <1>1, LeastNumber
<1>3. m \in Nat /\ \A n \in T : n <= m
  BY <1>2 DEF U
<1>4. m \in T
  <2>1. SUFFICES ASSUME m \notin T PROVE FALSE
    OBVIOUS
  <2>2. PICK t \in T : TRUE
    OBVIOUS
  <2>3. \A n \in T : n \in Nat /\ n <= m - 1
    BY <1>3, <2>1
  <2>4. m - 1 \in U
    BY <1>3, <2>2, <2>3 DEF U
  <2> QED BY <1>2, <1>3, <2>4
<1> QED BY <1>3, <1>4

\* A finite set of numbers is bounded.
LEMMA FiniteIsBounded ==
    ASSUME NEW T, T \subseteq Nat, IsFiniteSet(T)
    PROVE  \E b \in Nat : \A n \in T : n <= b
<1> DEFINE Bad == { U \in SUBSET T : ~ \E b \in Nat : \A n \in U : n <= b }
           Sizes == { Cardinality(U) : U \in Bad }
<1>1. \A U \in SUBSET T : IsFiniteSet(U) /\ Cardinality(U) \in Nat
  BY FS_Subset, FS_CardinalityType
<1>2. SUFFICES ASSUME T \in Bad PROVE FALSE
  OBVIOUS
<1>3. PICK k \in Sizes : \A j \in Sizes : k <= j
  <2>1. Sizes \subseteq Nat /\ Sizes # {}
    BY <1>1, <1>2
  <2> HIDE DEF Sizes
  <2> QED BY <2>1, LeastNumber
<1>4. PICK U \in Bad : Cardinality(U) = k
  OBVIOUS
<1>5. PICK x \in U : TRUE
  <2>1. U # {}
    <3>1. \A n \in {} : n <= 0
      OBVIOUS
    <3> QED BY <1>4, <3>1
  <2> QED BY <2>1
<1>6. Cardinality(U \ {x}) = Cardinality(U) - 1
  BY <1>1, <1>4, <1>5, FS_RemoveElement
<1>7. U \ {x} \notin Bad
  <2>1. SUFFICES ASSUME U \ {x} \in Bad PROVE FALSE
    OBVIOUS
  <2>2. Cardinality(U \ {x}) \in Sizes
    BY <2>1
  <2>3. k \in Nat
    BY <1>1, <1>4
  <2>4. k <= k - 1
    <3> HIDE DEF Sizes, Bad
    <3> QED BY <1>3, <1>4, <1>6, <2>2
  <2> QED BY <2>3, <2>4
<1>8. PICK b \in Nat : \A n \in U \ {x} : n <= b
  BY <1>4, <1>7
<1>9. x \in Nat
  BY <1>4, <1>5
<1>10. \A n \in U : n <= b + x /\ b + x \in Nat
  BY <1>4, <1>8, <1>9
<1> QED BY <1>4, <1>8, <1>9, <1>10

\* A definition by recursion along 1..n defines a function: each value is
\* made from the one before it.
LEMMA RecursionDefines ==
    ASSUME NEW D, NEW d \in D, NEW n \in Nat, NEW s \in [1..n -> [D -> D]]
    PROVE  \E at \in [0..n -> D] : at[0] = d /\ \A k \in 1..n : at[k] = s[k][at[k - 1]]
<1> DEFINE Good(m) == \E at \in [0..m -> D] :
                        at[0] = d /\ \A k \in 1..m : at[k] = s[k][at[k - 1]]
           Bad == { m \in 0..n : ~Good(m) }
<1>1. SUFFICES ASSUME n \in Bad PROVE FALSE
  OBVIOUS
<1>2. PICK m \in Bad : \A j \in Bad : m <= j
  <2>1. Bad \subseteq Nat /\ Bad # {}
    BY <1>1
  <2> HIDE DEF Bad
  <2> QED BY <2>1, LeastNumber
<1>3. Good(0)
  <2> DEFINE at == [k \in 0..0 |-> d]
  <2>1. at \in [0..0 -> D] /\ at[0] = d /\ 1..0 = {}
    OBVIOUS
  <2> HIDE DEF at
  <2> QED BY <2>1
<1>4. m \in 1..n
  <2>1. m \in 0..n /\ m # 0
    BY <1>2, <1>3
  <2> QED BY <2>1
<1>5. Good(m - 1)
  <2>1. m - 1 \in 0..n /\ m - 1 < m
    BY <1>4
  <2>2. m - 1 \notin Bad
    <3> HIDE DEF Bad
    <3> QED BY <1>2, <1>4, <2>1
  <2> QED BY <2>1, <2>2
<1>6. PICK at \in [0..(m - 1) -> D] :
        at[0] = d /\ \A k \in 1..(m - 1) : at[k] = s[k][at[k - 1]]
  BY <1>5
<1> DEFINE more == [k \in 0..m |-> IF k = m THEN s[m][at[m - 1]] ELSE at[k]]
<1>7. more \in [0..m -> D]
  BY <1>4, <1>6
<1>8. more[0] = d
  BY <1>4, <1>6
<1>9. ASSUME NEW k \in 1..m PROVE more[k] = s[k][more[k - 1]]
  <2>1. k \in 0..m /\ k - 1 \in 0..m /\ k - 1 # m
    BY <1>4
  <2>2. more[k - 1] = at[k - 1]
    BY <2>1
  <2>3. CASE k = m
    BY <2>1, <2>2, <2>3
  <2>4. CASE k # m
    <3>1. k \in 1..(m - 1) /\ more[k] = at[k]
      BY <1>4, <2>1, <2>4
    <3> QED BY <1>6, <2>2, <3>1
  <2> QED BY <2>3, <2>4
<1>10. Good(m)
  <2> HIDE DEF more
  <2> QED BY <1>7, <1>8, <1>9
<1> QED BY <1>2, <1>10

\* A set of numbers with 0 in it and each next number up to n holds 0..n.
LEMMA Along ==
    ASSUME NEW n \in Nat, NEW T, 0 \in T, \A k \in 1..n : k - 1 \in T => k \in T
    PROVE  0..n \subseteq T
<1> DEFINE Bad == { k \in 0..n : k \notin T }
<1>1. SUFFICES ASSUME Bad # {} PROVE FALSE
  OBVIOUS
<1>2. PICK m \in Bad : \A j \in Bad : m <= j
  <2>1. Bad \subseteq Nat
    OBVIOUS
  <2> HIDE DEF Bad
  <2> QED BY <1>1, <2>1, LeastNumber
<1>3. m \in 1..n
  <2>1. m \in 0..n /\ m # 0
    BY <1>2
  <2> QED BY <2>1
<1>4. m - 1 \in 0..n /\ m - 1 \notin Bad
  <2> HIDE DEF Bad
  <2> QED BY <1>2, <1>3
<1> QED BY <1>2, <1>3, <1>4

\* An entry with a larger token than all before it leaves a log in its order.
LEMMA AppendAscends ==
    ASSUME NEW E, NEW log \in Seq(E), NEW e \in E, \A x \in E : x.token \in Nat,
           \A i, j \in 1..Len(log) : i < j => log[i].token < log[j].token,
           \A i \in DOMAIN log : log[i].token < e.token
    PROVE  LET new == Append(log, e)
           IN  /\ new \in Seq(E)
               /\ Len(log) \in Nat
               /\ Len(new) = Len(log) + 1
               /\ \A i \in 1..Len(log) : new[i] = log[i] /\ log[i].token < e.token
               /\ new[Len(log) + 1] = e
               /\ \A i, j \in 1..Len(new) : i < j => new[i].token < new[j].token
<1> DEFINE new == Append(log, e)
<1>1. /\ new \in Seq(E) /\ Len(log) \in Nat /\ Len(new) = Len(log) + 1
      /\ \A i \in 1..Len(log) : new[i] = log[i]
      /\ new[Len(log) + 1] = e
  OBVIOUS
<1>2. \A i \in 1..Len(log) : log[i].token < e.token
  OBVIOUS
<1> HIDE DEF new
<1>3. \A i, j \in 1..Len(new) : i < j => new[i].token < new[j].token
  <2> SUFFICES ASSUME NEW i \in 1..Len(new), NEW j \in 1..Len(new), i < j
               PROVE  new[i].token < new[j].token
    OBVIOUS
  <2>1. i \in 1..Len(log)
    BY <1>1
  <2>2. CASE j \in 1..Len(log)
    BY <2>1, <2>2, <1>1
  <2>3. CASE j = Len(log) + 1
    BY <2>1, <2>3, <1>1, <1>2
  <2> QED BY <2>2, <2>3, <1>1
<1> QED BY <1>1, <1>2, <1>3 DEF new
=============================================================================

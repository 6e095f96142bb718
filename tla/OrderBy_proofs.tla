--------------------------- MODULE OrderBy_proofs ---------------------------
(***************************************************************************)
(* What ORDER BY returns: every row once, in order.  The induction over    *)
(* the rows takes a smallest set for which a fact fails, since the         *)
(* library's induction theorems have an operator as parameter.             *)
(***************************************************************************)
EXTENDS OrderBy, Sequences, FiniteSetTheorems, WellFoundedInduction, TLAPS

IsAscending(s, S) ==
    /\ s \in [1 .. Cardinality(S) -> S]
    /\ \A i, j \in 1 .. Cardinality(S) : i < j => s[i] < s[j]

(* Of a family of finite sets that is not empty some set has no smaller    *)
(* one in it.                                                              *)
Family(F, S) == F \subseteq SUBSET S /\ F # {}

LEMMA SmallestOf ==
    ASSUME NEW S, IsFiniteSet(S), NEW F, Family(F, S)
    PROVE  \E T \in F : \A U \in F : U \subseteq T => U = T
<1>1. F \subseteq FiniteSubsetsOf(S) /\ F # {}
  BY FS_Subset DEF FiniteSubsetsOf, Family
<1>2. PICK T \in F : \A U \in F : ~ (<<U, T>> \in StrictSubsetOrdering(S))
  BY <1>1, FS_StrictSubsetOrderingWellFounded, WFMin
<1>3. ASSUME NEW U \in F, U \subseteq T PROVE U = T
  <2>1. U \in SUBSET S /\ T \in SUBSET S
    BY <1>3 DEF Family
  <2>2. <<U, T>> \notin StrictSubsetOrdering(S)
    BY <1>2, <1>3
  <2> QED
    BY <1>3, <2>1, <2>2 DEF StrictSubsetOrdering
<1> QED
  BY <1>3

(* A finite set of numbers has a greatest.                                 *)
LEMMA Greatest ==
    ASSUME NEW S \in SUBSET Nat, IsFiniteSet(S), S # {}
    PROVE  \E m \in S : \A n \in S : n <= m
<1> DEFINE F == {T \in SUBSET S : T # {} /\ ~ \E m \in T : \A n \in T : n <= m}
<1> SUFFICES ASSUME F # {} PROVE FALSE
  OBVIOUS
<1>1. Family(F, S) /\ \A T \in F : IsFiniteSet(T)
  BY FS_Subset DEF Family
<1> HIDE DEF F
<1>2. PICK T \in F : \A U \in F : U \subseteq T => U = T
  BY <1>1, SmallestOf
<1>3. T \subseteq S /\ T # {} /\ ~ \E m \in T : \A n \in T : n <= m
  BY <1>2 DEF F
<1>4. PICK x \in T : TRUE
  BY <1>3
<1>5. CASE T = {x}
  BY <1>3, <1>5
<1>6. CASE T # {x}
  <2>1. T \ {x} \notin F
    BY <1>2, <1>4
  <2>2. T \ {x} # {} /\ T \ {x} \subseteq S
    BY <1>3, <1>4, <1>6
  <2>3. PICK m \in T \ {x} : \A n \in T \ {x} : n <= m
    BY <2>1, <2>2 DEF F
  <2>4. x \in Nat /\ m \in Nat /\ \A n \in T : n \in Nat
    BY <1>3, <1>4, <2>3
  <2>5. CASE x <= m
    BY <1>3, <2>3, <2>5
  <2>6. CASE m <= x
    <3>1. \A n \in T : n <= x
      BY <2>3, <2>4, <2>6
    <3> QED
      BY <1>3, <1>4, <3>1
  <2> QED
    BY <2>4, <2>5, <2>6
<1> QED
  BY <1>5, <1>6

(* Every finite set of numbers can be put in order: take the greatest away *)
(* and append it.                                                          *)
LEMMA AscendingExists ==
    ASSUME NEW S \in SUBSET Nat, IsFiniteSet(S)
    PROVE  \E s : IsAscending(s, S)
<1> DEFINE F == {T \in SUBSET S : ~ \E s : IsAscending(s, T)}
<1> SUFFICES ASSUME F # {} PROVE FALSE
  OBVIOUS
<1>1. Family(F, S) /\ \A T \in F : IsFiniteSet(T)
  BY FS_Subset DEF Family
<1> HIDE DEF F
<1>2. PICK T \in F : \A U \in F : U \subseteq T => U = T
  BY <1>1, SmallestOf
<1>3. T \subseteq S /\ IsFiniteSet(T) /\ ~ \E s : IsAscending(s, T)
  BY <1>1, <1>2 DEF F
<1>4. CASE T = {}
  <2>1. Cardinality(T) = 0
    BY <1>4, FS_EmptySet
  <2>2. [i \in 1 .. 0 |-> 0] \in [1 .. Cardinality(T) -> T]
    BY <2>1
  <2>3. IsAscending([i \in 1 .. 0 |-> 0], T)
    BY <2>1, <2>2 DEF IsAscending
  <2> QED
    BY <1>3, <2>3
<1>5. CASE T # {}
  <2>1. PICK m \in T : \A n \in T : n <= m
    BY <1>3, <1>5, Greatest
  <2> DEFINE U == T \ {m}
             k == Cardinality(T)
  <2>2. U \subseteq S /\ U # T /\ IsFiniteSet(U) /\ k \in Nat /\ Cardinality(U) = k - 1 /\ Cardinality(U) \in Nat
    BY <1>3, <2>1, FS_RemoveElement, FS_CardinalityType
  <2>3. U \notin F
    BY <1>2, <2>2
  <2>4. PICK s : IsAscending(s, U)
    BY <2>2, <2>3 DEF F
  <2>5. s \in [1 .. k - 1 -> U] /\ \A i, j \in 1 .. k - 1 : i < j => s[i] < s[j]
    BY <2>2, <2>4 DEF IsAscending
  <2> DEFINE t == [i \in 1 .. k |-> IF i = k THEN m ELSE s[i]]
  <2>6. \A i \in 1 .. k : i = k \/ i \in 1 .. k - 1
    BY <2>2
  <2>7. \A i \in 1 .. k - 1 : t[i] = s[i] /\ s[i] \in U /\ i \in 1 .. k
    BY <2>2, <2>5
  <2>8. k \in 1 .. k /\ t[k] = m
    BY <2>2
  <2>9. t \in [1 .. k -> T]
    BY <2>1, <2>5, <2>6, <2>7, <2>8
  <2>10. \A n \in U : n < m
    BY <1>3, <2>1
  <2> HIDE DEF t, k, U
  <2>11. ASSUME NEW i \in 1 .. k, NEW j \in 1 .. k, i < j PROVE t[i] < t[j]
    <3>1. i \in 1 .. k - 1
      BY <2>2, <2>11
    <3>2. CASE j \in 1 .. k - 1
      BY <2>5, <2>7, <2>11, <3>1, <3>2
    <3>3. CASE j = k
      BY <2>7, <2>8, <2>10, <3>1, <3>3
    <3> QED
      BY <2>6, <3>2, <3>3
  <2>12. IsAscending(t, T)
    BY <2>9, <2>11 DEF IsAscending, k
  <2> QED
    BY <1>3, <2>12
<1> QED
  BY <1>4, <1>5

(* The rows in order: a sequence of them, each of them, and each once.     *)
LEMMA AscendingRows ==
    ASSUME NEW S \in SUBSET Nat, IsFiniteSet(S)
    PROVE  /\ Cardinality(S) \in Nat
           /\ Ascending(S) \in [1 .. Cardinality(S) -> S]
           /\ \A i, j \in 1 .. Cardinality(S) : i < j => Ascending(S)[i] < Ascending(S)[j]
           /\ \A n \in S : \E i \in 1 .. Cardinality(S) : Ascending(S)[i] = n
<1>1. \E s \in [1 .. Cardinality(S) -> S] :
          \A i, j \in 1 .. Cardinality(S) : i < j => s[i] < s[j]
  BY AscendingExists DEF IsAscending
<1>2. /\ Ascending(S) \in [1 .. Cardinality(S) -> S]
      /\ \A i, j \in 1 .. Cardinality(S) : i < j => Ascending(S)[i] < Ascending(S)[j]
  BY <1>1, Zenon DEF Ascending
<1> DEFINE k == Cardinality(S)
           s == Ascending(S)
<1>3. k \in Nat /\ IsFiniteSet(1 .. k) /\ Cardinality(1 .. k) = k
  BY FS_CardinalityType, FS_Interval
<1>4. s \in [1 .. k -> S] /\ \A i, j \in 1 .. k : i < j => s[i] < s[j]
  BY <1>2
<1> HIDE DEF k, s
<1>5. ASSUME NEW i \in 1 .. k, NEW j \in 1 .. k, s[i] = s[j] PROVE i = j
  <2>3. s[i] \in S /\ s[j] \in S
    BY <1>4
  <2>4. i \in Nat /\ j \in Nat
    BY <1>3
  <2>1. i \in Nat /\ j \in Nat /\ s[i] \in Nat /\ s[j] \in Nat
    BY <2>3, <2>4, Zenon
  <2>2. ~ (i < j) /\ ~ (j < i)
    BY <1>4, <1>5, <2>1
  <2> QED
    BY <2>1, <2>2
<1>6. s \in Injection(1 .. k, S)
  BY <1>4, <1>5 DEF Injection, IsInjective
<1>7. s \in Surjection(1 .. k, S)
  BY <1>3, <1>6, FS_Injection DEF k
<1>8. \A n \in S : \E i \in 1 .. k : s[i] = n
  BY <1>7 DEF Surjection
<1> QED
  BY <1>2, <1>3, <1>8 DEF k, s

(* And in the other order: the ascending rows, read from the end.          *)
LEMMA DescendingRows ==
    ASSUME NEW S \in SUBSET Nat, IsFiniteSet(S)
    PROVE  /\ Cardinality(S) \in Nat
           /\ Descending(S) \in [1 .. Cardinality(S) -> S]
           /\ \A i, j \in 1 .. Cardinality(S) : i < j => Descending(S)[i] > Descending(S)[j]
<1> DEFINE k == Cardinality(S)
           s == Ascending(S)
           t == [i \in 1 .. k |-> s[k + 1 - i]]
<1>1. k \in Nat /\ s \in [1 .. k -> S] /\ \A i, j \in 1 .. k : i < j => s[i] < s[j]
  BY AscendingRows
<1> HIDE DEF k, s
<1>2. \A i \in 1 .. k : k + 1 - i \in 1 .. k
  BY <1>1
<1>3. t \in [1 .. k -> S] /\ \A i \in 1 .. k : t[i] = s[k + 1 - i]
  BY <1>1, <1>2
<1> HIDE DEF t
<1>4. ASSUME NEW i \in 1 .. k, NEW j \in 1 .. k, i < j PROVE t[i] > t[j]
  <2>1. k + 1 - j < k + 1 - i /\ k + 1 - j \in 1 .. k /\ k + 1 - i \in 1 .. k
    BY <1>1, <1>4
  <2>2. s[k + 1 - j] < s[k + 1 - i] /\ s[k + 1 - j] \in Nat /\ s[k + 1 - i] \in Nat
    BY <1>1, <2>1
  <2> QED
    BY <1>3, <2>2
<1>5. \E u \in [1 .. Cardinality(S) -> S] :
          \A i, j \in 1 .. Cardinality(S) : i < j => u[i] > u[j]
  BY <1>3, <1>4 DEF k
<1>6. /\ Descending(S) \in [1 .. Cardinality(S) -> S]
      /\ \A i, j \in 1 .. Cardinality(S) : i < j => Descending(S)[i] > Descending(S)[j]
  BY <1>5, Zenon DEF Descending
<1> QED
  BY <1>1, <1>6 DEF k

=============================================================================

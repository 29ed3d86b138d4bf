------------------------- MODULE SaltOutputProofs -------------------------
(***************************************************************************)
(* Proofs about check_salt_output.py, for all outputs that Salt commands   *)
(* print: the recursive walk and the recursive splitting compute what the  *)
(* reference says.                                                         *)
(*                                                                         *)
(* Induction goes by sets of naturals or of subsets in place of predicates *)
(* (NaturalsBySteps, SubsetsBySteps).  The recursive functions exist since *)
(* what they look at comes later (TotalDefined, TraverseDefined,           *)
(* LoaderDefined), and the sum that consolidate_results makes is the       *)
(* number of elements of a union of disjoint sets (TotalCounts).           *)
(***************************************************************************)
EXTENDS SaltOutput, FiniteSetTheorems, WellFoundedInduction, TLAPS

-----------------------------------------------------------------------------
(* Induction, with a set in place of the predicate *)

\* A set of naturals that has 0, and the successor of what it has, has them all.
LEMMA NaturalsBySteps ==
    ASSUME NEW S, 0 \in S, \A n \in Nat : n \in S => n + 1 \in S
    PROVE  \A n \in Nat : n \in S
<1> SUFFICES ASSUME Nat \ S # {}
             PROVE  FALSE
    OBVIOUS
<1>1. PICK x \in Nat \ S : \A y \in Nat \ S : <<y, x>> \notin OpToRel(<, Nat)
    BY NatLessThanWellFounded, WFMin
<1>2. \A y \in Nat \ S : ~(y < x)
    BY <1>1 DEF OpToRel
<1>3. x # 0 /\ x - 1 \in Nat /\ x - 1 \in S
    BY <1>2
<1> QED
    BY <1>3

\* A set of at most k + 1 elements has at most k without one of them.
LEMMA SmallerSet ==
    ASSUME NEW T, IsFiniteSet(T), NEW x \in T, NEW k \in Nat, Cardinality(T) <= k + 1
    PROVE  Cardinality(T \ {x}) <= k
<1>1. Cardinality(T) \in Nat
    BY FS_CardinalityType
<1>2. Cardinality(T \ {x}) = Cardinality(T) - 1
    BY FS_RemoveElement
<1> QED
    BY <1>1, <1>2

\* A set of no elements is empty.
LEMMA NoElements ==
    ASSUME NEW T, IsFiniteSet(T), Cardinality(T) <= 0
    PROVE  T = {}
<1>1. Cardinality(T) \in Nat
    BY FS_CardinalityType
<1>2. Cardinality(T) = 0
    BY <1>1
<1> QED
    BY <1>2, FS_EmptySet

\* So has a family of subsets that has the empty one, and every other one that it
\* has without any one of its elements.
LEMMA SubsetsBySteps ==
    ASSUME NEW S, IsFiniteSet(S), NEW F, {} \in F,
           \A T \in SUBSET S : T # {} /\ (\A x \in T : T \ {x} \in F) => T \in F
    PROVE  \A T \in SUBSET S : T \in F
<1> DEFINE K == {k \in Nat : \A T \in SUBSET S : Cardinality(T) <= k => T \in F}
<1>1. \A T \in SUBSET S : IsFiniteSet(T) /\ Cardinality(T) \in Nat
    BY FS_Subset, FS_CardinalityType
<1>2. 0 \in K
    <2>1. \A T \in SUBSET S : Cardinality(T) <= 0 => T = {}
        BY <1>1, NoElements
    <2> QED
        BY <2>1
<1>3. ASSUME NEW k \in Nat, k \in K
      PROVE  k + 1 \in K
    <2>1. ASSUME NEW T \in SUBSET S, Cardinality(T) <= k + 1, NEW x \in T
          PROVE  T \ {x} \in F
        <3>1. Cardinality(T \ {x}) <= k
            BY <1>1, <2>1, SmallerSet
        <3> QED
            BY <1>3, <3>1
    <2>2. \A T \in SUBSET S : Cardinality(T) <= k + 1 => T \in F
        BY <2>1
    <2> QED
        BY <2>2
<1>4. \A k \in Nat : k \in K
    <2> HIDE DEF K
    <2> QED
        BY <1>2, <1>3, NaturalsBySteps
<1> QED
    BY <1>1, <1>4

\* A finite set of naturals has a bound.
LEMMA NaturalsBound ==
    ASSUME NEW S \in SUBSET Nat, IsFiniteSet(S)
    PROVE  \E m \in Nat : \A n \in S : n <= m
<1> DEFINE F == {T \in SUBSET S : \E m \in Nat : \A n \in T : n <= m}
<1>1. {} \in F
    <2>1. 0 \in Nat /\ \A n \in {} : n <= 0
        OBVIOUS
    <2> QED
        BY <2>1
<1>2. ASSUME NEW T \in SUBSET S, T # {}, \A x \in T : T \ {x} \in F
      PROVE  T \in F
    <2>1. PICK x \in T : TRUE
        BY <1>2
    <2>2. PICK m \in Nat : \A n \in T \ {x} : n <= m
        BY <1>2
    <2>3. x \in Nat /\ m + x \in Nat /\ \A n \in T : n <= m + x
        BY <2>2
    <2> QED
        BY <2>3
<1> HIDE DEF F
<1>3. S \in F
    BY <1>1, <1>2, SubsetsBySteps
<1> QED
    BY <1>3 DEF F

-----------------------------------------------------------------------------
(* Sums: consolidate_results *)

\* The sum that consolidate_results makes of total_counter, over a part of f.
TotalBy(f, g, s) ==
    IF s = {} THEN 0
    ELSE f[CHOOSE x \in s : TRUE].total_counter + g[s \ {CHOOSE x \in s : TRUE}]

TotalOf(f, S) == CHOOSE g : g = [s \in SUBSET S |-> TotalBy(f, g, s)]

\* consolidate_results returns that sum, over all of f.
LEMMA TotalIs ==
    ASSUME NEW f
    PROVE  consolidate_results(f).total_counter = TotalOf(f, DOMAIN f)[DOMAIN f]
BY DEF consolidate_results, MapThenSumSet, MapThenFoldSet, TotalOf, TotalBy

\* The sum is what its recursion says, whichever element is taken first.
LEMMA TotalDefined ==
    ASSUME NEW f, NEW S, IsFiniteSet(S)
    PROVE  \A s \in SUBSET S : TotalOf(f, S)[s] = TotalBy(f, TotalOf(f, S), s)
<1> DEFINE Small(k) == {s \in SUBSET S : Cardinality(s) <= k}
           K == {k \in Nat : \E g : g = [s \in Small(k) |-> TotalBy(f, g, s)]}
<1>1. \A T \in SUBSET S : IsFiniteSet(T) /\ Cardinality(T) \in Nat
    BY FS_Subset, FS_CardinalityType
<1>2. 0 \in K
    <2>1. \A T \in Small(0) : T = {}
        BY <1>1, NoElements
    <2>2. [s \in Small(0) |-> 0] = [s \in Small(0) |-> TotalBy(f, [t \in Small(0) |-> 0], s)]
        BY <2>1 DEF TotalBy
    <2> QED
        BY <2>2
<1>3. ASSUME NEW k \in Nat, k \in K
      PROVE  k + 1 \in K
    <2>1. PICK g : g = [s \in Small(k) |-> TotalBy(f, g, s)]
        BY <1>3
    <2> DEFINE h == [s \in Small(k + 1) |-> TotalBy(f, g, s)]
    <2>2. ASSUME NEW s \in Small(k + 1), s # {}
          PROVE  s \ {CHOOSE x \in s : TRUE} \in Small(k)
        <3> DEFINE x == CHOOSE x \in s : TRUE
        <3>1. x \in s
            BY <2>2
        <3> HIDE DEF x
        <3>2. IsFiniteSet(s) /\ Cardinality(s) <= k + 1 /\ s \in SUBSET S
            BY <1>1, <2>2
        <3>3. Cardinality(s \ {x}) <= k
            BY <3>1, <3>2, SmallerSet
        <3>4. s \ {x} \in Small(k)
            BY <3>2, <3>3
        <3> QED
            BY <3>4 DEF x
    <2>3. \A s \in Small(k) : s \in Small(k + 1) /\ h[s] = g[s]
        <3>1. \A s \in Small(k) : s \in Small(k + 1)
            <4> SUFFICES ASSUME NEW s \in SUBSET S, Cardinality(s) <= k
                         PROVE  Cardinality(s) <= k + 1
                OBVIOUS
            <4>1. Cardinality(s) \in Nat
                BY <1>1
            <4> QED
                BY <4>1
        <3>2. \A s \in Small(k) : g[s] = TotalBy(f, g, s)
            <4> HIDE DEF Small
            <4> QED
                BY <2>1
        <3> HIDE DEF Small
        <3> QED
            BY <3>1, <3>2
    <2> HIDE DEF Small
    <2>4. \A s \in Small(k + 1) : TotalBy(f, g, s) = TotalBy(f, h, s)
        <3> HIDE DEF h
        <3> QED
            BY <2>2, <2>3 DEF TotalBy
    <2>5. h = [s \in Small(k + 1) |-> TotalBy(f, h, s)]
        BY <2>4
    <2>6. \E t : t = [s \in Small(k + 1) |-> TotalBy(f, t, s)]
        <3> HIDE DEF h
        <3> QED
            BY <2>5
    <2>7. k + 1 \in Nat
        OBVIOUS
    <2> QED
        BY <2>6, <2>7
<1>4. \A k \in Nat : k \in K
    <2> HIDE DEF K
    <2> QED
        BY <1>2, <1>3, NaturalsBySteps
<1>5. Cardinality(S) \in Nat /\ Small(Cardinality(S)) = SUBSET S
    BY <1>1, FS_Subset
<1>6. \E g : g = [s \in SUBSET S |-> TotalBy(f, g, s)]
    BY <1>4, <1>5
<1>7. TotalOf(f, S) = CHOOSE g : g = [s \in SUBSET S |-> TotalBy(f, g, s)]
    BY DEF TotalOf
<1>8. TotalOf(f, S) = [s \in SUBSET S |-> TotalBy(f, TotalOf(f, S), s)]
    BY <1>6, <1>7
<1> QED
    BY <1>8

\* The elements of two sets that share none add up.
LEMMA DisjointSum ==
    ASSUME NEW S, IsFiniteSet(S), NEW T, IsFiniteSet(T), S \cap T = {}
    PROVE  IsFiniteSet(S \cup T) /\ Cardinality(S \cup T) = Cardinality(S) + Cardinality(T)
<1>1. Cardinality(S) \in Nat /\ Cardinality(T) \in Nat
    BY FS_CardinalityType
<1>2. /\ IsFiniteSet(S \cup T)
      /\ Cardinality(S \cup T) = Cardinality(S) + Cardinality(T) - Cardinality(S \cap T)
    BY FS_Union
<1>3. Cardinality(S \cap T) = 0
    BY FS_EmptySet
<1> QED
    BY <1>1, <1>2, <1>3

\* Finitely many finite sets have finitely many elements together.
LEMMA FiniteUnion ==
    ASSUME NEW S, IsFiniteSet(S), NEW R, \A i \in S : IsFiniteSet(R[i])
    PROVE  IsFiniteSet(UNION {R[i] : i \in S})
<1> DEFINE All(s) == UNION {R[i] : i \in s}
           F == {s \in SUBSET S : IsFiniteSet(All(s))}
<1>1. {} \in F
    <2>1. All({}) = {}
        OBVIOUS
    <2> QED
        BY <2>1, FS_EmptySet
<1>2. ASSUME NEW s \in SUBSET S, s # {}, \A x \in s : s \ {x} \in F
      PROVE  s \in F
    <2>1. PICK x \in s : TRUE
        BY <1>2
    <2>2. All(s) = R[x] \cup All(s \ {x})
        BY <2>1
    <2>3. IsFiniteSet(R[x]) /\ IsFiniteSet(All(s \ {x}))
        BY <1>2, <2>1
    <2> HIDE DEF All
    <2>4. IsFiniteSet(All(s))
        BY <2>2, <2>3, FS_Union
    <2> QED
        BY <1>2, <2>4
<1> HIDE DEF F
<1>3. \A s \in SUBSET S : s \in F
    BY <1>1, <1>2, SubsetsBySteps
<1> QED
    BY <1>3 DEF F

\* The total is the size of what is counted, if nothing is counted twice.
LEMMA TotalCounts ==
    ASSUME NEW f, NEW S, S = DOMAIN f, IsFiniteSet(S), NEW R,
           \A i \in S : /\ IsFiniteSet(R[i])
                               /\ f[i].total_counter = Cardinality(R[i]),
           \A i, j \in S : i # j => R[i] \cap R[j] = {}
    PROVE  consolidate_results(f).total_counter = Cardinality(UNION {R[i] : i \in S})
<1>1. \A s \in SUBSET S : TotalOf(f, S)[s] = TotalBy(f, TotalOf(f, S), s)
    BY TotalDefined
<1> DEFINE t == TotalOf(f, S)
           All(s) == UNION {R[i] : i \in s}
           F == {s \in SUBSET S : IsFiniteSet(All(s)) /\ t[s] = Cardinality(All(s))}
<1>2. {} \in F
    <2>1. All({}) = {}
        OBVIOUS
    <2>2. TotalBy(f, t, {}) = 0 /\ {} \in SUBSET S
        BY DEF TotalBy
    <2>3. t[{}] = 0
        <3> HIDE DEF t
        <3> QED
            BY <1>1, <2>2 DEF t
    <2> QED
        BY <2>1, <2>3, FS_EmptySet
<1>3. ASSUME NEW s \in SUBSET S, s # {}, \A x \in s : s \ {x} \in F
      PROVE  s \in F
    <2> DEFINE x == CHOOSE x \in s : TRUE
    <2>1. x \in s /\ x \in S
        BY <1>3
    <2>2. t[s] = f[x].total_counter + t[s \ {x}]
        BY <1>1, <1>3 DEF TotalBy
    <2>3. IsFiniteSet(All(s \ {x})) /\ t[s \ {x}] = Cardinality(All(s \ {x}))
        BY <1>3, <2>1
    <2>4. All(s) = R[x] \cup All(s \ {x})
        BY <2>1
    <2>5. R[x] \cap All(s \ {x}) = {}
        BY <2>1
    <2>6. IsFiniteSet(R[x]) /\ f[x].total_counter = Cardinality(R[x])
        BY <2>1
    <2> HIDE DEF x, All, t
    <2>7. /\ IsFiniteSet(All(s))
          /\ Cardinality(All(s)) = Cardinality(R[x]) + Cardinality(All(s \ {x}))
        <3> DEFINE A == R[x]
                   B == All(s \ {x})
        <3>1. IsFiniteSet(A) /\ IsFiniteSet(B) /\ A \cap B = {}
            BY <2>3, <2>5, <2>6
        <3>2. All(s) = A \cup B
            BY <2>4
        <3> HIDE DEF A, B
        <3>3. IsFiniteSet(A \cup B) /\ Cardinality(A \cup B) = Cardinality(A) + Cardinality(B)
            BY <3>1, DisjointSum
        <3> QED
            BY <3>2, <3>3 DEF A, B
    <2>8. t[s] = Cardinality(All(s))
        BY <2>2, <2>3, <2>6, <2>7
    <2> QED
        BY <1>3, <2>7, <2>8
<1> HIDE DEF F
<1>4. \A s \in SUBSET S : s \in F
    BY <1>2, <1>3, SubsetsBySteps
<1>5. t[S] = Cardinality(All(S))
    BY <1>4 DEF F
<1>6. consolidate_results(f).total_counter = t[S]
    BY TotalIs
<1> QED
    BY <1>5, <1>6
-----------------------------------------------------------------------------
(* Least elements, and induction from above *)

\* Naturals have a least one among them.
LEMMA LeastNatural ==
    ASSUME NEW S \in SUBSET Nat, S # {}
    PROVE  \E x \in S : \A y \in S : x <= y
<1>1. PICK x \in S : \A y \in S : <<y, x>> \notin OpToRel(<, Nat)
    BY NatLessThanWellFounded, WFMin
<1>2. \A y \in S : ~(y < x)
    BY <1>1 DEF OpToRel
<1>3. \A y \in S : y \in Nat /\ x \in Nat
    OBVIOUS
<1>4. \A y \in S : x <= y
    BY <1>2, <1>3
<1> QED
    BY <1>4

\* A set of finitely many naturals is in S, if each of them is in S as soon as
\* all larger ones are.
LEMMA NaturalsDown ==
    ASSUME NEW D \in SUBSET Nat, IsFiniteSet(D), NEW S,
           \A n \in D : (\A c \in D : c > n => c \in S) => n \in S
    PROVE  \A n \in D : n \in S
<1>1. PICK m \in Nat : \A n \in D : n <= m
    BY NaturalsBound
<1> DEFINE K == {k \in Nat : \A n \in D : n + k > m => n \in S}
<1>2. 0 \in K
    BY <1>1
<1>3. ASSUME NEW k \in Nat, k \in K
      PROVE  k + 1 \in K
    <2>1. ASSUME NEW n \in D, n + (k + 1) > m
          PROVE  n \in S
        <3>1. \A c \in D : c > n => c + k > m
            BY <1>1, <2>1
        <3>2. \A c \in D : c > n => c \in S
            BY <1>3, <3>1
        <3> QED
            BY <3>2
    <2> QED
        BY <2>1
<1>4. \A k \in Nat : k \in K
    <2> HIDE DEF K
    <2> QED
        BY <1>2, <1>3, NaturalsBySteps
<1>5. m + 1 \in K
    BY <1>4
<1> QED
    BY <1>5

-----------------------------------------------------------------------------
(* Values: traverse_output_data *)

\* Values are numbered downwards.
LEMMA NodeNumbers ==
    \A n \in Nodes : /\ n \in Nat /\ n > 0
                    /\ \A c \in Below[n] : c \in Nodes /\ c \in Nat /\ c > n
<1>1. ASSUME NEW n \in Nodes
      PROVE  n \in Nat /\ n > 0
    BY NodesAssumption
<1>2. ASSUME NEW n \in Nodes, NEW c \in Below[n]
      PROVE  c \in Nodes /\ c > n
    BY NodesAssumption
<1> QED
    BY <1>1, <1>2

\* The body of traverse_output_data.
TraverseBy(g, n) ==
    IF ResultKey[n] # "absent" THEN describe_result(n)
    ELSE consolidate_results([c \in Below[n] |-> g[c]])

\* traverse_output_data is what its recursion says, on every value.
LEMMA TraverseDefined ==
    \A n \in Nodes : traverse_output_data[n] = TraverseBy(traverse_output_data, n)
<1>1. PICK m \in Nat : \A n \in Nodes : n <= m
    BY NodesAssumption, NaturalsBound
<1> DEFINE Above(k) == {n \in Nodes : n + k > m}
           K == {k \in Nat : \E g : g = [n \in Above(k) |-> TraverseBy(g, n)]}
<1>2. 0 \in K
    <2>1. Above(0) = {}
        BY <1>1, NodeNumbers
    <2> DEFINE g == [n \in {} |-> 0]
    <2>2. g = [n \in Above(0) |-> TraverseBy(g, n)]
        BY <2>1
    <2> QED
        BY <2>2
<1>3. ASSUME NEW k \in Nat, k \in K
      PROVE  k + 1 \in K
    <2>1. PICK g : g = [n \in Above(k) |-> TraverseBy(g, n)]
        BY <1>3
    <2> DEFINE h == [n \in Above(k + 1) |-> TraverseBy(g, n)]
    <2>2. \A n \in Above(k + 1) : Below[n] \subseteq Above(k)
        BY NodeNumbers
    <2>3. Above(k) \subseteq Above(k + 1)
        BY NodeNumbers
    <2> HIDE DEF Above
    <2>4. \A n \in Above(k) : h[n] = g[n]
        BY <2>1, <2>3
    <2>5. ASSUME NEW n \in Above(k + 1)
          PROVE  TraverseBy(g, n) = TraverseBy(h, n)
        <3>1. [c \in Below[n] |-> g[c]] = [c \in Below[n] |-> h[c]]
            <4> HIDE DEF h
            <4> QED
                BY <2>2, <2>4
        <3> HIDE DEF h
        <3> QED
            BY <3>1 DEF TraverseBy
    <2>6. h = [n \in Above(k + 1) |-> TraverseBy(h, n)]
        BY <2>5
    <2>7. \E t : t = [n \in Above(k + 1) |-> TraverseBy(t, n)]
        <3> HIDE DEF h
        <3> QED
            BY <2>6
    <2>8. k + 1 \in Nat
        OBVIOUS
    <2> QED
        BY <2>7, <2>8
<1>4. \A k \in Nat : k \in K
    <2> HIDE DEF K
    <2> QED
        BY <1>2, <1>3, NaturalsBySteps
<1>5. Above(m) = Nodes
    BY NodeNumbers
<1>6. \E g : g = [n \in Nodes |-> TraverseBy(g, n)]
    BY <1>4, <1>5
<1>7. traverse_output_data = CHOOSE t : t = [n \in Nodes |-> TraverseBy(t, n)]
    BY DEF traverse_output_data, TraverseBy
<1>8. traverse_output_data = [n \in Nodes |-> TraverseBy(traverse_output_data, n)]
    BY <1>6, <1>7
<1> QED
    BY <1>8
-----------------------------------------------------------------------------
(* Values: ResultsIn *)

\* A set of values with all that is below those of them that are no results.
Closed(T) == \A n \in T : ResultKey[n] = "absent" => Below[n] \subseteq T

\* The least of them that has v: v, and what is looked at below it.
LookedAt(v) == {n \in Nodes : \A T \in SUBSET Nodes : Closed(T) /\ v \in T => n \in T}

\* The reference of a value: the results among what is looked at.
LEMMA ResultsLookedAt ==
    ASSUME NEW v \in Nodes
    PROVE  ResultsIn[v] = {n \in LookedAt(v) : ResultKey[n] # "absent"}
BY DEF ResultsIn, LookedAt, Closed

\* What is looked at is closed, and has the value itself.
LEMMA LookedAtClosed ==
    ASSUME NEW v \in Nodes
    PROVE  /\ v \in LookedAt(v)
           /\ LookedAt(v) \in SUBSET Nodes
           /\ Closed(LookedAt(v))
<1>1. ASSUME NEW n \in LookedAt(v), ResultKey[n] = "absent", NEW c \in Below[n]
      PROVE  c \in LookedAt(v)
    <2>1. c \in Nodes /\ n \in Nodes
        BY NodeNumbers DEF LookedAt
    <2>2. ASSUME NEW T \in SUBSET Nodes, Closed(T), v \in T
          PROVE  c \in T
        <3>1. n \in T
            BY <2>2 DEF LookedAt
        <3> QED
            BY <1>1, <2>2, <3>1 DEF Closed
    <2> QED
        BY <2>1, <2>2 DEF LookedAt
<1>2. Closed(LookedAt(v))
    BY <1>1 DEF Closed
<1> QED
    BY <1>2 DEF LookedAt

\* Nothing else is looked at.
LEMMA LookedAtLeast ==
    ASSUME NEW v \in Nodes, NEW T \in SUBSET Nodes, Closed(T), v \in T
    PROVE  LookedAt(v) \subseteq T
BY DEF LookedAt

\* A result is all there is of it.
LEMMA ResultsInResult ==
    ASSUME NEW v \in Nodes, ResultKey[v] # "absent"
    PROVE  ResultsIn[v] = {v}
<1>1. Closed({v})
    BY DEF Closed
<1>2. LookedAt(v) = {v}
    BY <1>1, LookedAtClosed, LookedAtLeast
<1> QED
    BY <1>2, ResultsLookedAt

\* Of another value there is what is below it.
LEMMA ResultsInOther ==
    ASSUME NEW v \in Nodes, ResultKey[v] = "absent"
    PROVE  ResultsIn[v] = UNION {ResultsIn[c] : c \in Below[v]}
<1> DEFINE T == {v} \cup UNION {LookedAt(c) : c \in Below[v]}
<1>1. \A c \in Below[v] : c \in Nodes
    BY NodeNumbers
<1>2. T \in SUBSET Nodes /\ v \in T
    BY <1>1, LookedAtClosed
<1>3. Closed(T)
    <2> SUFFICES ASSUME NEW n \in T, ResultKey[n] = "absent"
                 PROVE  Below[n] \subseteq T
        BY DEF Closed
    <2>1. CASE n = v
        BY <1>1, <2>1, LookedAtClosed
    <2>2. ASSUME NEW c \in Below[v], n \in LookedAt(c)
          PROVE  Below[n] \subseteq T
        <3>1. Below[n] \subseteq LookedAt(c)
            BY <1>1, <2>2, LookedAtClosed DEF Closed
        <3> QED
            BY <3>1
    <2> QED
        BY <2>1, <2>2
<1>4. LookedAt(v) \subseteq T
    BY <1>2, <1>3, LookedAtLeast
<1>5. ASSUME NEW c \in Below[v]
      PROVE  LookedAt(c) \subseteq LookedAt(v)
    <2>1. c \in LookedAt(v)
        BY LookedAtClosed DEF Closed
    <2> QED
        BY <1>1, <2>1, LookedAtClosed, LookedAtLeast
<1>6. \A c \in Below[v] : ResultsIn[c] = {n \in LookedAt(c) : ResultKey[n] # "absent"}
    BY <1>1, ResultsLookedAt
<1>7. ResultsIn[v] = {n \in LookedAt(v) : ResultKey[n] # "absent"}
    BY ResultsLookedAt
<1>8. ASSUME NEW n \in ResultsIn[v]
      PROVE  \E c \in Below[v] : n \in ResultsIn[c]
    <2>1. n \in T /\ n # v /\ ResultKey[n] # "absent"
        BY <1>4, <1>7
    <2> QED
        BY <1>6, <2>1
<1>9. ASSUME NEW c \in Below[v], NEW n \in ResultsIn[c]
      PROVE  n \in ResultsIn[v]
    BY <1>5, <1>6, <1>7
<1> QED
    BY <1>8, <1>9

\* What is looked at below a value has a number of its own or larger, and is in
\* another value that is looked at.
LEMMA LookedAtAbove ==
    ASSUME NEW v \in Nodes, NEW n \in LookedAt(v)
    PROVE  /\ n >= v
           /\ n # v => \E p \in LookedAt(v) : n \in Below[p]
<1>1. n >= v
    <2> DEFINE T == {x \in Nodes : x >= v}
    <2>1. Closed(T)
        BY NodeNumbers DEF Closed
    <2>2. v \in T
        BY NodeNumbers
    <2>3. T \in SUBSET Nodes
        OBVIOUS
    <2> HIDE DEF T
    <2>4. n \in T
        BY <2>1, <2>2, <2>3, LookedAtLeast
    <2> QED
        BY <2>4 DEF T
<1>2. ASSUME n # v, \A p \in LookedAt(v) : n \notin Below[p]
      PROVE  FALSE
    <2> DEFINE T == LookedAt(v) \ {n}
    <2>1. Closed(T)
        BY <1>2, LookedAtClosed DEF Closed
    <2>2. v \in T /\ T \in SUBSET Nodes
        BY <1>2, LookedAtClosed
    <2> HIDE DEF T
    <2>3. n \in T
        BY <2>1, <2>2, LookedAtLeast
    <2> QED
        BY <2>3 DEF T
<1> QED
    BY <1>1, <1>2

\* Values that are next to each other have nothing in common.
LEMMA ResultsInDisjoint ==
    ASSUME NEW v \in Nodes, NEW c \in Below[v], NEW d \in Below[v], c # d
    PROVE  ResultsIn[c] \cap ResultsIn[d] = {}
<1> DEFINE S == LookedAt(c) \cap LookedAt(d)
<1>1. /\ c \in Nodes /\ d \in Nodes
      /\ c \in Nat /\ d \in Nat /\ v \in Nat
      /\ v < c /\ v < d
    BY NodeNumbers
<1>2. S \in SUBSET Nodes /\ S \in SUBSET Nat
    BY <1>1, NodeNumbers, LookedAtClosed
<1>3. ASSUME NEW x \in S, NEW a \in Below[v], NEW b \in Below[v], a # b,
             S = LookedAt(a) \cap LookedAt(b), x = a
      PROVE  FALSE
    <2>1. a \in Nodes /\ b \in Nodes /\ a \in Nat /\ b \in Nat /\ v \in Nat /\ v < b
        BY <1>3, NodeNumbers
    <2>2. PICK p \in LookedAt(b) : a \in Below[p]
        BY <1>3, <2>1, LookedAtAbove
    <2>3. p \in Nodes
        BY <2>1, LookedAtClosed
    <2>4. p = v
        BY <2>2, <2>3, TreeAssumption
    <2>5. v >= b
        BY <2>1, <2>2, <2>4, LookedAtAbove
    <2> QED
        BY <2>1, <2>5
<1>4. ASSUME S # {}
      PROVE  FALSE
    <2>1. PICK x \in S : \A y \in S : x <= y
        BY <1>2, <1>4, LeastNatural
    <2>2. x # c /\ x # d
        BY <1>3
    <2>3. PICK p \in LookedAt(c) : x \in Below[p]
        BY <1>1, <2>2, LookedAtAbove
    <2>4. PICK q \in LookedAt(d) : x \in Below[q]
        BY <1>1, <2>2, LookedAtAbove
    <2>5. p \in Nodes /\ q \in Nodes
        BY <1>1, LookedAtClosed
    <2>6. p = q
        BY <2>3, <2>4, <2>5, TreeAssumption
    <2>7. p \in S /\ p < x /\ p \in Nat /\ x \in Nat
        BY <2>3, <2>4, <2>5, <2>6, NodeNumbers
    <2> QED
        BY <2>1, <2>7
<1> QED
    BY <1>1, <1>4, ResultsLookedAt
-----------------------------------------------------------------------------
(* Verdicts *)

\* The results that succeed.
Successes == {n \in Nodes : Succeeds(n)}

\* x is what consolidate_results makes of the results R, if those that succeed
\* are the ones in G.
Describes(x, R, G) ==
    /\ IsFiniteSet(R)
    /\ x.total_counter = Cardinality(R)
    /\ x.overall_result <=> R \subseteq G
    /\ x.raised => ~(R \subseteq G)

\* Results of different parts add up.
LEMMA ConsolidateDescribes ==
    ASSUME NEW f, NEW S, S = DOMAIN f, IsFiniteSet(S), NEW R, NEW G,
           \A i \in S : Describes(f[i], R[i], G),
           \A i, j \in S : i # j => R[i] \cap R[j] = {}
    PROVE  Describes(consolidate_results(f), UNION {R[i] : i \in S}, G)
<1> DEFINE All == UNION {R[i] : i \in S}
           all == consolidate_results(f)
<1>1. all.total_counter = Cardinality(All) /\ IsFiniteSet(All)
    <2>1. \A i \in S : /\ IsFiniteSet(R[i])
                      /\ f[i].total_counter = Cardinality(R[i])
        BY DEF Describes
    <2>2. all.total_counter = Cardinality(All)
        BY <2>1, TotalCounts
    <2>3. IsFiniteSet(All)
        BY <2>1, FiniteUnion
    <2> QED
        BY <2>2, <2>3
<1>2. all.overall_result <=> \A i \in S : f[i].overall_result
    BY DEF consolidate_results
<1>3. all.raised <=> \E i \in S : f[i].raised
    BY DEF consolidate_results
<1>4. All \subseteq G <=> \A i \in S : R[i] \subseteq G
    OBVIOUS
<1>5. \A i \in S : f[i].overall_result <=> R[i] \subseteq G
    BY DEF Describes
<1>6. \A i \in S : f[i].raised => ~(R[i] \subseteq G)
    BY DEF Describes
<1> HIDE DEF All, all
<1>7. all.overall_result <=> All \subseteq G
    BY <1>2, <1>4, <1>5
<1>8. all.raised => ~(All \subseteq G)
    BY <1>3, <1>4, <1>6
<1>9. Describes(all, All, G)
    BY <1>1, <1>7, <1>8 DEF Describes
<1> QED
    BY <1>9 DEF All, all

\* One result in one place.
LEMMA ResultDescribes ==
    ASSUME NEW n \in Nodes, ResultKey[n] # "absent"
    PROVE  Describes(describe_result(n), {n}, Successes)
<1> DEFINE x == describe_result(n)
<1>1. IsFiniteSet({n}) /\ Cardinality({n}) = 1
    BY FS_Singleton
<1>2. x.total_counter = 1
    BY DEF describe_result
<1>3. x.overall_result <=> Succeeds(n)
    BY DEF describe_result, Succeeds
<1>4. x.raised => ResultKey[n] = "False"
    BY DEF describe_result
<1>5. {n} \subseteq Successes <=> Succeeds(n)
    BY DEF Successes
<1>6. ResultKey[n] = "False" => ~Succeeds(n)
    BY DEF Succeeds
<1> HIDE DEF x
<1>7. Describes(x, {n}, Successes)
    BY <1>1, <1>2, <1>3, <1>4, <1>5, <1>6 DEF Describes
<1> QED
    BY <1>7 DEF x

\* traverse_output_data tells of every value what the results in it are.
LEMMA TraverseDescribes ==
    \A n \in Nodes : Describes(traverse_output_data[n], ResultsIn[n], Successes)
<1> DEFINE t == traverse_output_data
           S == {n \in Nodes : Describes(t[n], ResultsIn[n], Successes)}
<1>1. ASSUME NEW n \in Nodes, \A c \in Nodes : c > n => c \in S
      PROVE  Describes(t[n], ResultsIn[n], Successes)
    <2>1. CASE ResultKey[n] # "absent"
        <3>1. t[n] = describe_result(n) /\ ResultsIn[n] = {n}
            BY <2>1, TraverseDefined, ResultsInResult DEF TraverseBy
        <3> QED
            BY <2>1, <3>1, ResultDescribes
    <2>2. CASE ResultKey[n] = "absent"
        <3> DEFINE f == [c \in Below[n] |-> t[c]]
                   D == Below[n]
        <3>1. t[n] = consolidate_results(f)
            BY <2>2, TraverseDefined DEF TraverseBy
        <3>2. ResultsIn[n] = UNION {ResultsIn[c] : c \in D}
            BY <2>2, ResultsInOther
        <3>3. D = DOMAIN f
            OBVIOUS
        <3>4. IsFiniteSet(D)
            <4>1. D \in SUBSET Nodes
                BY NodeNumbers
            <4> QED
                BY <4>1, NodesAssumption, FS_Subset
        <3>5. \A c \in D : Describes(f[c], ResultsIn[c], Successes)
            BY <1>1, NodeNumbers
        <3>6. \A c, d \in D : c # d => ResultsIn[c] \cap ResultsIn[d] = {}
            BY ResultsInDisjoint
        <3> HIDE DEF f, D
        <3>7. Describes(consolidate_results(f), UNION {ResultsIn[c] : c \in D}, Successes)
            BY <3>3, <3>4, <3>5, <3>6, ConsolidateDescribes
        <3> QED
            BY <3>1, <3>2, <3>7
    <2> QED
        BY <2>1, <2>2
<1>2. Nodes \in SUBSET Nat /\ IsFiniteSet(Nodes)
    BY NodeNumbers, NodesAssumption
<1>3. \A n \in Nodes : n \in S
    <2>1. \A n \in Nodes : (\A c \in Nodes : c > n => c \in S) => n \in S
        BY <1>1
    <2> HIDE DEF S
    <2> QED
        BY <1>2, <2>1, NaturalsDown
<1> QED
    BY <1>3
-----------------------------------------------------------------------------
(* Lines *)

\* The results in what is printed from line b to line e.
Printed(stream, b, e) ==
    {r \in (b .. e) \X Nodes : /\ stream[r[1]].node # 0
                               /\ r[2] \in ResultsIn[stream[r[1]].node]}

\* The same, at any line.
SuccessesPrinted == Nat \X Successes

\* One value adds its results, each at the line of the value.
LEMMA ValueDescribes ==
    ASSUME NEW n \in Nodes, NEW p \in Nat
    PROVE  Describes(traverse_output_data[n], {p} \X ResultsIn[n], SuccessesPrinted)
<1> DEFINE R == ResultsIn[n]
           x == traverse_output_data[n]
<1>1. Describes(x, R, Successes)
    BY TraverseDescribes
<1> HIDE DEF R, x
<1>2. IsFiniteSet(R) /\ IsFiniteSet({p}) /\ Cardinality({p}) = 1
    BY <1>1, FS_Singleton DEF Describes
<1>3. /\ IsFiniteSet({p} \X R)
      /\ Cardinality({p} \X R) = 1 * Cardinality(R)
    BY <1>2, FS_Product
<1>4. Cardinality(R) \in Nat
    BY <1>2, FS_CardinalityType
<1>5. Cardinality({p} \X R) = Cardinality(R)
    BY <1>3, <1>4
<1>6. {p} \X R \subseteq SuccessesPrinted <=> R \subseteq Successes
    <2>1. \A r \in R : <<p, r>> \in {p} \X R
        OBVIOUS
    <2>2. \A r : <<p, r>> \in SuccessesPrinted <=> r \in Successes
        BY DEF SuccessesPrinted
    <2>3. ASSUME {p} \X R \subseteq SuccessesPrinted
          PROVE  R \subseteq Successes
        BY <2>1, <2>2, <2>3
    <2>4. ASSUME R \subseteq Successes
          PROVE  {p} \X R \subseteq SuccessesPrinted
        BY <2>4 DEF SuccessesPrinted
    <2> QED
        BY <2>3, <2>4
<1>7. Describes(x, {p} \X R, SuccessesPrinted)
    BY <1>1, <1>3, <1>5, <1>6 DEF Describes
<1> QED
    BY <1>7 DEF R, x

\* What is in a product is a pair.
LEMMA PairOf ==
    ASSUME NEW p, NEW S, NEW r \in {p} \X S
    PROVE  r[1] = p /\ r[2] \in S /\ r = <<r[1], r[2]>>
OBVIOUS

\* So does an object that is printed from line b to line e.
LEMMA LoadedDescribes ==
    ASSUME NEW stream \in Seq(Line), NEW b \in 1 .. Len(stream), NEW e \in b .. Len(stream),
           NEW lines, lines = SubSeq(stream, b, e), Parses(lines)
    PROVE  Describes(Loaded(lines), Printed(stream, b, e), SuccessesPrinted)
<1> DEFINE V == Values(lines)
           f == [i \in V |-> traverse_output_data[lines[i].node]]
           R == [i \in V |-> {b - 1 + i} \X ResultsIn[lines[i].node]]
<1>1. Loaded(lines) = consolidate_results(f)
    BY DEF Loaded
<1>2. /\ Len(stream) \in Nat /\ b \in Nat /\ e \in Nat
      /\ Len(lines) = e - b + 1 /\ Len(lines) \in Nat
      /\ \A i \in 1 .. Len(lines) : /\ lines[i] = stream[b - 1 + i]
                                    /\ b - 1 + i \in b .. e
                                    /\ b - 1 + i \in 1 .. Len(stream)
    OBVIOUS
<1>3. \A i \in V : lines[i] \in Line /\ lines[i].node \in Nodes
    <2>1. \A i \in V : i \in 1 .. Len(lines) /\ lines[i].node # 0
        BY DEF Values
    <2>2. \A j \in 1 .. Len(stream) : stream[j] \in Line
        OBVIOUS
    <2>3. \A i \in V : lines[i] \in Line
        BY <1>2, <2>1, <2>2
    <2> QED
        BY <2>1, <2>3 DEF Line
<1>4. IsFiniteSet(V) /\ V = DOMAIN f
    <2>1. IsFiniteSet(1 .. Len(lines))
        BY <1>2, FS_Interval
    <2>2. V \in SUBSET (1 .. Len(lines))
        BY DEF Values
    <2> QED
        BY <2>1, <2>2, FS_Subset
<1>5. \A i \in V : i \in 1 .. Len(lines) /\ b - 1 + i \in Nat
    BY <1>2 DEF Values
<1>6. \A i \in V : Describes(f[i], R[i], SuccessesPrinted)
    BY <1>3, <1>5, ValueDescribes
<1>7. \A i, j \in V : i # j => R[i] \cap R[j] = {}
    BY <1>5
<1>8. UNION {R[i] : i \in V} = Printed(stream, b, e)
    <2>1. ASSUME NEW i \in V, NEW r \in {b - 1 + i} \X ResultsIn[lines[i].node]
          PROVE  r \in Printed(stream, b, e)
        <3>1. r[1] = b - 1 + i /\ r[2] \in ResultsIn[lines[i].node] /\ r = <<r[1], r[2]>>
            <4> DEFINE p == b - 1 + i
                       S == ResultsIn[lines[i].node]
            <4>1. r \in {p} \X S
                OBVIOUS
            <4> HIDE DEF p, S
            <4>2. r[1] = p /\ r[2] \in S /\ r = <<r[1], r[2]>>
                BY <4>1, PairOf
            <4> QED
                BY <4>2 DEF p, S
        <3>2. stream[r[1]].node = lines[i].node /\ r[1] \in b .. e
            BY <1>2, <1>5, <3>1
        <3>3. lines[i].node # 0 /\ ResultsIn[lines[i].node] \subseteq Nodes
            BY <1>3 DEF Values, ResultsIn
        <3> QED
            BY <3>1, <3>2, <3>3 DEF Printed
    <2>2. ASSUME NEW r \in Printed(stream, b, e)
          PROVE  \E i \in V : r \in R[i]
        <3>1. /\ r[1] \in b .. e /\ r = <<r[1], r[2]>>
              /\ stream[r[1]].node # 0 /\ r[2] \in ResultsIn[stream[r[1]].node]
            BY DEF Printed
        <3> DEFINE i == r[1] - b + 1
        <3>2. i \in 1 .. Len(lines) /\ b - 1 + i = r[1]
            BY <1>2, <3>1
        <3>3. lines[i] = stream[r[1]]
            BY <1>2, <3>2
        <3>4. i \in V
            BY <3>1, <3>2, <3>3 DEF Values
        <3>5. r \in R[i]
            BY <3>1, <3>2, <3>3, <3>4
        <3> QED
            BY <3>4, <3>5
    <2>3. \A i \in V : R[i] = {b - 1 + i} \X ResultsIn[lines[i].node]
        OBVIOUS
    <2>4. \A i \in V : R[i] \subseteq Printed(stream, b, e)
        BY <2>1, <2>3
    <2> HIDE DEF V, R
    <2> QED
        BY <2>2, <2>4
<1> HIDE DEF f, R, V
<1>9. Describes(consolidate_results(f), UNION {R[i] : i \in V}, SuccessesPrinted)
    BY <1>4, <1>6, <1>7, ConsolidateDescribes, Z3T(60)
<1> QED
    BY <1>1, <1>8, <1>9

-----------------------------------------------------------------------------
(* Objects: json_multi_object_loader *)

\* What Salt commands print: whole objects, and values in objects only. An
\* object without keys is the last line.
Framed(stream) ==
    /\ stream \in Seq(Line)
    /\ \A b \in 1 .. Len(stream) : stream[b].text = "open" =>
          \E e \in b + 1 .. Len(stream) : /\ stream[e].text = "close"
                                          /\ \A j \in b + 1 .. e - 1 : stream[j].text = "part"
    /\ \A b \in 1 .. Len(stream) : stream[b].text = "empty" => b = Len(stream)
    /\ \A j \in 1 .. Len(stream) : stream[j].node # 0 =>
          \E b \in 1 .. j - 1 : /\ stream[b].text = "open"
                                /\ \A k \in b + 1 .. j : stream[k].text = "part"

\* The first lines from line i on that begin and end an object.
NextBegin(stream, i) == First(BeginsObject, stream, i)
NextEnd(stream, i) == First(EndsObject, stream, i)

\* What object_stream_splitter takes for an object: no end, and it takes all.
LinesTo(stream, b, e) == SubSeq(stream, b, IF e = 0 THEN Len(stream) ELSE e)

\* NextBegin is the first such line from line i on, or 0 if there is none.
LEMMA NextBeginFinds ==
    ASSUME NEW stream, Len(stream) \in Nat, NEW i \in Nat, NEW b, b = NextBegin(stream, i)
    PROVE  \/ /\ b = 0
              /\ \A j \in i .. Len(stream) : ~BeginsObject(stream[j])
           \/ /\ b \in i .. Len(stream) /\ BeginsObject(stream[b])
              /\ \A j \in i .. Len(stream) : BeginsObject(stream[j]) => b <= j
<1> DEFINE B == {j \in i .. Len(stream) : BeginsObject(stream[j])}
<1>1. b = IF B = {} THEN 0 ELSE CHOOSE x \in B : \A y \in B : x <= y
    BY DEF NextBegin, First
<1>2. B \in SUBSET Nat
    OBVIOUS
<1>3. B # {} => \E x \in B : \A y \in B : x <= y
    BY <1>2, LeastNatural
<1>4. \/ b = 0 /\ B = {}
      \/ b \in B /\ \A y \in B : b <= y
    <2> HIDE DEF B
    <2> QED
        BY <1>1, <1>3
<1> QED
    BY <1>4

\* So is NextEnd.
LEMMA NextEndFinds ==
    ASSUME NEW stream, Len(stream) \in Nat, NEW i \in Nat, NEW b, b = NextEnd(stream, i)
    PROVE  \/ /\ b = 0
              /\ \A j \in i .. Len(stream) : ~EndsObject(stream[j])
           \/ /\ b \in i .. Len(stream) /\ EndsObject(stream[b])
              /\ \A j \in i .. Len(stream) : EndsObject(stream[j]) => b <= j
<1> DEFINE B == {j \in i .. Len(stream) : EndsObject(stream[j])}
<1>1. b = IF B = {} THEN 0 ELSE CHOOSE x \in B : \A y \in B : x <= y
    BY DEF NextEnd, First
<1>2. B \in SUBSET Nat
    OBVIOUS
<1>3. B # {} => \E x \in B : \A y \in B : x <= y
    BY <1>2, LeastNatural
<1>4. \/ b = 0 /\ B = {}
      \/ b \in B /\ \A y \in B : b <= y
    <2> HIDE DEF B
    <2> QED
        BY <1>1, <1>3
<1> QED
    BY <1>4

\* The lines from line b to line e.
LEMMA PartType ==
    ASSUME NEW S, NEW s \in Seq(S), NEW b \in 1 .. Len(s), NEW e \in b .. Len(s)
    PROVE  /\ SubSeq(s, b, e) \in Seq(S)
           /\ Len(SubSeq(s, b, e)) = e - b + 1
           /\ \A j \in 1 .. e - b + 1 : SubSeq(s, b, e)[j] = s[b - 1 + j]
OBVIOUS

\* A part of one line.
LEMMA SinglePart ==
    ASSUME NEW S, NEW s \in Seq(S), NEW b \in 1 .. Len(s)
    PROVE  SubSeq(s, b, b) \in Seq(S) /\ Len(SubSeq(s, b, b)) = 1 /\ SubSeq(s, b, b)[1] = s[b]
<1>1. PICK e \in b .. Len(s) : e = b
    OBVIOUS
<1>2. 1 \in 1 .. e - b + 1 /\ b - 1 + 1 = b /\ e - b + 1 = 1
    BY <1>1
<1>3. /\ SubSeq(s, b, e) \in Seq(S)
      /\ Len(SubSeq(s, b, e)) = e - b + 1
      /\ \A j \in 1 .. e - b + 1 : SubSeq(s, b, e)[j] = s[b - 1 + j]
    BY PartType
<1>4. SubSeq(s, b, e)[1] = s[b]
    BY <1>2, <1>3
<1> QED
    BY <1>1, <1>2, <1>3, <1>4

\* Each line of an output is a line.
LEMMA FramedLines ==
    ASSUME NEW stream, Framed(stream)
    PROVE  /\ stream \in Seq(Line)
           /\ Len(stream) \in Nat
           /\ \A j \in 1 .. Len(stream) : stream[j] \in Line
<1>1. stream \in Seq(Line)
    BY DEF Framed
<1> QED
    BY <1>1

\* The object that begins in line b ends in line e.
WholeObject(stream, b, e, lines) ==
    /\ e \in b .. Len(stream)
    /\ lines = SubSeq(stream, b, e)
    /\ lines # <<>> /\ Len(lines) = e - b + 1
    /\ Parses(lines)
    /\ stream[e].text \in {"close", "empty"}

\* An object without keys is whole, and ends where it begins.
LEMMA EmptyObject ==
    ASSUME NEW stream, Framed(stream), NEW n, n = Len(stream),
           NEW b \in 1 .. n, stream[b].text = "empty",
           NEW e, e = NextEnd(stream, b + 1),
           NEW lines, lines = LinesTo(stream, b, e)
    PROVE  WholeObject(stream, b, n, lines)
<1>1. /\ stream \in Seq(Line) /\ n \in Nat
      /\ stream[b] \in Line
    BY FramedLines
<1>2. b = n
    BY DEF Framed
<1>3. b \in Nat /\ b + 1 \in Nat /\ \A j \in b + 1 .. n : FALSE
    BY <1>1, <1>2
<1>4. e = 0
    BY <1>1, <1>3, NextEndFinds
<1>5. lines = SubSeq(stream, b, b)
    BY <1>2, <1>4 DEF LinesTo
<1>6. Len(lines) = 1 /\ lines[1] = stream[b] /\ lines \in Seq(Line)
    <2>1. b \in 1 .. Len(stream)
        OBVIOUS
    <2>2. /\ SubSeq(stream, b, b) \in Seq(Line)
          /\ Len(SubSeq(stream, b, b)) = 1
          /\ SubSeq(stream, b, b)[1] = stream[b]
        BY <1>1, <2>1, SinglePart
    <2> QED
        BY <1>5, <2>2
<1>7. lines = <<stream[b]>>
    BY <1>6
<1>8. stream[b].node = 0
    <2>1. ~(stream[b].text = "part")
        OBVIOUS
    <2>2. \A c \in 1 .. b - 1 : b \in c + 1 .. b
        BY <1>3
    <2> QED
        BY <2>1, <2>2 DEF Framed
<1>9. stream[b] = Plain("empty")
    BY <1>1, <1>8 DEF Line, Plain
<1>10. Parses(lines)
    BY <1>7, <1>9 DEF Parses
<1>11. lines # <<>> /\ Len(lines) = n - b + 1 /\ n \in b .. n
    BY <1>1, <1>2, <1>6
<1> QED
    BY <1>2, <1>5, <1>10, <1>11 DEF WholeObject

\* So is one with keys, and it ends with the next line that ends an object.
LEMMA FullObject ==
    ASSUME NEW stream, Framed(stream), NEW n, n = Len(stream),
           NEW b \in 1 .. n, stream[b].text = "open",
           NEW e, e = NextEnd(stream, b + 1),
           NEW lines, lines = LinesTo(stream, b, e)
    PROVE  WholeObject(stream, b, e, lines)
<1>1. stream \in Seq(Line) /\ n \in Nat /\ b \in Nat /\ b + 1 \in Nat
    BY FramedLines
<1>2. PICK x \in b + 1 .. n : /\ stream[x].text = "close"
                              /\ \A j \in b + 1 .. x - 1 : stream[j].text = "part"
    BY DEF Framed
<1>3. x \in Nat /\ EndsObject(stream[x])
    BY <1>1, <1>2 DEF EndsObject
<1>4. /\ e \in b + 1 .. n /\ EndsObject(stream[e])
      /\ \A j \in b + 1 .. n : EndsObject(stream[j]) => e <= j
    BY <1>1, <1>2, <1>3, NextEndFinds
<1>5. e = x
    <2>1. e <= x /\ e \in Nat
        BY <1>1, <1>3, <1>4
    <2>2. e < x => e \in b + 1 .. x - 1
        BY <1>1, <1>3, <1>4
    <2>3. ~(e < x)
        BY <1>2, <1>4, <2>2 DEF EndsObject
    <2> QED
        BY <1>3, <2>1, <2>3
<1>6. e # 0 /\ e \in Nat /\ e \in b .. n /\ b < e
    BY <1>1, <1>4
<1>7. lines = SubSeq(stream, b, e)
    BY <1>6 DEF LinesTo
<1>8. /\ Len(lines) = e - b + 1
      /\ \A j \in 1 .. e - b + 1 : lines[j] = stream[b - 1 + j]
    BY <1>1, <1>6, <1>7
<1>9. lines[1].text = "open" /\ lines[Len(lines)].text = "close" /\ Len(lines) > 1
    <2> DEFINE k == e - b + 1
    <2>1. 1 \in 1 .. k /\ b - 1 + 1 = b /\ k \in 1 .. k /\ b - 1 + k = e /\ k > 1
        BY <1>1, <1>6
    <2> HIDE DEF k
    <2>2. lines[1] = stream[b] /\ lines[Len(lines)] = stream[e]
        BY <1>8, <2>1 DEF k
    <2>3. Len(lines) > 1
        BY <1>8, <2>1 DEF k
    <2> QED
        BY <1>2, <1>5, <2>2, <2>3
<1>10. \A j \in 2 .. Len(lines) - 1 : lines[j].text = "part"
    <2>1. ASSUME NEW j \in 2 .. Len(lines) - 1
          PROVE  j \in 1 .. e - b + 1 /\ b - 1 + j \in b + 1 .. e - 1
        BY <1>1, <1>6, <1>8
    <2> QED
        BY <1>2, <1>5, <1>8, <2>1
<1>11. Parses(lines)
    BY <1>9, <1>10 DEF Parses
<1>12. lines # <<>>
    BY <1>9
<1> QED
    BY <1>2, <1>5, <1>6, <1>7, <1>8, <1>11, <1>12 DEF WholeObject

\* From every line on there is no object any more, or a whole one is next.
LEMMA NextObject ==
    ASSUME NEW stream, Framed(stream), NEW i \in 1 .. Len(stream) + 1,
           NEW b, b = NextBegin(stream, i),
           NEW lines, lines = ObjectLines(stream, i)
    PROVE  \/ /\ lines = <<>>
              /\ \A j \in i .. Len(stream) : ~BeginsObject(stream[j])
           \/ /\ lines # <<>>
              /\ b \in i .. Len(stream)
              /\ \A j \in i .. b - 1 : ~BeginsObject(stream[j])
              /\ \E e \in b .. Len(stream) : WholeObject(stream, b, e, lines)
<1>1. Len(stream) \in Nat /\ i \in Nat
    BY FramedLines
<1>2. CASE b = 0
    <2>1. lines = <<>>
        BY <1>2 DEF ObjectLines, NextBegin
    <2>2. \A j \in i .. Len(stream) : ~BeginsObject(stream[j])
        <3>1. ~(b \in i .. Len(stream))
            BY <1>1, <1>2
        <3> QED
            BY <1>1, <3>1, NextBeginFinds
    <2> QED
        BY <2>1, <2>2
<1>3. CASE b # 0
    <2>1. /\ b \in i .. Len(stream) /\ BeginsObject(stream[b])
          /\ \A j \in i .. Len(stream) : BeginsObject(stream[j]) => b <= j
        BY <1>1, <1>3, NextBeginFinds
    <2>2. b \in 1 .. Len(stream) /\ \A j \in i .. b - 1 : ~BeginsObject(stream[j])
        BY <1>1, <2>1
    <2>3. PICK e : e = NextEnd(stream, b + 1)
        OBVIOUS
    <2>4. lines = LinesTo(stream, b, e)
        BY <1>3, <2>3 DEF ObjectLines, NextBegin, NextEnd, LinesTo
    <2>5. stream[b].text \in {"open", "empty"}
        BY <2>1 DEF BeginsObject
    <2>6. \E x : WholeObject(stream, b, x, lines)
        BY <2>2, <2>3, <2>4, <2>5, EmptyObject, FullObject
    <2>7. lines # <<>> /\ \E x \in b .. Len(stream) : WholeObject(stream, b, x, lines)
        BY <2>6 DEF WholeObject
    <2> QED
        BY <2>1, <2>2, <2>7
<1> QED
    BY <1>2, <1>3

\* The recursive function of json_multi_object_loader and its body.
LoadBy(stream, g, i) ==
    LET lines == ObjectLines(stream, i)
    IN  IF lines = <<>> THEN <<>>
        ELSE <<lines>> \o g[NextBegin(stream, i) + Len(lines)]

Loader(stream) ==
    CHOOSE g : g = [i \in 1 .. Len(stream) + 1 |-> LoadBy(stream, g, i)]

\* json_multi_object_loader reads from the first line on.
LEMMA LoaderIs ==
    ASSUME NEW stream
    PROVE  json_multi_object_loader(stream) = Loader(stream)[1]
BY DEF json_multi_object_loader, Loader, LoadBy, NextBegin

\* It goes on behind the object.
LEMMA LoaderAdvances ==
    ASSUME NEW stream, Framed(stream), NEW i \in 1 .. Len(stream) + 1,
           ObjectLines(stream, i) # <<>>
    PROVE  /\ NextBegin(stream, i) + Len(ObjectLines(stream, i)) \in Nat
           /\ NextBegin(stream, i) + Len(ObjectLines(stream, i)) > i
           /\ NextBegin(stream, i) + Len(ObjectLines(stream, i)) <= Len(stream) + 1
<1>1. PICK b : b = NextBegin(stream, i)
    OBVIOUS
<1>2. PICK lines : lines = ObjectLines(stream, i)
    OBVIOUS
<1>3. PICK e \in b .. Len(stream) : b \in i .. Len(stream) /\ WholeObject(stream, b, e, lines)
    BY <1>1, <1>2, NextObject
<1>4. Len(stream) \in Nat /\ b \in Nat /\ e \in Nat /\ i \in Nat
    BY <1>3, FramedLines
<1>5. b + Len(lines) = e + 1
    BY <1>3, <1>4 DEF WholeObject
<1>6. e + 1 \in Nat /\ e + 1 > i /\ e + 1 <= Len(stream) + 1
    BY <1>3, <1>4
<1> QED
    BY <1>1, <1>2, <1>5, <1>6

\* The loader is what its recursion says, from every line on.
LEMMA LoaderDefined ==
    ASSUME NEW stream, Framed(stream)
    PROVE  \A i \in 1 .. Len(stream) + 1 : Loader(stream)[i] = LoadBy(stream, Loader(stream), i)
<1>1. PICK m : m = Len(stream) + 1
    OBVIOUS
<1>2. m \in Nat
    BY <1>1, FramedLines
<1> DEFINE From(k) == {i \in 1 .. m : i + k > m}
           next(i) == NextBegin(stream, i) + Len(ObjectLines(stream, i))
           K == {k \in Nat : \E g : g = [i \in From(k) |-> LoadBy(stream, g, i)]}
<1>3. \A i \in 1 .. m : ObjectLines(stream, i) # <<>> =>
          next(i) \in Nat /\ next(i) > i /\ next(i) <= m
    BY <1>1, LoaderAdvances
<1>4. 0 \in K
    <2>1. From(0) = {}
        BY <1>2
    <2> DEFINE g == [i \in {} |-> 0]
    <2>2. g = [i \in From(0) |-> LoadBy(stream, g, i)]
        BY <2>1
    <2> QED
        BY <2>2
<1>5. ASSUME NEW k \in Nat, k \in K
      PROVE  k + 1 \in K
    <2>1. PICK g : g = [i \in From(k) |-> LoadBy(stream, g, i)]
        BY <1>5
    <2> DEFINE h == [i \in From(k + 1) |-> LoadBy(stream, g, i)]
    <2>2. ASSUME NEW i \in From(k + 1), ObjectLines(stream, i) # <<>>
          PROVE  next(i) \in From(k)
        <3>1. next(i) \in Nat /\ next(i) > i /\ next(i) <= m
            BY <1>3, <2>2
        <3> HIDE DEF next
        <3> QED
            BY <1>2, <3>1
    <2>3. From(k) \subseteq From(k + 1)
        BY <1>2
    <2> HIDE DEF From
    <2>4. \A i \in From(k) : h[i] = g[i]
        BY <2>1, <2>3
    <2>5. ASSUME NEW i \in From(k + 1)
          PROVE  LoadBy(stream, g, i) = LoadBy(stream, h, i)
        <3> HIDE DEF h
        <3>1. CASE ObjectLines(stream, i) = <<>>
            BY <3>1 DEF LoadBy
        <3>2. CASE ObjectLines(stream, i) # <<>>
            <4>1. h[next(i)] = g[next(i)]
                BY <2>2, <2>4, <3>2
            <4> QED
                BY <4>1 DEF LoadBy
        <3> QED
            BY <3>1, <3>2
    <2>6. h = [i \in From(k + 1) |-> LoadBy(stream, h, i)]
        BY <2>5
    <2>7. \E t : t = [i \in From(k + 1) |-> LoadBy(stream, t, i)]
        <3> HIDE DEF h
        <3> QED
            BY <2>6
    <2>8. k + 1 \in Nat
        OBVIOUS
    <2> QED
        BY <2>7, <2>8
<1>6. \A k \in Nat : k \in K
    <2> HIDE DEF K
    <2> QED
        BY <1>4, <1>5, NaturalsBySteps
<1>7. From(m) = 1 .. m
    BY <1>2
<1>8. \E g : g = [i \in 1 .. m |-> LoadBy(stream, g, i)]
    BY <1>2, <1>6, <1>7
<1>9. Loader(stream) = CHOOSE g : g = [i \in 1 .. m |-> LoadBy(stream, g, i)]
    BY <1>1 DEF Loader
<1>10. Loader(stream) = [i \in 1 .. m |-> LoadBy(stream, Loader(stream), i)]
    BY <1>8, <1>9
<1> QED
    BY <1>1, <1>10

\* Values are between the line in which their object begins and the next one in
\* which one ends.
Outside(stream, i) == i = 1 \/ stream[i - 1].text \in {"close", "empty"}

\* A value that comes later is in an object that begins later.
LEMMA ValueFollowsBegin ==
    ASSUME NEW stream, Framed(stream), NEW i \in 1 .. Len(stream) + 1, Outside(stream, i),
           NEW j \in i .. Len(stream), stream[j].node # 0
    PROVE  \E b \in i .. j - 1 : BeginsObject(stream[b])
<1>1. Len(stream) \in Nat /\ j \in 1 .. Len(stream) /\ j \in Nat /\ i \in Nat /\ i >= 1 /\ i <= j
    BY FramedLines
<1>2. PICK b \in 1 .. j - 1 : /\ stream[b].text = "open"
                              /\ \A k \in b + 1 .. j : stream[k].text = "part"
    BY <1>1 DEF Framed
<1>3. BeginsObject(stream[b])
    BY <1>2 DEF BeginsObject
<1>4. b \in Nat /\ b <= j - 1
    BY <1>1, <1>2
<1>5. b >= i
    <2>1. CASE i = 1
        BY <1>2, <2>1
    <2>2. CASE stream[i - 1].text \in {"close", "empty"}
        <3>1. i - 1 # b
            BY <1>2, <2>2
        <3>2. i - 1 \notin b + 1 .. j
            BY <1>2, <2>2
        <3>3. b < i => i - 1 = b \/ i - 1 \in b + 1 .. j
            BY <1>1, <1>4
        <3> QED
            BY <1>1, <1>4, <3>1, <3>2, <3>3
    <2> QED
        BY <2>1, <2>2 DEF Outside
<1>6. b \in i .. j - 1
    BY <1>1, <1>4, <1>5
<1> QED
    BY <1>3, <1>6
\* Every object of s adds its results, and together they are Q.
ObjectsDescribe(s, Q) ==
    \E R : /\ \A o \in DOMAIN s : Describes(Loaded(s[o]), R[o], SuccessesPrinted)
           /\ \A o, p \in DOMAIN s : o # p => R[o] \cap R[p] = {}
           /\ UNION {R[o] : o \in DOMAIN s} = Q

\* An object more adds its results, if no other has them.
LEMMA ObjectsDescribeMore ==
    ASSUME NEW T, NEW s \in Seq(T), NEW x \in T, NEW P, NEW Q, P \cap Q = {},
           Describes(Loaded(x), P, SuccessesPrinted), ObjectsDescribe(s, Q)
    PROVE  ObjectsDescribe(<<x>> \o s, P \cup Q)
<1> DEFINE t == <<x>> \o s
<1>1. PICK R : /\ \A o \in DOMAIN s : Describes(Loaded(s[o]), R[o], SuccessesPrinted)
               /\ \A o, p \in DOMAIN s : o # p => R[o] \cap R[p] = {}
               /\ UNION {R[o] : o \in DOMAIN s} = Q
    BY DEF ObjectsDescribe
<1> DEFINE D == [o \in DOMAIN t |-> IF o = 1 THEN P ELSE R[o - 1]]
<1>2. /\ 1 \in DOMAIN t /\ t[1] = x
      /\ \A o \in DOMAIN t : o # 1 => o - 1 \in DOMAIN s /\ t[o] = s[o - 1]
      /\ \A o \in DOMAIN s : o + 1 \in DOMAIN t /\ o + 1 # 1 /\ (o + 1) - 1 = o
      /\ \A o, p \in DOMAIN t : o # p => o - 1 # p - 1
    OBVIOUS
<1> HIDE DEF t
<1>3. D[1] = P /\ \A o \in DOMAIN t : o # 1 => D[o] = R[o - 1]
    BY <1>2
<1> HIDE DEF D
<1>4. \A o \in DOMAIN t : Describes(Loaded(t[o]), D[o], SuccessesPrinted)
    BY <1>1, <1>2, <1>3
<1>5. \A o \in DOMAIN s : R[o] \subseteq Q
    BY <1>1
<1>6. \A o, p \in DOMAIN t : o # p => D[o] \cap D[p] = {}
    BY <1>1, <1>2, <1>3, <1>5
<1>7. UNION {D[o] : o \in DOMAIN t} = P \cup Q
    <2>1. \A o \in DOMAIN t : D[o] \subseteq P \cup Q
        BY <1>2, <1>3, <1>5
    <2>2. \A r \in P : r \in D[1]
        BY <1>3
    <2>3. \A o \in DOMAIN s : D[o + 1] = R[o]
        BY <1>2, <1>3
    <2>4. \A r \in Q : \E o \in DOMAIN s : r \in R[o]
        BY <1>1
    <2>5. \A r \in P \cup Q : \E o \in DOMAIN t : r \in D[o]
        BY <1>2, <2>2, <2>3, <2>4
    <2> QED
        BY <2>1, <2>5
<1> QED
    BY <1>4, <1>6, <1>7 DEF ObjectsDescribe, t

\* From a line outside of objects on, the objects that are loaded have the
\* results that are printed.
LEMMA LoaderDescribes ==
    ASSUME NEW stream, Framed(stream)
    PROVE  \A i \in 1 .. Len(stream) + 1 :
              /\ Loader(stream)[i] \in Seq(Seq(Line))
              /\ Outside(stream, i) =>
                    ObjectsDescribe(Loader(stream)[i], Printed(stream, i, Len(stream)))
<1> DEFINE g == Loader(stream)
           Right(i) == /\ g[i] \in Seq(Seq(Line))
                       /\ Outside(stream, i) =>
                             ObjectsDescribe(g[i], Printed(stream, i, Len(stream)))
<1>1. PICK n : n = Len(stream)
    OBVIOUS
<1>2. n \in Nat /\ stream \in Seq(Line)
    BY <1>1, FramedLines
<1> DEFINE S == {i \in 1 .. n + 1 : Right(i)}
<1>3. ASSUME NEW i \in 1 .. n + 1, \A c \in 1 .. n + 1 : c > i => c \in S
      PROVE  Right(i)
    <2>1. PICK b : b = NextBegin(stream, i)
        OBVIOUS
    <2>2. PICK lines : lines = ObjectLines(stream, i)
        OBVIOUS
    <2>3. g[i] = IF lines = <<>> THEN <<>> ELSE <<lines>> \o g[b + Len(lines)]
        BY <1>1, <2>1, <2>2, LoaderDefined DEF LoadBy
    <2>4. \A j \in i .. n : Outside(stream, i) /\ stream[j].node # 0 =>
              \E x \in i .. j - 1 : BeginsObject(stream[x])
        BY <1>1, ValueFollowsBegin
    <2>5. CASE lines = <<>>
        <3>1. \A j \in i .. n : ~BeginsObject(stream[j])
            BY <1>1, <2>1, <2>2, <2>5, NextObject
        <3>2. \A j \in i .. n : \A x \in i .. j - 1 : x \in i .. n
            BY <1>2
        <3>3. Outside(stream, i) => Printed(stream, i, n) = {}
            BY <2>4, <3>1, <3>2 DEF Printed
        <3>4. g[i] = <<>>
            BY <2>3, <2>5
        <3>5. ObjectsDescribe(<<>>, {})
            BY DEF ObjectsDescribe
        <3>6. <<>> \in Seq(Seq(Line))
            OBVIOUS
        <3> HIDE DEF g
        <3>7. g[i] \in Seq(Seq(Line))
            BY <3>4, <3>6
        <3>8. Outside(stream, i) => ObjectsDescribe(g[i], Printed(stream, i, n))
            BY <3>3, <3>4, <3>5
        <3> QED
            BY <1>1, <3>7, <3>8
    <2>6. CASE lines # <<>>
        <3>1. PICK e \in b .. n : /\ b \in i .. n
                                  /\ \A j \in i .. b - 1 : ~BeginsObject(stream[j])
                                  /\ WholeObject(stream, b, e, lines)
            BY <1>1, <2>1, <2>2, <2>6, NextObject
        <3>2. /\ i \in Nat /\ b \in Nat /\ e \in Nat /\ e + 1 \in 1 .. n + 1 /\ e + 1 > i
              /\ i >= 1 /\ b \in 1 .. n
            BY <1>2, <3>1
        <3>3. b + Len(lines) = e + 1
            BY <3>2, <3>1 DEF WholeObject
        <3>4. g[i] = <<lines>> \o g[e + 1]
            BY <2>3, <2>6, <3>3
        <3>5. Right(e + 1)
            BY <1>3, <3>2
        <3>6. Outside(stream, e + 1)
            <4>1. e + 1 - 1 = e
                BY <3>2
            <4> QED
                BY <3>1, <4>1 DEF Outside, WholeObject
        <3>7. lines \in Seq(Line)
            <4>1. b \in 1 .. Len(stream) /\ e \in b .. Len(stream)
                BY <1>1, <3>1, <3>2
            <4> QED
                BY <1>2, <3>1, <4>1, PartType DEF WholeObject
        <3>8. Describes(Loaded(lines), Printed(stream, b, e), SuccessesPrinted)
            BY <1>1, <1>2, <3>1, <3>2, LoadedDescribes DEF WholeObject
        <3>9. Printed(stream, b, e) \cap Printed(stream, e + 1, n) = {}
            BY <3>2 DEF Printed
        <3>10. Outside(stream, i) =>
                   Printed(stream, i, n) = Printed(stream, b, e) \cup Printed(stream, e + 1, n)
            <4>1. ASSUME Outside(stream, i), NEW j \in i .. n, stream[j].node # 0
                  PROVE  j \in b .. e \/ j \in e + 1 .. n
                <5>1. PICK x \in i .. j - 1 : BeginsObject(stream[x])
                    BY <2>4, <4>1
                <5>2. x >= b
                    BY <1>2, <3>1, <3>2, <5>1
                <5> QED
                    BY <1>2, <3>2, <5>1, <5>2
            <4>2. b .. e \subseteq i .. n /\ e + 1 .. n \subseteq i .. n
                BY <1>2, <3>1, <3>2
            <4> QED
                BY <4>1, <4>2 DEF Printed
        <3>11. g[e + 1] \in Seq(Seq(Line)) /\ ObjectsDescribe(g[e + 1], Printed(stream, e + 1, n))
            BY <1>1, <3>5, <3>6
        <3> HIDE DEF g
        <3>12. <<lines>> \o g[e + 1] \in Seq(Seq(Line))
            BY <3>7, <3>11
        <3>13. ObjectsDescribe(<<lines>> \o g[e + 1],
                               Printed(stream, b, e) \cup Printed(stream, e + 1, n))
            BY <3>7, <3>8, <3>9, <3>11, ObjectsDescribeMore
        <3> QED
            BY <1>1, <3>4, <3>10, <3>12, <3>13
    <2> QED
        BY <2>5, <2>6
<1>4. 1 .. n + 1 \in SUBSET Nat /\ IsFiniteSet(1 .. n + 1)
    BY <1>2, FS_Interval
<1>5. \A i \in 1 .. n + 1 : i \in S
    <2>1. \A i \in 1 .. n + 1 : (\A c \in 1 .. n + 1 : c > i => c \in S) => i \in S
        BY <1>3
    <2> HIDE DEF S
    <2> QED
        BY <1>4, <2>1, NaturalsDown
<1> QED
    BY <1>1, <1>5

\* check_salt_output.py passes such an output iff every result in it succeeded,
\* at whatever depth and in whatever object, and there are enough of them.
THEOREM VerdictOfFramed ==
    ASSUME NEW stream, Framed(stream)
    PROVE  check_output_data(stream) <=>
               /\ Cardinality(Printed(stream, 1, Len(stream))) >= MinCount
               /\ \A r \in Printed(stream, 1, Len(stream)) : Succeeds(r[2])
<1> DEFINE objects == json_multi_object_loader(stream)
           f == [o \in DOMAIN objects |-> Loaded(objects[o])]
           all == consolidate_results(f)
<1>1. PICK Q : Q = Printed(stream, 1, Len(stream))
    OBVIOUS
<1>2. Len(stream) \in Nat /\ 1 \in 1 .. Len(stream) + 1 /\ Outside(stream, 1)
    BY FramedLines DEF Outside
<1>3. objects \in Seq(Seq(Line)) /\ ObjectsDescribe(objects, Q)
    BY <1>1, <1>2, LoaderIs, LoaderDescribes
<1>4. check_output_data(stream) <=> ~all.raised /\ all.overall_result /\ all.total_counter >= MinCount
    BY DEF check_output_data
<1>5. PICK D : D = DOMAIN objects
    OBVIOUS
<1>6. IsFiniteSet(D)
    <2> HIDE DEF objects
    <2>1. Len(objects) \in Nat /\ D = 1 .. Len(objects)
        BY <1>3, <1>5
    <2> QED
        BY <2>1, FS_Interval
<1> HIDE DEF objects
<1>7. PICK R : /\ \A o \in D : Describes(Loaded(objects[o]), R[o], SuccessesPrinted)
               /\ \A o, p \in D : o # p => R[o] \cap R[p] = {}
               /\ UNION {R[o] : o \in D} = Q
    BY <1>3, <1>5 DEF ObjectsDescribe
<1>8. D = DOMAIN f /\ \A o \in D : f[o] = Loaded(objects[o])
    BY <1>5
<1> HIDE DEF f
<1>9. \A o \in D : Describes(f[o], R[o], SuccessesPrinted)
    BY <1>7, <1>8
<1>10. Describes(all, UNION {R[o] : o \in D}, SuccessesPrinted)
    BY <1>6, <1>7, <1>8, <1>9, ConsolidateDescribes
<1>11. Describes(all, Q, SuccessesPrinted)
    BY <1>7, <1>10
<1>12. Q \subseteq SuccessesPrinted <=> \A r \in Q : Succeeds(r[2])
    <2>1. \A r \in Q : r = <<r[1], r[2]>> /\ r[1] \in Nat /\ r[2] \in Nodes
        BY <1>1, <1>2 DEF Printed
    <2> QED
        BY <2>1 DEF SuccessesPrinted, Successes
<1> HIDE DEF all
<1> QED
    BY <1>1, <1>4, <1>11, <1>12 DEF Describes
=============================================================================

---------------------------- MODULE FoldTheorems ----------------------------
(***************************************************************************)
(* What the folds of the community modules compute: sums over finite sets, *)
(* the concatenation of sequences, and the recursion of any fold that      *)
(* stays within a set.  They are defined by recursion, so                  *)
(* these facts need induction; since an induction theorem that takes an    *)
(* operator cannot be used, each proof looks at the least counterexample.  *)
(***************************************************************************)
EXTENDS Integers, SequencesExt, FiniteSetTheorems, WellFoundedInduction, TLAPS

-----------------------------------------------------------------------------
(* Least counterexamples, and the recursion of a fold over a set.          *)

\* One member of a set, the one a fold takes first.
Some(s) == CHOOSE x \in s : TRUE

\* The function that a fold over the subsets in D computes.
Summing(f, D, G) ==
  G = [s \in D |-> IF s = {} THEN 0 ELSE f[Some(s)] + G[s \ {Some(s)}]]

\* The choice is a member.
LEMMA SomeIn == ASSUME NEW s, s # {} PROVE Some(s) \in s
BY DEF Some

\* The least number of a set of numbers.
LEMMA LeastExists ==
  ASSUME NEW T \in SUBSET Nat, T # {}
  PROVE  \E n \in T : \A m \in Nat : m < n => m \notin T
<1> DEFINE R == OpToRel(<, Nat)
<1>1. IsWellFoundedOn(R, Nat)
  BY NatLessThanWellFounded
<1>2. \A x, y \in Nat : y < x => <<y, x>> \in R
  BY DEF OpToRel
<1> HIDE DEF R
<1>3. PICK n \in T : \A m \in T : ~ (<<m, n>> \in R)
  BY <1>1, WFMin
<1>4. ASSUME NEW m \in Nat, m < n PROVE m \notin T
  BY <1>2, <1>3, <1>4
<1> QED BY <1>4

\* The sum of the library, its definitions expanded.
LEMMA SumIsChoice ==
  ASSUME NEW f, NEW S
  PROVE  SumFunctionOnSet(f, S) =
           (CHOOSE G : G = [s \in SUBSET S |-> IF s = {} THEN 0
                                   ELSE f[Some(s)] + G[s \ {Some(s)}]])[S]
BY DEF SumFunctionOnSet, FoldFunctionOnSet, MapThenFoldSet, Some

\* There is a function with the recursion of the sum.
LEMMA SummingExists ==
  ASSUME NEW f, NEW S, IsFiniteSet(S)
  PROVE  \E G : Summing(f, SUBSET S, G)
<1> DEFINE D(n) == {s \in SUBSET S : Cardinality(s) <= n}
           P(n) == \E G : Summing(f, D(n), G)
           T == {n \in Nat : ~P(n)}
<1>0. \A s \in SUBSET S : IsFiniteSet(s) /\ Cardinality(s) \in Nat /\ Cardinality(s) <= Cardinality(S)
  BY FS_Subset, FS_CardinalityType
<1>1. P(0)
  <2>1. D(0) = {{}}
    BY <1>0, FS_EmptySet
  <2>2. Summing(f, D(0), [s \in {{}} |-> 0])
    BY <2>1 DEF Summing
  <2> QED BY <2>2
<1>2. ASSUME NEW n \in Nat, P(n) PROVE P(n+1)
  <2>1. PICK G : Summing(f, D(n), G)
    BY <1>2
  <2> DEFINE H == [s \in D(n+1) |-> IF s = {} THEN 0 ELSE f[Some(s)] + G[s \ {Some(s)}]]
  <2>2. ASSUME NEW s \in D(n+1), s # {}
        PROVE s \ {Some(s)} \in D(n) /\ s \ {Some(s)} \in D(n+1)
    <3>1. Some(s) \in s /\ s \in SUBSET S
      BY <2>2, SomeIn
    <3>2. Cardinality(s \ {Some(s)}) = Cardinality(s) - 1
      BY <3>1, <1>0, FS_RemoveElement
    <3>3. s \ {Some(s)} \in SUBSET S
      BY <3>1
    <3> QED BY <3>2, <3>3, <1>0
  <2>3. \A s \in D(n) : s \in D(n+1) /\ H[s] = G[s]
    <3> SUFFICES ASSUME NEW s \in D(n) PROVE s \in D(n+1) /\ H[s] = G[s]
      OBVIOUS
    <3>1. s \in D(n+1)
      BY <1>0
    <3>2. G[s] = IF s = {} THEN 0 ELSE f[Some(s)] + G[s \ {Some(s)}]
      BY <2>1 DEF Summing
    <3> HIDE DEF D
    <3> QED BY <3>1, <3>2
  <2>4. \A s \in D(n+1) : H[s] = IF s = {} THEN 0 ELSE f[Some(s)] + H[s \ {Some(s)}]
    BY <2>2, <2>3
  <2>5. Summing(f, D(n+1), H)
    BY <2>4 DEF Summing
  <2> QED BY <2>5
<1> HIDE DEF P
<1>3. T = {}
  <2> SUFFICES ASSUME T # {} PROVE FALSE
    OBVIOUS
  <2>1. PICK n \in T : \A m \in Nat : m < n => m \notin T
    BY LeastExists
  <2>2. n # 0 /\ n - 1 \in Nat /\ n - 1 < n
    BY <1>1
  <2>3. P(n - 1)
    BY <2>1, <2>2
  <2>4. P((n - 1) + 1)
    BY <1>2, <2>2, <2>3
  <2> QED BY <2>1, <2>4
<1>4. P(Cardinality(S))
  BY <1>3, FS_CardinalityType
<1>5. D(Cardinality(S)) = SUBSET S
  BY <1>0
<1> QED BY <1>4, <1>5 DEF P

\* Two functions with that recursion agree, whatever they are defined on.
LEMMA SummingUnique ==
  ASSUME NEW f, NEW S, IsFiniteSet(S), NEW A, NEW B, S \subseteq A, S \subseteq B,
         NEW G, NEW H, Summing(f, SUBSET A, G), Summing(f, SUBSET B, H)
  PROVE  G[S] = H[S]
<1> DEFINE T == {n \in Nat : \E s \in SUBSET S : Cardinality(s) = n /\ G[s] # H[s]}
<1>0. \A s \in SUBSET S : IsFiniteSet(s) /\ Cardinality(s) \in Nat
  BY FS_Subset, FS_CardinalityType
<1>1. T = {}
  <2> SUFFICES ASSUME T # {} PROVE FALSE
    OBVIOUS
  <2>1. PICK n \in T : \A m \in Nat : m < n => m \notin T
    BY LeastExists
  <2>2. PICK s \in SUBSET S : Cardinality(s) = n /\ G[s] # H[s]
    BY <2>1
  <2>3. s \in SUBSET A /\ s \in SUBSET B
    OBVIOUS
  <2>4. s # {}
    BY <2>2, <2>3 DEF Summing
  <2> DEFINE r == s \ {Some(s)}
  <2>5. r \in SUBSET S /\ Cardinality(r) = n - 1 /\ n - 1 \in Nat
    <3>1. Some(s) \in s
      BY <2>4, SomeIn
    <3>2. Cardinality(r) = Cardinality(s) - 1 /\ Cardinality(r) \in Nat
      BY <3>1, <1>0, FS_RemoveElement
    <3> QED BY <3>2, <2>2
  <2>6. G[s] = f[Some(s)] + G[r] /\ H[s] = f[Some(s)] + H[r]
    BY <2>3, <2>4 DEF Summing
  <2>7. G[r] = H[r]
    <3>1. n - 1 < n /\ n - 1 \notin T
      BY <2>1, <2>5
    <3> QED BY <3>1, <2>5
  <2> QED BY <2>2, <2>6, <2>7
<1>2. Cardinality(S) \in Nat /\ S \in SUBSET S
  BY FS_CardinalityType
<1> QED BY <1>1, <1>2

\* What the fold computes is what any such function says.
LEMMA SumIs ==
  ASSUME NEW f, NEW A, IsFiniteSet(A), NEW S \in SUBSET A, NEW G, Summing(f, SUBSET A, G)
  PROVE  SumFunctionOnSet(f, S) = G[S]
<1>1. IsFiniteSet(S)
  BY FS_Subset
<1>2. PICK H : Summing(f, SUBSET S, H)
  BY <1>1, SummingExists
<1> DEFINE E(K) == [s \in SUBSET S |-> IF s = {} THEN 0 ELSE f[Some(s)] + K[s \ {Some(s)}]]
           C == CHOOSE K : K = E(K)
<1>3. H = E(H)
  BY <1>2 DEF Summing
<1>4. C = E(C)
  BY <1>3
<1>5. Summing(f, SUBSET S, C)
  <2> HIDE DEF C
  <2> QED BY <1>4 DEF Summing
<1>6. SumFunctionOnSet(f, S) = C[S]
  BY SumIsChoice
<1> HIDE DEF C
<1>7. C[S] = G[S]
  BY <1>1, <1>5, SummingUnique
<1> QED BY <1>6, <1>7

-----------------------------------------------------------------------------
(* Sums.                                                                   *)

\* Nothing adds up to nothing.
LEMMA SumEmpty == ASSUME NEW f PROVE SumFunctionOnSet(f, {}) = 0
<1>0. IsFiniteSet({}) /\ {} \in SUBSET {}
  BY FS_EmptySet
<1>1. PICK G : Summing(f, SUBSET {}, G)
  BY <1>0, SummingExists
<1>2. SumFunctionOnSet(f, {}) = G[{}]
  BY <1>0, <1>1, SumIs
<1>3. G[{}] = 0
  BY <1>0, <1>1 DEF Summing
<1> QED BY <1>2, <1>3

\* Sums of integers are integers, and any member may be taken first.
LEMMA SumMembers ==
  ASSUME NEW f, NEW A, IsFiniteSet(A), \A x \in A : f[x] \in Int
  PROVE  \A S \in SUBSET A :
           /\ SumFunctionOnSet(f, S) \in Int
           /\ \A x \in S : SumFunctionOnSet(f, S) = f[x] + SumFunctionOnSet(f, S \ {x})
<1>1. PICK G : Summing(f, SUBSET A, G)
  BY SummingExists
<1>2. \A S \in SUBSET A : SumFunctionOnSet(f, S) = G[S]
  BY <1>1, SumIs
<1> DEFINE P(s) == G[s] \in Int /\ \A x \in s : G[s] = f[x] + G[s \ {x}]
           T == {n \in Nat : \E s \in SUBSET A : Cardinality(s) = n /\ ~P(s)}
<1>0. \A s \in SUBSET A : IsFiniteSet(s) /\ Cardinality(s) \in Nat
  BY FS_Subset, FS_CardinalityType
<1>3. T = {}
  <2> SUFFICES ASSUME T # {} PROVE FALSE
    OBVIOUS
  <2>1. PICK n \in T : \A m \in Nat : m < n => m \notin T
    BY LeastExists
  <2>2. PICK s \in SUBSET A : Cardinality(s) = n /\ ~P(s)
    BY <2>1
  <2>3. \A r \in SUBSET A : Cardinality(r) < n => P(r)
    BY <1>0, <2>1
  <2>4. \A x \in s : Cardinality(s \ {x}) < n /\ s \ {x} \in SUBSET A
    <3> SUFFICES ASSUME NEW x \in s PROVE Cardinality(s \ {x}) < n /\ s \ {x} \in SUBSET A
      OBVIOUS
    <3>1. Cardinality(s \ {x}) = Cardinality(s) - 1 /\ Cardinality(s) \in Nat
      BY <1>0, FS_RemoveElement
    <3> QED BY <3>1, <2>2
  <2>5. s # {}
    <3>1. {} \in SUBSET A
      OBVIOUS
    <3>2. G[{}] = 0
      BY <1>1, <3>1 DEF Summing
    <3>3. P({})
      BY <3>2
    <3> HIDE DEF P
    <3> QED BY <3>3, <2>2
  <2> DEFINE y == Some(s)
  <2>6. y \in s /\ G[s] = f[y] + G[s \ {y}]
    BY <1>1, <2>5, SomeIn DEF Summing
  <2> HIDE DEF y, P
  <2>7. f[y] \in Int /\ P(s \ {y})
    BY <2>3, <2>4, <2>6
  <2>8. G[s] \in Int
    BY <2>6, <2>7 DEF P
  <2>9. ASSUME NEW x \in s PROVE G[s] = f[x] + G[s \ {x}]
    <3>1. CASE x = y
      BY <3>1, <2>6
    <3>2. CASE x # y
      <4>1. P(s \ {x}) /\ P(s \ {y})
        BY <2>3, <2>4, <2>6
      <4>2. x \in s \ {y} /\ y \in s \ {x} /\ (s \ {x}) \ {y} = (s \ {y}) \ {x}
        BY <3>2, <2>6
      <4> DEFINE r == (s \ {y}) \ {x}
      <4>3. G[s \ {y}] = f[x] + G[r]
        BY <4>1, <4>2 DEF P
      <4>4. G[s \ {x}] = f[y] + G[r]
        BY <4>1, <4>2 DEF P
      <4>5. Cardinality(r) < n /\ r \in SUBSET A
        <5>1. IsFiniteSet(s \ {y}) /\ r \subseteq s \ {y}
          BY <1>0, <2>4, <2>6
        <5>2. Cardinality(r) <= Cardinality(s \ {y}) /\ Cardinality(r) \in Nat
              /\ Cardinality(s \ {y}) \in Nat
          BY <5>1, FS_Subset, FS_CardinalityType
        <5> QED BY <5>1, <5>2, <2>4, <2>6
      <4>6. G[r] \in Int
        BY <4>5, <2>3 DEF P
      <4>7. f[x] \in Int /\ f[y] \in Int
        BY <2>6
      <4> HIDE DEF r
      <4> QED BY <2>6, <4>3, <4>4, <4>6, <4>7
    <3> QED BY <3>1, <3>2
  <2> QED BY <2>2, <2>8, <2>9 DEF P
<1>4. \A S \in SUBSET A : P(S)
  BY <1>0, <1>3
<1>5. \A S \in SUBSET A : \A x \in S : S \ {x} \in SUBSET A
  OBVIOUS
<1> QED BY <1>2, <1>4, <1>5

\* A sum of integers is an integer.
THEOREM SumType ==
  ASSUME NEW f, NEW S, IsFiniteSet(S), \A x \in S : f[x] \in Int
  PROVE  SumFunctionOnSet(f, S) \in Int
BY SumMembers

\* Any member may be taken out of a sum.
THEOREM SumRemove ==
  ASSUME NEW f, NEW S, IsFiniteSet(S), \A x \in S : f[x] \in Int, NEW x \in S
  PROVE  SumFunctionOnSet(f, S) = f[x] + SumFunctionOnSet(f, S \ {x})
BY SumMembers

\* A sum of smaller integers is smaller.
THEOREM SumOrder ==
  ASSUME NEW f, NEW g, NEW S, IsFiniteSet(S),
         \A x \in S : f[x] \in Int /\ g[x] \in Int /\ f[x] <= g[x]
  PROVE  SumFunctionOnSet(f, S) <= SumFunctionOnSet(g, S)
<1> DEFINE T == {n \in Nat : \E s \in SUBSET S : Cardinality(s) = n
                    /\ ~(SumFunctionOnSet(f, s) <= SumFunctionOnSet(g, s))}
<1>0. \A s \in SUBSET S : IsFiniteSet(s) /\ Cardinality(s) \in Nat
  BY FS_Subset, FS_CardinalityType
<1>1. T = {}
  <2> SUFFICES ASSUME T # {} PROVE FALSE
    OBVIOUS
  <2>1. PICK n \in T : \A m \in Nat : m < n => m \notin T
    BY LeastExists
  <2>2. PICK s \in SUBSET S : Cardinality(s) = n
                  /\ ~(SumFunctionOnSet(f, s) <= SumFunctionOnSet(g, s))
    BY <2>1
  <2>3. s # {}
    BY <2>2, SumEmpty
  <2>4. PICK x \in s : TRUE
    BY <2>3
  <2> DEFINE r == s \ {x}
  <2>5. r \in SUBSET S /\ Cardinality(r) \in Nat /\ Cardinality(r) < n
    BY <1>0, <2>2, FS_RemoveElement
  <2>6. SumFunctionOnSet(f, r) <= SumFunctionOnSet(g, r)
    BY <2>1, <2>5
  <2>7. /\ SumFunctionOnSet(f, s) = f[x] + SumFunctionOnSet(f, r)
        /\ SumFunctionOnSet(g, s) = g[x] + SumFunctionOnSet(g, r)
    BY <1>0, SumRemove
  <2>8. SumFunctionOnSet(f, r) \in Int /\ SumFunctionOnSet(g, r) \in Int
    BY <1>0, <2>5, SumType
  <2>9. f[x] \in Int /\ g[x] \in Int /\ f[x] <= g[x]
    OBVIOUS
  <2> HIDE DEF r
  <2> QED BY <2>2, <2>6, <2>7, <2>8, <2>9
<1>2. Cardinality(S) \in Nat /\ S \in SUBSET S
  BY FS_CardinalityType
<1> QED BY <1>1, <1>2

\* Only the values on the set count.
THEOREM SumSame ==
  ASSUME NEW f, NEW g, NEW S, IsFiniteSet(S), \A x \in S : f[x] \in Int /\ g[x] = f[x]
  PROVE  SumFunctionOnSet(g, S) = SumFunctionOnSet(f, S)
<1>1. SumFunctionOnSet(g, S) <= SumFunctionOnSet(f, S)
  BY SumOrder
<1>2. SumFunctionOnSet(f, S) <= SumFunctionOnSet(g, S)
  BY SumOrder
<1> QED BY <1>1, <1>2, SumType

\* Zeros add up to zero.
THEOREM SumZero ==
  ASSUME NEW f, NEW S, IsFiniteSet(S), \A x \in S : f[x] = 0
  PROVE  SumFunctionOnSet(f, S) = 0
<1> DEFINE T == {n \in Nat : \E s \in SUBSET S : Cardinality(s) = n
                    /\ SumFunctionOnSet(f, s) # 0}
<1>0. \A s \in SUBSET S : IsFiniteSet(s) /\ Cardinality(s) \in Nat
  BY FS_Subset, FS_CardinalityType
<1>1. T = {}
  <2> SUFFICES ASSUME T # {} PROVE FALSE
    OBVIOUS
  <2>1. PICK n \in T : \A m \in Nat : m < n => m \notin T
    BY LeastExists
  <2>2. PICK s \in SUBSET S : Cardinality(s) = n /\ SumFunctionOnSet(f, s) # 0
    BY <2>1
  <2>3. s # {}
    BY <2>2, SumEmpty
  <2>4. PICK x \in s : TRUE
    BY <2>3
  <2> DEFINE r == s \ {x}
  <2>5. r \in SUBSET S /\ Cardinality(r) \in Nat /\ Cardinality(r) < n
    BY <1>0, <2>2, FS_RemoveElement
  <2>6. SumFunctionOnSet(f, r) = 0
    BY <2>1, <2>5
  <2>7. \A y \in s : f[y] \in Int
    OBVIOUS
  <2>8. SumFunctionOnSet(f, s) = f[x] + SumFunctionOnSet(f, r)
    BY <1>0, <2>7, SumRemove
  <2> QED BY <2>2, <2>6, <2>8
<1>2. Cardinality(S) \in Nat /\ S \in SUBSET S
  BY FS_CardinalityType
<1> QED BY <1>1, <1>2

\* A sum of natural numbers is one.
THEOREM SumNat ==
  ASSUME NEW f, NEW S, IsFiniteSet(S), \A x \in S : f[x] \in Nat
  PROVE  SumFunctionOnSet(f, S) \in Nat
<1> DEFINE zero == [x \in S |-> 0]
<1>1. \A x \in S : zero[x] = 0
  OBVIOUS
<1> HIDE DEF zero
<1>2. SumFunctionOnSet(zero, S) = 0
  BY <1>1, SumZero
<1>3. \A x \in S : zero[x] \in Int /\ f[x] \in Int /\ zero[x] <= f[x]
  BY <1>1
<1>4. SumFunctionOnSet(zero, S) <= SumFunctionOnSet(f, S)
  BY <1>3, SumOrder
<1>5. SumFunctionOnSet(f, S) \in Int
  BY <1>3, SumType
<1> QED BY <1>2, <1>4, <1>5

\* A sum in which one member at most counts is that member.
THEOREM SumSingle ==
  ASSUME NEW f, NEW S, IsFiniteSet(S), \A x \in S : f[x] \in Int,
         NEW y \in S, \A x \in S : x # y => f[x] = 0
  PROVE  SumFunctionOnSet(f, S) = f[y]
<1>1. IsFiniteSet(S \ {y})
  BY FS_Subset
<1>2. \A x \in S \ {y} : f[x] = 0
  OBVIOUS
<1>3. SumFunctionOnSet(f, S \ {y}) = 0
  BY <1>1, <1>2, SumZero
<1> QED BY <1>3, SumRemove

-----------------------------------------------------------------------------
(* Sequences of sequences, one after the other.                            *)

\* The function that FlattenSeq computes, for the first n of them.
Joining(seqs, n, F) ==
  F = [i \in 1..n |-> IF i = 1 THEN seqs[i] ELSE F[i - 1] \o seqs[i]]

\* There is such a function.
LEMMA JoiningExists ==
  ASSUME NEW seqs, NEW n \in Nat
  PROVE  \E F : Joining(seqs, n, F)
<1> DEFINE P(k) == \E F : Joining(seqs, k, F)
           T == {k \in Nat : ~P(k)}
<1>1. P(0)
  <2>1. Joining(seqs, 0, [i \in 1..0 |-> 0])
    BY DEF Joining
  <2> QED BY <2>1
<1>2. ASSUME NEW k \in Nat, P(k) PROVE P(k + 1)
  <2>1. PICK F : Joining(seqs, k, F)
    BY <1>2
  <2> DEFINE H == [i \in 1..(k + 1) |-> IF i = 1 THEN seqs[i] ELSE F[i - 1] \o seqs[i]]
  <2>2. ASSUME NEW i \in 1..k PROVE H[i] = F[i]
    <3>1. F[i] = IF i = 1 THEN seqs[i] ELSE F[i - 1] \o seqs[i]
      BY <2>1 DEF Joining
    <3> QED BY <3>1
  <2>3. ASSUME NEW i \in 1..(k + 1), i # 1 PROVE H[i - 1] = F[i - 1]
    <3>1. i - 1 \in 1..k
      BY <2>3
    <3> HIDE DEF H
    <3> QED BY <2>2, <3>1
  <2>4. H = [i \in 1..(k + 1) |-> IF i = 1 THEN seqs[i] ELSE H[i - 1] \o seqs[i]]
    <3>1. \A i \in 1..(k + 1) : H[i] = IF i = 1 THEN seqs[i] ELSE H[i - 1] \o seqs[i]
      BY <2>3
    <3> QED BY <3>1
  <2>5. Joining(seqs, k + 1, H)
    <3> HIDE DEF H
    <3> QED BY <2>4 DEF Joining
  <2> QED BY <2>5
<1> HIDE DEF P
<1>3. T = {}
  <2> SUFFICES ASSUME T # {} PROVE FALSE
    OBVIOUS
  <2>1. PICK k \in T : \A m \in Nat : m < k => m \notin T
    BY LeastExists
  <2>2. k # 0 /\ k - 1 \in Nat /\ k - 1 < k /\ (k - 1) + 1 = k
    BY <1>1
  <2>3. P(k - 1)
    BY <2>1, <2>2
  <2>4. P((k - 1) + 1)
    BY <1>2, <2>2, <2>3
  <2> QED BY <2>1, <2>2, <2>4
<1> QED BY <1>3 DEF P

\* FlattenSeq is the last value of such a function.
LEMMA FlattenIsJoining ==
  ASSUME NEW seqs, Len(seqs) \in Nat, Len(seqs) # 0
  PROVE  \E F : Joining(seqs, Len(seqs), F) /\ FlattenSeq(seqs) = F[Len(seqs)]
<1> DEFINE E(K) == [i \in 1..Len(seqs) |-> IF i = 1 THEN seqs[i] ELSE K[i - 1] \o seqs[i]]
           C == CHOOSE K : K = E(K)
<1>1. PICK H : Joining(seqs, Len(seqs), H)
  BY JoiningExists
<1>2. H = E(H)
  BY <1>1 DEF Joining
<1>3. C = E(C)
  BY <1>2
<1>4. Joining(seqs, Len(seqs), C)
  <2> HIDE DEF C
  <2> QED BY <1>3 DEF Joining
<1>5. FlattenSeq(seqs) = C[Len(seqs)]
  BY DEF FlattenSeq
<1> HIDE DEF C
<1> QED BY <1>4, <1>5

\* What is in either of two sequences is in one after the other.
LEMMA JoinSet ==
  ASSUME NEW S, NEW s \in Seq(S), NEW t \in Seq(S)
  PROVE  ToSet(s \o t) = ToSet(s) \cup ToSet(t)
<1>1. /\ Len(s \o t) = Len(s) + Len(t) /\ DOMAIN (s \o t) = 1..(Len(s) + Len(t))
      /\ DOMAIN s = 1..Len(s) /\ DOMAIN t = 1..Len(t) /\ Len(s) \in Nat /\ Len(t) \in Nat
      /\ \A i \in 1..(Len(s) + Len(t)) :
           (s \o t)[i] = IF i <= Len(s) THEN s[i] ELSE t[i - Len(s)]
  OBVIOUS
<1>2. ToSet(s) \cup ToSet(t) \subseteq ToSet(s \o t)
  <2>1. ASSUME NEW i \in 1..Len(s) PROVE s[i] \in ToSet(s \o t)
    <3>1. i \in DOMAIN (s \o t) /\ (s \o t)[i] = s[i]
      BY <1>1
    <3> QED BY <3>1 DEF ToSet
  <2>2. ASSUME NEW i \in 1..Len(t) PROVE t[i] \in ToSet(s \o t)
    <3>1. i + Len(s) \in DOMAIN (s \o t) /\ (s \o t)[i + Len(s)] = t[i]
      BY <1>1
    <3> QED BY <3>1 DEF ToSet
  <2> QED BY <1>1, <2>1, <2>2 DEF ToSet
<1>3. ToSet(s \o t) \subseteq ToSet(s) \cup ToSet(t)
  <2> SUFFICES ASSUME NEW i \in 1..(Len(s) + Len(t)) PROVE (s \o t)[i] \in ToSet(s) \cup ToSet(t)
    BY <1>1 DEF ToSet
  <2>1. CASE i <= Len(s)
    BY <1>1, <2>1 DEF ToSet
  <2>2. CASE ~(i <= Len(s))
    <3>1. i - Len(s) \in 1..Len(t)
      BY <1>1, <2>2
    <3> QED BY <1>1, <2>2, <3>1 DEF ToSet
  <2> QED BY <2>1, <2>2
<1> QED BY <1>2, <1>3

\* The members of the first n sequences.
MembersUpTo(seqs, n) == UNION {ToSet(seqs[k]) : k \in 1..n}

\* Joined sequences over S are a sequence over S with the members of each.
LEMMA JoinedMembers ==
  ASSUME NEW S, NEW seqs \in Seq(Seq(S)), NEW F, Joining(seqs, Len(seqs), F)
  PROVE  \A n \in 1..Len(seqs) :
           F[n] \in Seq(S) /\ ToSet(F[n]) = MembersUpTo(seqs, n)
<1> DEFINE P(n) == F[n] \in Seq(S) /\ ToSet(F[n]) = MembersUpTo(seqs, n)
           T == {n \in Nat : n \in 1..Len(seqs) /\ ~P(n)}
<1>0. \A n \in 1..Len(seqs) : F[n] = IF n = 1 THEN seqs[n] ELSE F[n - 1] \o seqs[n]
  BY DEF Joining
<1>1. 1 \in 1..Len(seqs) => P(1)
  <2> SUFFICES ASSUME 1 \in 1..Len(seqs) PROVE P(1)
    OBVIOUS
  <2>1. F[1] = seqs[1]
    BY <1>0
  <2>2. {ToSet(seqs[k]) : k \in 1..1} = {ToSet(seqs[1])}
    OBVIOUS
  <2> QED BY <2>1, <2>2 DEF MembersUpTo
<1>2. ASSUME NEW n \in 1..Len(seqs), n # 1, P(n - 1) PROVE P(n)
  <2>0. F[n] = F[n - 1] \o seqs[n]
    <3> HIDE DEF P
    <3> QED BY <1>0, <1>2
  <2>1. F[n] = F[n - 1] \o seqs[n] /\ seqs[n] \in Seq(S) /\ F[n - 1] \in Seq(S)
    <3>1. seqs[n] \in Seq(S)
      OBVIOUS
    <3> QED BY <1>2, <2>0, <3>1
  <2>2. ToSet(F[n]) = ToSet(F[n - 1]) \cup ToSet(seqs[n])
    BY <2>1, JoinSet
  <2>3. MembersUpTo(seqs, n) =
          MembersUpTo(seqs, n - 1) \cup ToSet(seqs[n])
    <3>1. 1..n = (1..(n - 1)) \cup {n}
      BY <1>2
    <3> QED BY <3>1 DEF MembersUpTo
  <2> QED BY <1>2, <2>1, <2>2, <2>3
<1>3. T = {}
  <2> HIDE DEF P
  <2> SUFFICES ASSUME T # {} PROVE FALSE
    OBVIOUS
  <2>1. PICK n \in T : \A m \in Nat : m < n => m \notin T
    BY LeastExists
  <2>2. n # 1
    BY <1>1
  <2>3. n - 1 \in 1..Len(seqs) /\ n - 1 \in Nat /\ n - 1 < n
    BY <2>2
  <2>4. P(n - 1)
    BY <2>1, <2>3
  <2> QED BY <2>1, <1>2, <2>2, <2>4
<1>4. \A n \in 1..Len(seqs) : P(n)
  <2> HIDE DEF P
  <2> QED BY <1>3
<1> QED BY <1>4

\* A finite set as a sequence names each of its elements once.
LEMMA OneEach ==
  ASSUME NEW S, IsFiniteSet(S)
  PROVE  /\ Cardinality(S) \in Nat
         /\ SetToSeq(S) \in [1..Cardinality(S) -> S]
         /\ \A i, j \in 1..Cardinality(S) : SetToSeq(S)[i] = SetToSeq(S)[j] => i = j
         /\ \A x \in S : \E i \in 1..Cardinality(S) : SetToSeq(S)[i] = x
<1> DEFINE n == Cardinality(S)
           f == SetToSeq(S)
<1>1. n \in Nat /\ ExistsBijection(1..n, S)
  BY FS_CardinalityType
<1>2. \E g \in [1..n -> S] : IsInjective(g)
  BY <1>1 DEF ExistsBijection, Bijection, Injection
<1>3. f \in [1..n -> S] /\ IsInjective(f)
  BY <1>2 DEF SetToSeq
<1>4. f \in Injection(1..n, S)
  BY <1>3 DEF Injection
<1>5. IsFiniteSet(1..n) /\ Cardinality(1..n) = n
  BY <1>1, FS_Interval
<1>6. f \in Surjection(1..n, S)
  BY <1>4, <1>5, FS_Injection
<1> QED BY <1>1, <1>3, <1>6 DEF IsInjective, Surjection

\* The sequence of all sequences over S is one over S, with the members of all.
THEOREM FlattenMembers ==
  ASSUME NEW S, NEW seqs \in Seq(Seq(S))
  PROVE  /\ FlattenSeq(seqs) \in Seq(S)
         /\ ToSet(FlattenSeq(seqs)) = UNION {ToSet(seqs[k]) : k \in DOMAIN seqs}
<1>1. CASE Len(seqs) = 0
  <2>1. FlattenSeq(seqs) = seqs
    BY <1>1 DEF FlattenSeq
  <2>2. seqs = <<>> /\ DOMAIN seqs = {}
    BY <1>1
  <2> QED BY <2>1, <2>2 DEF ToSet
<1>2. CASE Len(seqs) # 0
  <2>1. Len(seqs) \in Nat /\ DOMAIN seqs = 1..Len(seqs) /\ Len(seqs) \in 1..Len(seqs)
    BY <1>2
  <2>2. PICK F : Joining(seqs, Len(seqs), F) /\ FlattenSeq(seqs) = F[Len(seqs)]
    BY <1>2, <2>1, FlattenIsJoining
  <2>3. /\ F[Len(seqs)] \in Seq(S)
        /\ ToSet(F[Len(seqs)]) = UNION {ToSet(seqs[k]) : k \in 1..Len(seqs)}
    <3>1. \A n \in 1..Len(seqs) :
            F[n] \in Seq(S) /\ ToSet(F[n]) = MembersUpTo(seqs, n)
      BY <2>2, JoinedMembers
    <3> QED BY <2>1, <3>1 DEF MembersUpTo
  <2> QED BY <2>1, <2>2, <2>3
<1> QED BY <1>1, <1>2

-----------------------------------------------------------------------------
(* Sums up to a number, and where what is concatenated ends up.            *)

\* Of two numbers the smaller.
THEOREM MinOfTwo ==
  ASSUME NEW i \in Int, NEW j \in Int
  PROVE  Min({i, j}) = IF i <= j THEN i ELSE j
<1> DEFINE least(x) == x \in {i, j} /\ \A y \in {i, j} : x =< y
<1>1. Min({i, j}) = CHOOSE x : least(x)
  BY DEF Min
<1>2. least(IF i <= j THEN i ELSE j)
  OBVIOUS
<1>3. least(CHOOSE x : least(x))
  <2> HIDE DEF least
  <2> QED BY <1>2
<1>4. least(Min({i, j}))
  <2> HIDE DEF least
  <2> QED BY <1>1, <1>3
<1> QED BY <1>4

\* Of two numbers the larger.
THEOREM MaxOfTwo ==
  ASSUME NEW i \in Int, NEW j \in Int
  PROVE  Max({i, j}) = IF i <= j THEN j ELSE i
<1> DEFINE most(x) == x \in {i, j} /\ \A y \in {i, j} : x >= y
<1>1. Max({i, j}) = CHOOSE x : most(x)
  BY DEF Max
<1>2. most(IF i <= j THEN j ELSE i)
  OBVIOUS
<1>3. most(CHOOSE x : most(x))
  <2> HIDE DEF most
  <2> QED BY <1>2
<1>4. most(Max({i, j}))
  <2> HIDE DEF most
  <2> QED BY <1>1, <1>3
<1> QED BY <1>4

\* A sum up to n is the sum up to n - 1 and the n-th summand.
THEOREM SumUpTo ==
  ASSUME NEW f, NEW n \in Nat, n # 0, \A i \in 1..n : f[i] \in Int
  PROVE  SumFunctionOnSet(f, 1..n) = SumFunctionOnSet(f, 1..(n - 1)) + f[n]
<1>1. IsFiniteSet(1..n) /\ n \in 1..n /\ (1..n) \ {n} = 1..(n - 1)
  BY FS_Interval
<1>2. SumFunctionOnSet(f, 1..n) = f[n] + SumFunctionOnSet(f, 1..(n - 1))
  <2>1. SumFunctionOnSet(f, 1..n) = f[n] + SumFunctionOnSet(f, (1..n) \ {n})
    BY <1>1, SumRemove
  <2> QED BY <1>1, <2>1
<1>3. IsFiniteSet(1..(n - 1)) /\ \A i \in 1..(n - 1) : f[i] \in Int
  BY FS_Interval
<1>4. SumFunctionOnSet(f, 1..(n - 1)) \in Int
  BY <1>3, SumType
<1> QED BY <1>1, <1>2, <1>4

\* A sum of natural numbers up to i is no larger than the one up to n.
THEOREM SumFurther ==
  ASSUME NEW f, NEW n \in Nat, \A i \in 1..n : f[i] \in Nat, NEW k \in 0..n
  PROVE  SumFunctionOnSet(f, 1..k) <= SumFunctionOnSet(f, 1..n)
<1> DEFINE sum(i) == SumFunctionOnSet(f, 1..i)
           T == {i \in Nat : i \in k..n /\ ~ (sum(k) <= sum(i))}
<1>0. ASSUME NEW i \in 0..n PROVE sum(i) \in Int
  <2>1. IsFiniteSet(1..i) /\ \A j \in 1..i : f[j] \in Int
    BY FS_Interval
  <2> QED BY <2>1, SumType
<1>1. ASSUME NEW i \in (k+1)..n PROVE sum(i) = sum(i - 1) + f[i] /\ f[i] \in Nat
  <2>1. i \in Nat /\ i # 0 /\ \A j \in 1..i : f[j] \in Int
    OBVIOUS
  <2> QED BY <2>1, SumUpTo
<1>2. T = {}
  <2> SUFFICES ASSUME T # {} PROVE FALSE
    OBVIOUS
  <2>1. PICK i \in T : \A m \in Nat : m < i => m \notin T
    BY LeastExists
  <2> HIDE DEF sum
  <2>2. i # k
    BY <1>0
  <2>3. i \in (k+1)..n /\ i - 1 \in Nat /\ i - 1 < i /\ i - 1 \in k..n /\ i - 1 \in 0..n
    BY <2>2
  <2>4. sum(k) <= sum(i - 1)
    BY <2>1, <2>3
  <2>5. sum(i) = sum(i - 1) + f[i] /\ f[i] \in Nat
    BY <1>1, <2>3
  <2>6. sum(k) \in Int /\ sum(i - 1) \in Int /\ sum(i) \in Int
    BY <1>0, <2>3
  <2> QED BY <2>4, <2>5, <2>6
<1> HIDE DEF sum
<1>3. n \in Nat /\ n \in k..n
  OBVIOUS
<1>4. sum(k) <= sum(n)
  BY <1>2, <1>3
<1> QED BY <1>4 DEF sum

\* n summands of at most m add up to at most n * m.
THEOREM SumAtMost ==
  ASSUME NEW f, NEW n \in Nat, NEW m \in Nat, \A i \in 1..n : f[i] \in Nat /\ f[i] <= m
  PROVE  SumFunctionOnSet(f, 1..n) <= n * m
<1> DEFINE sum(i) == SumFunctionOnSet(f, 1..i)
           T == {i \in Nat : i \in 0..n /\ ~ (sum(i) <= i * m)}
<1>0. ASSUME NEW i \in 0..n PROVE sum(i) \in Int
  <2>1. IsFiniteSet(1..i) /\ \A j \in 1..i : f[j] \in Int
    BY FS_Interval
  <2> QED BY <2>1, SumType
<1>1. ASSUME NEW i \in 1..n PROVE sum(i) = sum(i - 1) + f[i] /\ f[i] \in Nat /\ f[i] <= m
  <2>1. i \in Nat /\ i # 0 /\ \A j \in 1..i : f[j] \in Int
    OBVIOUS
  <2> QED BY <2>1, SumUpTo
<1>2. sum(0) = 0
  <2>1. 1..0 = {}
    OBVIOUS
  <2> QED BY <2>1, SumEmpty
<1>3. T = {}
  <2> SUFFICES ASSUME T # {} PROVE FALSE
    OBVIOUS
  <2>1. PICK i \in T : \A j \in Nat : j < i => j \notin T
    BY LeastExists
  <2> HIDE DEF sum
  <2>2. i # 0
    BY <1>2
  <2>3. i \in 1..n /\ i - 1 \in Nat /\ i - 1 < i /\ i - 1 \in 0..n
    BY <2>2
  <2>4. sum(i - 1) <= (i - 1) * m
    BY <2>1, <2>3
  <2>5. sum(i) = sum(i - 1) + f[i] /\ f[i] \in Nat /\ f[i] <= m
    BY <1>1, <2>3
  <2>6. sum(i - 1) \in Int /\ (i - 1) * m \in Int /\ i * m = (i - 1) * m + m /\ i * m \in Int
    BY <1>0, <2>3
  <2> QED BY <2>4, <2>5, <2>6
<1> HIDE DEF sum
<1>4. n \in Nat /\ n \in 0..n
  OBVIOUS
<1>5. sum(n) <= n * m
  BY <1>3, <1>4
<1> QED BY <1>5 DEF sum

\* s is as long as the first n sequences together, which lie in it in turn.
InTurn(seqs, lens, n, s) ==
  /\ Len(s) = SumFunctionOnSet(lens, 1..n)
  /\ \A k \in 1..n : \A j \in 1..Len(seqs[k]) :
       s[SumFunctionOnSet(lens, 1..(k - 1)) + j] = seqs[k][j]

\* The lengths of joined sequences add up, and each keeps its order.
LEMMA JoinedPositions ==
  ASSUME NEW S, NEW N \in Nat, NEW seqs, NEW F, NEW lens,
         \A n \in 1..N : F[n] \in Seq(S) /\ seqs[n] \in Seq(S),
         \A n \in 1..N : F[n] = IF n = 1 THEN seqs[n] ELSE F[n - 1] \o seqs[n],
         \A n \in 1..N : lens[n] \in Nat /\ lens[n] = Len(seqs[n])
  PROVE  \A n \in 1..N : InTurn(seqs, lens, n, F[n])
<1> DEFINE sum(i) == SumFunctionOnSet(lens, 1..i)
           Here(n) == /\ Len(F[n]) = sum(n)
                      /\ \A k \in 1..n : \A j \in 1..Len(seqs[k]) :
                           F[n][sum(k - 1) + j] = seqs[k][j]
           T == {n \in Nat : n \in 1..N /\ ~ Here(n)}
<1>1. sum(0) = 0
  <2>1. 1..0 = {}
    OBVIOUS
  <2> QED BY <2>1, SumEmpty
<1>2. ASSUME NEW n \in 1..N
      PROVE  sum(n) = sum(n - 1) + Len(seqs[n]) /\ sum(n - 1) \in Nat /\ sum(n) \in Nat
             /\ Len(seqs[n]) \in Nat
  <2>1. n \in Nat /\ n # 0 /\ \A j \in 1..n : lens[j] \in Int
    OBVIOUS
  <2>2. sum(n) = sum(n - 1) + lens[n]
    BY <2>1, SumUpTo
  <2>3. IsFiniteSet(1..(n - 1)) /\ \A j \in 1..(n - 1) : lens[j] \in Nat
    BY FS_Interval
  <2>4. sum(n - 1) \in Nat
    BY <2>3, SumNat
  <2> HIDE DEF sum
  <2>5. lens[n] = Len(seqs[n]) /\ lens[n] \in Nat
    OBVIOUS
  <2> QED BY <2>2, <2>4, <2>5
<1> HIDE DEF sum
<1>3. 1 \in 1..N => Here(1)
  <2> SUFFICES ASSUME 1 \in 1..N PROVE Here(1)
    OBVIOUS
  <2>1. F[1] = seqs[1]
    OBVIOUS
  <2>2. sum(1) = sum(1 - 1) + Len(seqs[1]) /\ Len(seqs[1]) \in Nat
    BY <1>2
  <2>3. sum(1 - 1) = 0
    BY <1>1
  <2> QED BY <2>1, <2>2, <2>3
<1>4. ASSUME NEW n \in 1..N, n # 1, Here(n - 1) PROVE Here(n)
  <2>0. n - 1 \in 1..N
    BY <1>4
  <2> DEFINE s == F[n - 1]
             t == seqs[n]
  <2>1. F[n] = s \o t /\ s \in Seq(S) /\ t \in Seq(S)
    BY <1>4, <2>0
  <2>2. Len(s) = sum(n - 1) /\ sum(n) = sum(n - 1) + Len(t)
        /\ sum(n - 1) \in Nat /\ Len(t) \in Nat
    BY <1>4, <1>2
  <2>3. Len(F[n]) = sum(n)
    <3> HIDE DEF s, t
    <3>1. Len(s \o t) = Len(s) + Len(t)
      BY <2>1
    <3> QED BY <2>1, <2>2, <3>1
  <2>4. ASSUME NEW k \in 1..n, NEW j \in 1..Len(seqs[k])
        PROVE  F[n][sum(k - 1) + j] = seqs[k][j]
    <3>1. CASE k = n
      <4>1. j \in 1..Len(t) /\ seqs[k][j] = t[j]
        BY <3>1
      <4> HIDE DEF s, t
      <4>2. (s \o t)[Len(s) + j] = t[j]
        BY <4>1, <2>1
      <4> QED BY <4>1, <4>2, <3>1, <2>1, <2>2
    <3>2. CASE k # n
      <4>1. k \in 1..(n - 1) /\ k \in 1..N
        BY <3>2
      <4>2. s[sum(k - 1) + j] = seqs[k][j]
        BY <4>1, <1>4
      <4>3. sum(k) = sum(k - 1) + Len(seqs[k]) /\ sum(k - 1) \in Nat /\ Len(seqs[k]) \in Nat
            /\ sum(k) \in Nat
        BY <4>1, <1>2
      <4>4. sum(k) <= sum(n - 1)
        <5>1. n - 1 \in Nat /\ (\A i \in 1..(n - 1) : lens[i] \in Nat) /\ k \in 0..(n - 1)
          BY <4>1
        <5> QED BY <5>1, SumFurther DEF sum
      <4> HIDE DEF s, t
      <4>5. sum(k - 1) + j \in 1..Len(s)
        BY <4>3, <4>4, <2>2
      <4>6. (s \o t)[sum(k - 1) + j] = s[sum(k - 1) + j]
        BY <4>5, <2>1
      <4> QED BY <4>2, <4>6, <2>1
    <3> QED BY <3>1, <3>2
  <2> QED BY <2>3, <2>4
<1>5. T = {}
  <2> HIDE DEF Here
  <2> SUFFICES ASSUME T # {} PROVE FALSE
    OBVIOUS
  <2>1. PICK n \in T : \A m \in Nat : m < n => m \notin T
    BY LeastExists
  <2>2. n # 1
    BY <1>3
  <2>3. n - 1 \in 1..N /\ n - 1 \in Nat /\ n - 1 < n
    BY <2>2
  <2>4. Here(n - 1)
    BY <2>1, <2>3
  <2> QED BY <2>1, <1>4, <2>2, <2>4
<1>6. \A n \in 1..N : Here(n)
  <2> HIDE DEF Here
  <2> QED BY <1>5
<1> QED BY <1>6 DEF sum, InTurn

\* Where the elements of the single sequences are in the sequence of all.
THEOREM FlattenPositions ==
  ASSUME NEW S, NEW seqs \in Seq(Seq(S)),
         NEW lens, \A k \in 1..Len(seqs) : lens[k] = Len(seqs[k])
  PROVE  InTurn(seqs, lens, Len(seqs), FlattenSeq(seqs))
<1>1. CASE Len(seqs) = 0
  <2>1. FlattenSeq(seqs) = seqs
    BY <1>1 DEF FlattenSeq
  <2>2. 1..0 = {}
    OBVIOUS
  <2> QED BY <1>1, <2>1, <2>2, SumEmpty DEF InTurn
<1>2. CASE Len(seqs) # 0
  <2>1. Len(seqs) \in Nat /\ Len(seqs) \in 1..Len(seqs)
    BY <1>2
  <2>2. PICK F : Joining(seqs, Len(seqs), F) /\ FlattenSeq(seqs) = F[Len(seqs)]
    BY <1>2, <2>1, FlattenIsJoining
  <2>3. /\ \A n \in 1..Len(seqs) : F[n] \in Seq(S)
        /\ \A n \in 1..Len(seqs) : seqs[n] \in Seq(S)
        /\ \A n \in 1..Len(seqs) : F[n] = IF n = 1 THEN seqs[n] ELSE F[n - 1] \o seqs[n]
    <3>1. \A n \in 1..Len(seqs) : F[n] \in Seq(S)
      BY <2>2, JoinedMembers
    <3>2. \A n \in 1..Len(seqs) : F[n] = IF n = 1 THEN seqs[n] ELSE F[n - 1] \o seqs[n]
      BY <2>2 DEF Joining
    <3> QED BY <3>1, <3>2
  <2>4. \A n \in 1..Len(seqs) : lens[n] \in Nat /\ lens[n] = Len(seqs[n])
    <3> SUFFICES ASSUME NEW n \in 1..Len(seqs) PROVE lens[n] \in Nat /\ lens[n] = Len(seqs[n])
      OBVIOUS
    <3>1. Len(seqs[n]) \in Nat
      BY <2>3
    <3> QED BY <3>1
  <2>5. \A n \in 1..Len(seqs) : InTurn(seqs, lens, n, F[n])
    <3> DEFINE N == Len(seqs)
    <3>1. N \in Nat
      BY <2>1
    <3> HIDE DEF N
    <3>2. /\ \A n \in 1..N : F[n] \in Seq(S) /\ seqs[n] \in Seq(S)
          /\ \A n \in 1..N : F[n] = IF n = 1 THEN seqs[n] ELSE F[n - 1] \o seqs[n]
          /\ \A n \in 1..N : lens[n] \in Nat /\ lens[n] = Len(seqs[n])
      BY <2>3, <2>4 DEF N
    <3>3. \A n \in 1..N : InTurn(seqs, lens, n, F[n])
      BY <3>1, <3>2, JoinedPositions
    <3> QED BY <3>3 DEF N
  <2> QED BY <2>1, <2>2, <2>5
<1> QED BY <1>1, <1>2

\* A finite set written as a list, in any order, names each element once.
THEOREM ListedOnce ==
  ASSUME NEW S, IsFiniteSet(S), NEW list \in SetToSeqs(S)
  PROVE  /\ list \in Seq(S) /\ Len(list) = Cardinality(S) /\ ToSet(list) = S
         /\ \A i, j \in 1..Len(list) : list[i] = list[j] => i = j
<1> DEFINE n == Cardinality(S)
<1>1. n \in Nat
  BY FS_CardinalityType
<1>2. list \in [1..n -> S] /\ \A i, j \in 1..n : i # j => list[i] # list[j]
  BY DEF SetToSeqs
<1>3. list \in Injection(1..n, S)
  BY <1>2 DEF Injection, IsInjective
<1>4. IsFiniteSet(1..n) /\ Cardinality(1..n) = n
  BY <1>1, FS_Interval
<1>5. list \in Surjection(1..n, S)
  BY <1>3, <1>4, FS_Injection
<1>6. list \in Seq(S) /\ Len(list) = n /\ DOMAIN list = 1..n
  BY <1>1, <1>2
<1>7. ToSet(list) = S
  BY <1>5, <1>6 DEF Surjection, ToSet
<1> QED BY <1>2, <1>6, <1>7

\* There is such a list.
THEOREM ListExists ==
  ASSUME NEW S, IsFiniteSet(S)
  PROVE  SetToSeqs(S) # {}
<1>1. SetToSeq(S) \in [1..Cardinality(S) -> S]
      /\ \A i, j \in 1..Cardinality(S) : SetToSeq(S)[i] = SetToSeq(S)[j] => i = j
  BY OneEach
<1>2. SetToSeq(S) \in SetToSeqs(S)
  BY <1>1 DEF SetToSeqs
<1> QED BY <1>2

\* A sequence has no more members than places.
THEOREM MembersBounded ==
  ASSUME NEW S, NEW list \in Seq(S)
  PROVE  IsFiniteSet(ToSet(list)) /\ Cardinality(ToSet(list)) <= Len(list)
<1>1. Len(list) \in Nat /\ DOMAIN list = 1..Len(list) /\ list \in [1..Len(list) -> S]
  OBVIOUS
<1>2. list \in Surjection(1..Len(list), ToSet(list))
  BY <1>1 DEF Surjection, ToSet
<1>3. IsFiniteSet(1..Len(list)) /\ Cardinality(1..Len(list)) = Len(list)
  BY <1>1, FS_Interval
<1> QED BY <1>2, <1>3, FS_Surjection

-----------------------------------------------------------------------------
(* Folds whose operation stays within a set.  The operation of a model's     *)
(* fold is an operator; the function step says what it does to members of    *)
(* that set, and a fold by the operator agrees with one by the function.     *)

\* c picks a member of each subset.
Picks(c, S) == \A s \in SUBSET S : s # {} => c[s] \in s

\* G is what a fold over the subsets of S computes, one step per member.
Folding(G, S, c, base, step) ==
  \A s \in SUBSET S :
    G[s] = IF s = {} THEN base ELSE step[<<G[s \ {c[s]}], c[s]>>]

\* A recursion over the subsets of a finite set that steps within a set V has
\* a solution.
LEMMA FoldExists ==
  ASSUME NEW S, IsFiniteSet(S), NEW c, Picks(c, S), NEW V, NEW base \in V,
         NEW step \in [V \X S -> V]
  PROVE  \E G \in [SUBSET S -> V] : Folding(G, S, c, base, step)
<1> DEFINE D(n) == {s \in SUBSET S : Cardinality(s) <= n}
           R(G, s) == IF s = {} THEN base ELSE step[<<G[s \ {c[s]}], c[s]>>]
           P(n) == \E G \in [SUBSET S -> V] : \A s \in D(n) : G[s] = R(G, s)
           T == {n \in Nat : ~P(n)}
<1>0. \A s \in SUBSET S : IsFiniteSet(s) /\ Cardinality(s) \in Nat /\ Cardinality(s) <= Cardinality(S)
  BY FS_Subset, FS_CardinalityType
<1>1. P(0)
  <2>1. D(0) = {{}}
    BY <1>0, FS_EmptySet
  <2> DEFINE G == [s \in SUBSET S |-> base]
  <2>2. G \in [SUBSET S -> V] /\ \A s \in D(0) : G[s] = R(G, s)
    BY <2>1
  <2> HIDE DEF G, D, R
  <2> QED BY <2>2
<1>2. ASSUME NEW n \in Nat, P(n) PROVE P(n + 1)
  <2>1. PICK G \in [SUBSET S -> V] : \A s \in D(n) : G[s] = R(G, s)
    BY <1>2
  <2>2. ASSUME NEW s \in SUBSET S, s # {}
        PROVE  /\ c[s] \in s /\ s \ {c[s]} \in SUBSET S
               /\ Cardinality(s \ {c[s]}) = Cardinality(s) - 1
    <3>1. c[s] \in s
      BY <2>2 DEF Picks
    <3> QED BY <3>1, <1>0, FS_RemoveElement
  <2> DEFINE H == [s \in SUBSET S |-> R(G, s)]
  <2>3. H \in [SUBSET S -> V]
    <3>1. ASSUME NEW s \in SUBSET S PROVE R(G, s) \in V
      <4>1. CASE s = {}
        BY <4>1
      <4>2. CASE s # {}
        <5>1. <<G[s \ {c[s]}], c[s]>> \in V \X S
          BY <2>2, <4>2
        <5> QED BY <4>2, <5>1
      <4> QED BY <4>1, <4>2
    <3> HIDE DEF R
    <3> QED BY <3>1
  <2>4. \A s \in D(n) : H[s] = G[s]
    <3> HIDE DEF R
    <3> QED BY <2>1
  <2>5. ASSUME NEW s \in D(n + 1) PROVE H[s] = R(H, s)
    <3>1. H[s] = R(G, s)
      OBVIOUS
    <3>2. CASE s = {}
      BY <3>1, <3>2
    <3>3. CASE s # {}
      <4>1. s \ {c[s]} \in D(n)
        BY <3>3, <2>2, <1>0
      <4>2. H[s \ {c[s]}] = G[s \ {c[s]}]
        BY <2>4, <4>1
      <4> HIDE DEF H
      <4> QED BY <3>1, <3>3, <4>2
    <3> QED BY <3>2, <3>3
  <2> HIDE DEF H, R, D
  <2> QED BY <2>3, <2>5
<1> HIDE DEF P
<1>3. T = {}
  <2> SUFFICES ASSUME T # {} PROVE FALSE
    OBVIOUS
  <2>1. PICK n \in T : \A m \in Nat : m < n => m \notin T
    BY LeastExists
  <2>2. n # 0 /\ n - 1 \in Nat /\ n - 1 < n /\ (n - 1) + 1 = n
    BY <1>1
  <2>3. P(n - 1)
    BY <2>1, <2>2
  <2>4. P((n - 1) + 1)
    BY <1>2, <2>2, <2>3
  <2> QED BY <2>1, <2>2, <2>4
<1>4. P(Cardinality(S))
  BY <1>3, FS_CardinalityType
<1>5. D(Cardinality(S)) = SUBSET S
  BY <1>0
<1> HIDE DEF D, R
<1>6. PICK G \in [SUBSET S -> V] : \A s \in SUBSET S : G[s] = R(G, s)
  BY <1>4, <1>5 DEF P
<1> QED BY <1>6 DEF R, Folding

\* Two functions step in the same way.
Alike(G, H, S, c) ==
  \A s \in SUBSET S : s = {} \/ G[s \ {c[s]}] = H[s \ {c[s]}] => G[s] = H[s]

\* Two functions with the same recursion over the subsets agree.
LEMMA FoldAgree ==
  ASSUME NEW S, IsFiniteSet(S), NEW c, Picks(c, S), NEW G, NEW H,
         Alike(G, H, S, c)
  PROVE  G[S] = H[S]
<1> DEFINE T == {n \in Nat : \E s \in SUBSET S : Cardinality(s) = n /\ G[s] # H[s]}
<1>0. \A s \in SUBSET S : IsFiniteSet(s) /\ Cardinality(s) \in Nat
  BY FS_Subset, FS_CardinalityType
<1>1. T = {}
  <2> SUFFICES ASSUME T # {} PROVE FALSE
    OBVIOUS
  <2>1. PICK n \in T : \A m \in Nat : m < n => m \notin T
    BY LeastExists
  <2>2. PICK s \in SUBSET S : Cardinality(s) = n /\ G[s] # H[s]
    BY <2>1
  <2>3. s # {} /\ G[s \ {c[s]}] # H[s \ {c[s]}]
    BY <2>2 DEF Alike
  <2> DEFINE r == s \ {c[s]}
  <2>4. r \in SUBSET S /\ Cardinality(r) = n - 1 /\ n - 1 \in Nat
    <3>1. c[s] \in s
      BY <2>3 DEF Picks
    <3>2. Cardinality(r) = Cardinality(s) - 1 /\ Cardinality(r) \in Nat
      BY <3>1, <1>0, FS_RemoveElement
    <3> QED BY <3>2, <2>2
  <2>5. n - 1 < n /\ n - 1 \in T
    BY <2>3, <2>4
  <2> QED BY <2>1, <2>4, <2>5
<1>2. Cardinality(S) \in Nat /\ S \in SUBSET S
  BY FS_CardinalityType
<1> QED BY <1>1, <1>2

\* The largest of some numbers is one of them.
LEMMA MaxIn ==
  ASSUME NEW n \in Nat, NEW s \in SUBSET (1..n), s # {}
  PROVE  Max(s) \in s
<1> DEFINE T == {k \in Nat : n - k \in s}
<1>1. T # {}
  <2>1. PICK i \in s : TRUE
    OBVIOUS
  <2>2. n - i \in Nat /\ n - (n - i) = i
    OBVIOUS
  <2> QED BY <2>2
<1>2. PICK k \in T : \A m \in Nat : m < k => m \notin T
  BY <1>1, LeastExists
<1>3. ASSUME NEW y \in s PROVE n - k >= y
  <2>1. n - y \in Nat /\ n - (n - y) = y
    OBVIOUS
  <2>2. n - y \in T
    BY <2>1
  <2> QED BY <1>2, <2>1, <2>2
<1>4. n - k \in s
  BY <1>2
<1>5. \E x \in s : \A y \in s : x >= y
  BY <1>3, <1>4
<1> QED BY <1>5 DEF Max
=============================================================================

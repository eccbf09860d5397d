----------------------------- MODULE Induction -----------------------------
(***************************************************************************)
(* The induction the proofs use, as facts about sets: a set of natural      *)
(* numbers has a least element.  From it, what SumFunctionOnSet of the      *)
(* community modules, which takes the elements of a finite set in whatever  *)
(* order CHOOSE gives, makes of a set: the order does not matter.  And what *)
(* taking a member out of a sequence leaves of it.                          *)
(***************************************************************************)
EXTENDS Integers, Functions, SequencesExt, FiniteSetTheorems, SequenceTheorems, TLAPS

Precedes == {p \in Nat \X Nat : p[1] < p[2]}

LEMMA PrecedesWellFounded == IsWellFoundedOn(Precedes, Nat)
<1>1. IsWellFoundedOn(OpToRel(<, Nat), Nat)
  BY NatLessThanWellFounded
<1> QED BY <1>1 DEF OpToRel, Precedes

\* A set of natural numbers that is not empty has a least element.
LEMMA Least ==
    ASSUME NEW T \in SUBSET Nat, T # {}
    PROVE  \E x \in T : \A y \in T : x <= y
<1>1. PICK x \in T : \A y \in T : ~ (<<y, x>> \in Precedes)
  BY PrecedesWellFounded, WFMin
<1>2. ASSUME NEW y \in T PROVE x <= y
  <2>1. <<y, x>> \notin Precedes
    BY <1>1
  <2> QED BY <2>1 DEF Precedes
<1> QED BY <1>2

\* It is what Min gives.
LEMMA MinIs ==
    ASSUME NEW T \in SUBSET Nat, T # {}
    PROVE  Min(T) \in T /\ \A y \in T : Min(T) <= y
<1>1. PICK x \in T : \A y \in T : x <= y
  BY Least
<1> QED BY <1>1, Zenon DEF Min

\* A set of natural numbers with an upper bound that is not empty has a greatest one.
LEMMA Greatest ==
    ASSUME NEW n \in Nat, NEW T \in SUBSET (0..n), T # {}
    PROVE  Max(T) \in T /\ \A y \in T : y <= Max(T)
<1> DEFINE D == {n - x : x \in T}
<1>1. D \in SUBSET Nat /\ D # {}
  <2>1. \A x \in T : x \in 0..n
    OBVIOUS
  <2>2. \A x \in 0..n : n - x \in Nat
    OBVIOUS
  <2> QED BY <2>1, <2>2
<1>2. PICK d \in D : \A e \in D : d <= e
  BY <1>1, Least
<1>3. PICK x \in T : d = n - x
  BY <1>2
<1>4. \A y \in T : x >= y
  <2>1. ASSUME NEW y \in T PROVE x >= y
    <3>1. n - y \in D /\ x \in Int /\ y \in Int /\ n \in Int
      OBVIOUS
    <3>2. n - x <= n - y
      BY <1>2, <1>3, <3>1
    <3> HIDE DEF D
    <3> QED BY <3>1, <3>2
  <2> QED BY <2>1
<1>5. Max(T) \in T /\ \A y \in T : Max(T) >= y
  BY <1>4, Zenon DEF Max
<1> QED BY <1>5

\* A set of finite sets that is not empty has a smallest member.
LEMMA Smallest ==
    ASSUME NEW C, C # {}, \A s \in C : IsFiniteSet(s)
    PROVE  \E s \in C : \A t \in C : Cardinality(s) <= Cardinality(t)
<1> DEFINE T == {Cardinality(s) : s \in C}
<1>1. T \in SUBSET Nat /\ T # {}
  BY FS_CardinalityType
<1>2. PICK n \in T : \A m \in T : n <= m
  BY <1>1, Least
<1> QED BY <1>2

\* What is left of a finite set without one of its elements is smaller.
LEMMA Smaller ==
    ASSUME NEW s, IsFiniteSet(s), NEW x \in s
    PROVE  /\ IsFiniteSet(s \ {x})
           /\ Cardinality(s \ {x}) < Cardinality(s)
<1>1. IsFiniteSet(s \ {x}) /\ Cardinality(s \ {x}) = Cardinality(s) - 1
  BY FS_RemoveElement
<1>2. Cardinality(s) \in Nat
  BY FS_CardinalityType
<1> QED BY <1>1, <1>2

\* Induction over finite sets: of a set of them that is not empty, some member has no
\* other that is one element smaller.
LEMMA Minimal ==
    ASSUME NEW C, C # {}, \A s \in C : IsFiniteSet(s)
    PROVE  \E s \in C : \A x \in s : s \ {x} \notin C
<1>1. PICK s \in C : \A t \in C : Cardinality(s) <= Cardinality(t)
  BY Smallest
<1>2. ASSUME NEW x \in s, s \ {x} \in C PROVE FALSE
  BY <1>1, <1>2, Smaller, FS_CardinalityType
<1> QED BY <1>2

-----------------------------------------------------------------------------
(* SumFunctionOnSet. *)

Pick(s) == CHOOSE x \in s : TRUE

\* The recursion MapThenFoldSet stands for.
Unfolds(f, S, g) ==
    g = [s \in SUBSET S |-> IF s = {} THEN 0 ELSE f[Pick(s)] + g[s \ {Pick(s)}]]

LEMMA PickIn == ASSUME NEW s, s # {} PROVE Pick(s) \in s
BY DEF Pick

LEMMA UnfoldsAt ==
    ASSUME NEW f, NEW S, NEW g, Unfolds(f, S, g), NEW s \in SUBSET S
    PROVE  g[s] = IF s = {} THEN 0 ELSE f[Pick(s)] + g[s \ {Pick(s)}]
BY DEF Unfolds

LEMMA UnfoldsOnce ==
    ASSUME NEW f, NEW S, IsFiniteSet(S), NEW g, NEW h, Unfolds(f, S, g), Unfolds(f, S, h)
    PROVE  g = h
<1> DEFINE C == {s \in SUBSET S : g[s] # h[s]}
<1>1. SUFFICES C = {}
  BY DEF Unfolds
<1>2. SUFFICES ASSUME C # {} PROVE FALSE
  OBVIOUS
<1>3. \A s \in C : IsFiniteSet(s)
  BY FS_Subset
<1>4. PICK s \in C : \A x \in s : s \ {x} \notin C
  <2> HIDE DEF C
  <2> QED BY <1>2, <1>3, Minimal
<1>5. s # {}
  BY UnfoldsAt
<1> DEFINE t == s \ {Pick(s)}
<1>6. Pick(s) \in s
  BY <1>5, PickIn
<1>7. t \notin C
  BY <1>4, <1>6
<1>8. t \in SUBSET S
  OBVIOUS
<1>9. g[t] = h[t]
  BY <1>7, <1>8
<1>10. g[s] = f[Pick(s)] + g[t]
  BY <1>5, UnfoldsAt
<1>11. h[s] = f[Pick(s)] + h[t]
  BY <1>5, UnfoldsAt
<1> QED BY <1>9, <1>10, <1>11

LEMMA UnfoldsBelow ==
    ASSUME NEW f, NEW S, NEW g, Unfolds(f, S, g), NEW T \in SUBSET S
    PROVE  Unfolds(f, T, [s \in SUBSET T |-> g[s]])
<1> DEFINE h == [s \in SUBSET T |-> g[s]]
<1>1. ASSUME NEW s \in SUBSET T
      PROVE  h[s] = IF s = {} THEN 0 ELSE f[Pick(s)] + h[s \ {Pick(s)}]
  <2>1. h[s] = g[s] /\ h[s \ {Pick(s)}] = g[s \ {Pick(s)}]
    OBVIOUS
  <2>2. s \in SUBSET S
    OBVIOUS
  <2> QED BY <2>1, <2>2, UnfoldsAt
<1> QED BY <1>1 DEF Unfolds

LEMMA UnfoldsExists ==
    ASSUME NEW f, NEW S, IsFiniteSet(S)
    PROVE  \E g : Unfolds(f, S, g)
<1> DEFINE C == {s \in SUBSET S : ~ \E g : Unfolds(f, s, g)}
<1>1. SUFFICES ASSUME C # {} PROVE FALSE
  OBVIOUS
<1>2. \A s \in C : IsFiniteSet(s)
  BY FS_Subset
<1>3. PICK U \in C : \A x \in U : U \ {x} \notin C
  <2> HIDE DEF C
  <2> QED BY <1>1, <1>2, Minimal
<1> DEFINE G(t) == CHOOSE g : Unfolds(f, t, g)
           H == [s \in SUBSET U |-> IF s = {} THEN 0
                                    ELSE f[Pick(s)] + G(s \ {Pick(s)})[s \ {Pick(s)}]]
<1>4. ASSUME NEW t \in SUBSET U, t # U PROVE Unfolds(f, t, G(t))
  <2>1. PICK x \in U : t \in SUBSET (U \ {x})
    BY <1>4
  <2>2. U \ {x} \notin C
    BY <1>3
  <2>3. PICK g : Unfolds(f, U \ {x}, g)
    BY <2>2
  <2>4. Unfolds(f, t, [s \in SUBSET t |-> g[s]])
    BY <2>1, <2>3, UnfoldsBelow
  <2> QED BY <2>4
<1>5. ASSUME NEW t \in SUBSET U, t # U PROVE H[t] = G(t)[t]
  <2>1. CASE t = {}
    <3>1. G(t)[t] = 0
      BY <1>4, <1>5, <2>1, UnfoldsAt
    <3> QED BY <2>1, <3>1
  <2>2. CASE t # {}
    <3> DEFINE u == t \ {Pick(t)}
    <3>1. u \in SUBSET t /\ u # U /\ u \in SUBSET U /\ IsFiniteSet(u)
      BY <1>2, <1>5, <2>2, PickIn, FS_Subset
    <3>2. Unfolds(f, u, [s \in SUBSET u |-> G(t)[s]])
      BY <1>4, <1>5, <3>1, UnfoldsBelow
    <3>3. Unfolds(f, u, G(u))
      BY <1>4, <3>1
    <3>4. [s \in SUBSET u |-> G(t)[s]] = G(u)
      BY <3>1, <3>2, <3>3, UnfoldsOnce
    <3>5. G(t)[u] = G(u)[u]
      BY <3>4
    <3>6. G(t)[t] = f[Pick(t)] + G(t)[u]
      BY <1>4, <1>5, <2>2, UnfoldsAt
    <3>7. H[t] = f[Pick(t)] + G(u)[u]
      BY <2>2
    <3> QED BY <3>5, <3>6, <3>7
  <2> QED BY <2>1, <2>2
<1>6. ASSUME NEW s \in SUBSET U
      PROVE  H[s] = IF s = {} THEN 0 ELSE f[Pick(s)] + H[s \ {Pick(s)}]
  <2>1. CASE s = {}
    BY <2>1
  <2>2. CASE s # {}
    <3>1. s \ {Pick(s)} \in SUBSET U /\ s \ {Pick(s)} # U
      BY <2>2, PickIn
    <3>2. H[s \ {Pick(s)}] = G(s \ {Pick(s)})[s \ {Pick(s)}]
      BY <1>5, <3>1
    <3>3. H[s] = f[Pick(s)] + G(s \ {Pick(s)})[s \ {Pick(s)}]
      BY <2>2
    <3> QED BY <2>2, <3>2, <3>3
  <2> QED BY <2>1, <2>2
<1>7. Unfolds(f, U, H)
  <2> HIDE DEF G
  <2> QED BY <1>6 DEF Unfolds
<1> QED BY <1>7

LEMMA SumIs ==
    ASSUME NEW f, NEW S
    PROVE  SumFunctionOnSet(f, S) = (CHOOSE g : Unfolds(f, S, g))[S]
BY Zenon DEF SumFunctionOnSet, FoldFunctionOnSet, MapThenFoldSet, Unfolds, Pick

\* The sum as its definition takes it apart.
LEMMA SumUnfolds ==
    ASSUME NEW f, NEW S, IsFiniteSet(S)
    PROVE  SumFunctionOnSet(f, S) =
              IF S = {} THEN 0
              ELSE f[Pick(S)] + SumFunctionOnSet(f, S \ {Pick(S)})
<1> DEFINE G(t) == CHOOSE g : Unfolds(f, t, g)
           T == S \ {Pick(S)}
<1>1. IsFiniteSet(T) /\ T \in SUBSET S
  BY FS_Subset
<1>2. Unfolds(f, S, G(S)) /\ Unfolds(f, T, G(T))
  BY <1>1, UnfoldsExists
<1>3. [s \in SUBSET T |-> G(S)[s]] = G(T)
  BY <1>1, <1>2, UnfoldsBelow, UnfoldsOnce
<1>4. G(S)[T] = G(T)[T]
  BY <1>3
<1>5. G(S)[S] = IF S = {} THEN 0 ELSE f[Pick(S)] + G(S)[T]
  <2>1. S \in SUBSET S
    OBVIOUS
  <2> HIDE DEF G
  <2> QED BY <1>2, <2>1, UnfoldsAt
<1>6. SumFunctionOnSet(f, S) = G(S)[S] /\ SumFunctionOnSet(f, T) = G(T)[T]
  BY SumIs
<1> QED BY <1>4, <1>5, <1>6

LEMMA SumEmpty == ASSUME NEW f PROVE SumFunctionOnSet(f, {}) = 0
BY SumUnfolds, FS_EmptySet

LEMMA SumInt ==
    ASSUME NEW f, NEW S, IsFiniteSet(S), \A x \in S : f[x] \in Int
    PROVE  SumFunctionOnSet(f, S) \in Int
<1> DEFINE C == {s \in SUBSET S : SumFunctionOnSet(f, s) \notin Int}
<1>1. SUFFICES ASSUME C # {} PROVE FALSE
  OBVIOUS
<1>2. \A s \in C : IsFiniteSet(s)
  BY FS_Subset
<1>3. PICK s \in C : \A x \in s : s \ {x} \notin C
  <2> HIDE DEF C
  <2> QED BY <1>1, <1>2, Minimal
<1>4. s # {}
  BY SumEmpty
<1>5. Pick(s) \in s
  BY <1>4, PickIn
<1>6. s \ {Pick(s)} \notin C
  BY <1>3, <1>5
<1>7. SumFunctionOnSet(f, s \ {Pick(s)}) \in Int
  BY <1>6
<1>8. SumFunctionOnSet(f, s) = f[Pick(s)] + SumFunctionOnSet(f, s \ {Pick(s)})
  BY <1>2, <1>4, SumUnfolds
<1> QED BY <1>5, <1>7, <1>8

\* The sum does not depend on the order: any element may be taken first.
LEMMA SumTake ==
    ASSUME NEW f, NEW S, IsFiniteSet(S), \A x \in S : f[x] \in Int, NEW a \in S
    PROVE  SumFunctionOnSet(f, S) = f[a] + SumFunctionOnSet(f, S \ {a})
<1> DEFINE Sum(s) == SumFunctionOnSet(f, s)
           C == {s \in SUBSET S : \E x \in s : Sum(s) # f[x] + Sum(s \ {x})}
<1>1. SUFFICES ASSUME C # {} PROVE FALSE
  OBVIOUS
<1>2. \A s \in SUBSET S : IsFiniteSet(s) /\ Sum(s) \in Int
  BY FS_Subset, SumInt
<1>3. PICK s \in C : \A x \in s : s \ {x} \notin C
  <2>1. \A s \in C : IsFiniteSet(s)
    BY <1>2
  <2> HIDE DEF C
  <2> QED BY <1>1, <2>1, Minimal
<1>4. PICK x \in s : Sum(s) # f[x] + Sum(s \ {x})
  OBVIOUS
<1> DEFINE c == Pick(s)
<1>5. c \in s
  <2>1. s # {}
    BY <1>4
  <2> HIDE DEF C
  <2> QED BY <2>1, PickIn
<1>6. Sum(s) = f[c] + Sum(s \ {c})
  BY <1>2, SumUnfolds
<1>7. x # c
  BY <1>4, <1>6
<1>8. s \ {c} \notin C /\ s \ {x} \notin C
  BY <1>3, <1>5
<1>9. Sum(s \ {c}) = f[x] + Sum((s \ {c}) \ {x})
  BY <1>7, <1>8
<1>10. Sum(s \ {x}) = f[c] + Sum((s \ {x}) \ {c})
  BY <1>5, <1>7, <1>8
<1>11. (s \ {c}) \ {x} = (s \ {x}) \ {c}
  OBVIOUS
<1>12. Sum((s \ {x}) \ {c}) \in Int /\ f[x] \in Int /\ f[c] \in Int
  BY <1>2, <1>5
<1>13. Sum(s \ {x}) = f[c] + Sum((s \ {c}) \ {x})
  BY <1>10, <1>11
<1>14. \A i, j, k \in Int : i + (j + k) = j + (i + k)
  OBVIOUS
<1>15. f[c] + (f[x] + Sum((s \ {c}) \ {x})) = f[x] + (f[c] + Sum((s \ {c}) \ {x}))
  BY <1>11, <1>12, <1>14, ZenonT(40)
<1> QED BY <1>4, <1>6, <1>9, <1>13, <1>15

\* Only the values on the set matter.
LEMMA SumSame ==
    ASSUME NEW f, NEW g, NEW S, IsFiniteSet(S), \A x \in S : f[x] \in Int /\ g[x] = f[x]
    PROVE  SumFunctionOnSet(g, S) = SumFunctionOnSet(f, S)
<1> DEFINE C == {s \in SUBSET S : SumFunctionOnSet(g, s) # SumFunctionOnSet(f, s)}
<1>1. SUFFICES ASSUME C # {} PROVE FALSE
  OBVIOUS
<1>2. \A s \in SUBSET S : IsFiniteSet(s)
  BY FS_Subset
<1>3. PICK s \in C : \A x \in s : s \ {x} \notin C
  <2>1. \A s \in C : IsFiniteSet(s)
    BY <1>2
  <2> HIDE DEF C
  <2> QED BY <1>1, <2>1, Minimal
<1>4. s # {}
  BY SumEmpty
<1>5. Pick(s) \in s
  BY <1>4, PickIn
<1>6. s \ {Pick(s)} \notin C
  BY <1>3, <1>5
<1>7. SumFunctionOnSet(g, s \ {Pick(s)}) = SumFunctionOnSet(f, s \ {Pick(s)})
  BY <1>6
<1>8. /\ SumFunctionOnSet(f, s) = f[Pick(s)] + SumFunctionOnSet(f, s \ {Pick(s)})
      /\ SumFunctionOnSet(g, s) = g[Pick(s)] + SumFunctionOnSet(g, s \ {Pick(s)})
  BY <1>2, <1>4, SumUnfolds
<1>9. g[Pick(s)] = f[Pick(s)]
  BY <1>5
<1> QED BY <1>7, <1>8, <1>9

\* One more element.
LEMMA SumPut ==
    ASSUME NEW f, NEW S, IsFiniteSet(S), NEW a, a \notin S,
           \A x \in S \union {a} : f[x] \in Int
    PROVE  SumFunctionOnSet(f, S \union {a}) = SumFunctionOnSet(f, S) + f[a]
<1>1. IsFiniteSet(S \union {a}) /\ (S \union {a}) \ {a} = S
  BY FS_AddElement
<1>2. SumFunctionOnSet(f, S \union {a}) = f[a] + SumFunctionOnSet(f, S)
  BY <1>1, SumTake
<1>3. SumFunctionOnSet(f, S) \in Int /\ f[a] \in Int
  BY SumInt
<1> QED BY <1>2, <1>3

\* One element's value is another one.
LEMMA SumChange ==
    ASSUME NEW f, NEW g, NEW S, IsFiniteSet(S), NEW a \in S,
           \A x \in S : f[x] \in Int /\ g[x] \in Int,
           \A x \in S : x # a => g[x] = f[x]
    PROVE  SumFunctionOnSet(g, S) = SumFunctionOnSet(f, S) + g[a] - f[a]
<1>1. IsFiniteSet(S \ {a})
  BY FS_Subset
<1>2. SumFunctionOnSet(g, S \ {a}) = SumFunctionOnSet(f, S \ {a})
  BY <1>1, SumSame
<1>3. /\ SumFunctionOnSet(f, S) = f[a] + SumFunctionOnSet(f, S \ {a})
      /\ SumFunctionOnSet(g, S) = g[a] + SumFunctionOnSet(g, S \ {a})
  BY SumTake
<1>4. SumFunctionOnSet(f, S \ {a}) \in Int
  BY <1>1, SumInt
<1> QED BY <1>2, <1>3, <1>4

\* Two sums added, element by element.
LEMMA SumPlus ==
    ASSUME NEW f, NEW g, NEW h, NEW S, IsFiniteSet(S),
           \A x \in S : f[x] \in Int /\ g[x] \in Int /\ h[x] = f[x] + g[x]
    PROVE  SumFunctionOnSet(h, S) = SumFunctionOnSet(f, S) + SumFunctionOnSet(g, S)
<1> DEFINE F(s) == SumFunctionOnSet(f, s)
           G(s) == SumFunctionOnSet(g, s)
           H(s) == SumFunctionOnSet(h, s)
           C == {s \in SUBSET S : H(s) # F(s) + G(s)}
<1>1. SUFFICES ASSUME C # {} PROVE FALSE
  OBVIOUS
<1>2. \A s \in SUBSET S : IsFiniteSet(s) /\ F(s) \in Int /\ G(s) \in Int
  BY FS_Subset, SumInt
<1>3. PICK s \in C : \A x \in s : s \ {x} \notin C
  <2>1. \A s \in C : IsFiniteSet(s)
    BY <1>2
  <2> HIDE DEF C
  <2> QED BY <1>1, <2>1, Minimal
<1>4. s # {}
  <2>1. F({}) = 0 /\ G({}) = 0 /\ H({}) = 0
    BY SumEmpty
  <2>2. H(s) # F(s) + G(s)
    OBVIOUS
  <2>3. H({}) = F({}) + G({})
    BY <2>1
  <2> QED BY <2>2, <2>3, Zenon
<1>5. Pick(s) \in s
  BY <1>4, PickIn
<1> DEFINE t == s \ {Pick(s)}
<1>6. t \notin C
  BY <1>3, <1>5
<1>7. H(t) = F(t) + G(t) /\ F(t) \in Int /\ G(t) \in Int
  BY <1>2, <1>6
<1>8. F(s) = f[Pick(s)] + F(t) /\ G(s) = g[Pick(s)] + G(t) /\ H(s) = h[Pick(s)] + H(t)
  BY <1>2, <1>4, SumUnfolds
<1>9. /\ f[Pick(s)] \in Int /\ g[Pick(s)] \in Int
      /\ h[Pick(s)] = f[Pick(s)] + g[Pick(s)]
  BY <1>5
<1>10. H(s) = F(s) + G(s)
  <2> HIDE DEF F, G, H, t
  <2> QED BY <1>7, <1>8, <1>9
<1> QED BY <1>10

\* The sum of zeros.
LEMMA SumZero ==
    ASSUME NEW f, NEW S, IsFiniteSet(S), \A x \in S : f[x] = 0
    PROVE  SumFunctionOnSet(f, S) = 0
<1> DEFINE C == {s \in SUBSET S : SumFunctionOnSet(f, s) # 0}
<1>1. SUFFICES ASSUME C # {} PROVE FALSE
  OBVIOUS
<1>2. \A s \in SUBSET S : IsFiniteSet(s)
  BY FS_Subset
<1>3. PICK s \in C : \A x \in s : s \ {x} \notin C
  <2>1. \A s \in C : IsFiniteSet(s)
    BY <1>2
  <2> HIDE DEF C
  <2> QED BY <1>1, <2>1, Minimal
<1>4. s # {}
  BY SumEmpty
<1>5. Pick(s) \in s
  BY <1>4, PickIn
<1>6. s \ {Pick(s)} \notin C
  BY <1>3, <1>5
<1>7. SumFunctionOnSet(f, s) = f[Pick(s)] + SumFunctionOnSet(f, s \ {Pick(s)})
  BY <1>2, <1>4, SumUnfolds
<1> QED BY <1>5, <1>6, <1>7

\* A renaming of the elements changes nothing.
LEMMA SumRenamed ==
    ASSUME NEW S, IsFiniteSet(S), NEW T, NEW f, NEW g, NEW r \in [S -> T],
           \A x, y \in S : r[x] = r[y] => x = y,
           \A y \in T : \E x \in S : r[x] = y,
           \A x \in S : f[x] \in Int /\ g[r[x]] = f[x]
    PROVE  IsFiniteSet(T) /\ SumFunctionOnSet(g, T) = SumFunctionOnSet(f, S)
<1> DEFINE I(s) == {r[x] : x \in s}
           C == {s \in SUBSET S :
                   ~ (IsFiniteSet(I(s)) /\ SumFunctionOnSet(g, I(s)) = SumFunctionOnSet(f, s))}
<1>1. I(S) = T
  OBVIOUS
<1>2. SUFFICES ASSUME C # {} PROVE FALSE
  BY <1>1
<1>3. \A s \in SUBSET S : IsFiniteSet(s)
  BY FS_Subset
<1>4. PICK s \in C : \A x \in s : s \ {x} \notin C
  <2>1. \A s \in C : IsFiniteSet(s)
    BY <1>3
  <2> HIDE DEF C
  <2> QED BY <1>2, <2>1, Minimal
<1>5. s # {}
  <2>1. I({}) = {}
    OBVIOUS
  <2> QED BY <2>1, SumEmpty, FS_EmptySet
<1>6. Pick(s) \in s
  BY <1>5, PickIn
<1> DEFINE t == s \ {Pick(s)}
           a == r[Pick(s)]
<1>7. t \in SUBSET S /\ t \notin C
  BY <1>4, <1>6
<1>8. IsFiniteSet(I(t)) /\ SumFunctionOnSet(g, I(t)) = SumFunctionOnSet(f, t)
  BY <1>7
<1>9. a \notin I(t) /\ I(s) = I(t) \union {a}
  BY <1>6
<1>10. \A y \in I(s) : g[y] \in Int
  OBVIOUS
<1>11. SumFunctionOnSet(g, I(s)) = SumFunctionOnSet(g, I(t)) + g[a]
  <2> HIDE DEF I, a, t
  <2> QED BY <1>8, <1>9, <1>10, SumPut
<1>12. IsFiniteSet(I(s))
  <2>1. IsFiniteSet(I(t) \union {a})
    <3> HIDE DEF I, a, t
    <3> QED BY <1>8, FS_AddElement
  <2> QED BY <1>9, <2>1
<1>13. SumFunctionOnSet(f, s) = f[Pick(s)] + SumFunctionOnSet(f, t)
  BY <1>3, <1>5, SumUnfolds
<1>14. SumFunctionOnSet(f, t) \in Int /\ f[Pick(s)] \in Int /\ g[a] = f[Pick(s)]
  BY <1>3, <1>6, <1>7, SumInt
<1>15. SumFunctionOnSet(g, I(s)) = SumFunctionOnSet(f, s)
  <2> HIDE DEF I, a, t
  <2> QED BY <1>8, <1>11, <1>13, <1>14
<1> QED BY <1>12, <1>15

\* What does not add to a sum may be left out of it,
LEMMA SumPart ==
    ASSUME NEW f, NEW S, IsFiniteSet(S), \A x \in S : f[x] \in Int,
           NEW T \in SUBSET S, \A x \in S : x \notin T => f[x] = 0
    PROVE  SumFunctionOnSet(f, S) = SumFunctionOnSet(f, T)
<1> DEFINE C == {s \in SUBSET S :
                   T \subseteq s /\ SumFunctionOnSet(f, s) # SumFunctionOnSet(f, T)}
<1>1. SUFFICES ASSUME C # {} PROVE FALSE
  OBVIOUS
<1>2. \A s \in C : IsFiniteSet(s)
  BY FS_Subset
<1>3. PICK s \in C : \A x \in s : s \ {x} \notin C
  <2> HIDE DEF C
  <2> QED BY <1>1, <1>2, Minimal
<1>4. PICK x \in s : x \notin T
  BY <1>3
<1>5. s \ {x} \in SUBSET S /\ T \subseteq s \ {x}
  BY <1>4
<1>6. SumFunctionOnSet(f, s \ {x}) = SumFunctionOnSet(f, T)
  BY <1>3, <1>4, <1>5
<1>7. SumFunctionOnSet(f, s) = f[x] + SumFunctionOnSet(f, s \ {x})
  BY <1>2, SumTake
<1>8. SumFunctionOnSet(f, s \ {x}) \in Int /\ f[x] = 0
  BY <1>2, <1>4, <1>5, FS_Subset, SumInt
<1> QED BY <1>3, <1>6, <1>7, <1>8

\* and a sum of natural numbers is at least as large as each of them.
LEMMA SumNat ==
    ASSUME NEW f, NEW S, IsFiniteSet(S), \A x \in S : f[x] \in Nat
    PROVE  SumFunctionOnSet(f, S) \in Nat
<1> DEFINE C == {s \in SUBSET S : SumFunctionOnSet(f, s) \notin Nat}
<1>1. SUFFICES ASSUME C # {} PROVE FALSE
  OBVIOUS
<1>2. \A s \in C : IsFiniteSet(s)
  BY FS_Subset
<1>3. PICK s \in C : \A x \in s : s \ {x} \notin C
  <2> HIDE DEF C
  <2> QED BY <1>1, <1>2, Minimal
<1>4. s # {}
  BY SumEmpty
<1>5. Pick(s) \in s
  BY <1>4, PickIn
<1>6. SumFunctionOnSet(f, s \ {Pick(s)}) \in Nat /\ f[Pick(s)] \in Nat
  BY <1>3, <1>5
<1>7. SumFunctionOnSet(f, s) = f[Pick(s)] + SumFunctionOnSet(f, s \ {Pick(s)})
  BY <1>2, <1>4, SumUnfolds
<1> QED BY <1>6, <1>7

LEMMA SumAtLeast ==
    ASSUME NEW f, NEW S, IsFiniteSet(S), \A x \in S : f[x] \in Nat, NEW a \in S
    PROVE  f[a] <= SumFunctionOnSet(f, S)
<1>1. SumFunctionOnSet(f, S) = f[a] + SumFunctionOnSet(f, S \ {a})
  BY SumTake
<1>2. SumFunctionOnSet(f, S \ {a}) \in Nat
  <2>1. IsFiniteSet(S \ {a})
    BY FS_Subset
  <2> QED BY <2>1, SumNat
<1>3. f[a] \in Nat
  OBVIOUS
<1> QED BY <1>1, <1>2, <1>3

-----------------------------------------------------------------------------
(* The sum over a sequence of numbers. *)

\* One number more at the end.
LEMMA SumLonger ==
    ASSUME NEW n \in Nat, NEW f, NEW g,
           \A i \in 1..n : f[i] \in Int /\ g[i] = f[i], g[n + 1] \in Int
    PROVE  SumFunctionOnSet(g, 1..(n + 1)) = SumFunctionOnSet(f, 1..n) + g[n + 1]
<1>1. 1..(n + 1) = (1..n) \union {n + 1} /\ n + 1 \notin 1..n
  OBVIOUS
<1>2. IsFiniteSet(1..n)
  BY FS_Interval
<1>3. \A i \in (1..n) \union {n + 1} : g[i] \in Int
  OBVIOUS
<1>4. SumFunctionOnSet(g, (1..n) \union {n + 1}) = SumFunctionOnSet(g, 1..n) + g[n + 1]
  BY <1>2, <1>1, <1>3, SumPut, ZenonT(40)
<1>5. SumFunctionOnSet(g, 1..n) = SumFunctionOnSet(f, 1..n)
  BY <1>2, SumSame
<1> QED BY <1>1, <1>4, <1>5

\* One number less at the front.
LEMMA SumShorter ==
    ASSUME NEW n \in Nat, NEW f, NEW g,
           \A i \in 1..(n + 1) : f[i] \in Int, \A i \in 1..n : g[i] = f[i + 1]
    PROVE  SumFunctionOnSet(f, 1..(n + 1)) = f[1] + SumFunctionOnSet(g, 1..n)
<1> DEFINE T == (1..(n + 1)) \ {1}
           r == [i \in 1..n |-> i + 1]
<1>1. IsFiniteSet(1..n) /\ IsFiniteSet(1..(n + 1)) /\ 1 \in 1..(n + 1)
  BY FS_Interval
<1>2. SumFunctionOnSet(f, 1..(n + 1)) = f[1] + SumFunctionOnSet(f, T)
  <2> DEFINE S == 1..(n + 1)
  <2>1. IsFiniteSet(S) /\ 1 \in S /\ \A i \in S : f[i] \in Int
    BY <1>1
  <2>2. T = S \ {1}
    OBVIOUS
  <2> HIDE DEF S, T
  <2>3. SumFunctionOnSet(f, S) = f[1] + SumFunctionOnSet(f, S \ {1})
    BY <2>1, SumTake
  <2> QED BY <2>2, <2>3 DEF S
<1>3. SumFunctionOnSet(f, T) = SumFunctionOnSet(g, 1..n)
  <2>1. r \in [1..n -> T] /\ \A x, y \in 1..n : r[x] = r[y] => x = y
    OBVIOUS
  <2>2. ASSUME NEW y \in T PROVE \E x \in 1..n : r[x] = y
    <3>1. y - 1 \in 1..n /\ r[y - 1] = y
      OBVIOUS
    <3> QED BY <3>1
  <2>3. \A x \in 1..n : g[x] \in Int /\ f[r[x]] = g[x]
    OBVIOUS
  <2> DEFINE S == 1..n
  <2>4. IsFiniteSet(S) /\ r \in [S -> T]
    BY <1>1, <2>1
  <2>5. /\ \A x, y \in S : r[x] = r[y] => x = y
        /\ \A y \in T : \E x \in S : r[x] = y
        /\ \A x \in S : g[x] \in Int /\ f[r[x]] = g[x]
    BY <2>1, <2>2, <2>3
  <2> HIDE DEF T, r, S
  <2>6. SumFunctionOnSet(f, T) = SumFunctionOnSet(g, S)
    BY <2>4, <2>5, SumRenamed
  <2> QED BY <2>6 DEF S
<1> QED BY <1>2, <1>3

-----------------------------------------------------------------------------
(* Taking a member out of a sequence. *)

LEMMA Removed ==
    ASSUME NEW S, NEW w \in Seq(S), NEW k \in 1..Len(w)
    PROVE  /\ RemoveAt(w, k) \in Seq(S) /\ Len(RemoveAt(w, k)) = Len(w) - 1
           /\ DOMAIN RemoveAt(w, k) = 1..(Len(w) - 1)
           /\ \A j \in 1..(Len(w) - 1) : RemoveAt(w, k)[j] = IF j < k THEN w[j] ELSE w[j + 1]
<1> DEFINE front == SubSeq(w, 1, k - 1)
           back == SubSeq(w, k + 1, Len(w))
           v == RemoveAt(w, k)
<1>1. Len(w) \in Nat /\ DOMAIN w = 1..Len(w)
  OBVIOUS
<1>2. /\ front \in Seq(S) /\ Len(front) = k - 1
      /\ \A j \in 1..(k - 1) : front[j] = w[j]
  <2>1. k - 1 \in Int /\ 1 \in Int /\ \A j \in 1..(k - 1) : w[j] \in S
    BY <1>1
  <2>2. /\ front \in Seq(S)
        /\ Len(front) = IF 1 <= k - 1 THEN k - 1 - 1 + 1 ELSE 0
        /\ \A j \in 1..(k - 1 - 1 + 1) : front[j] = w[1 + j - 1]
    BY <2>1, SubSeqProperties
  <2> HIDE DEF front
  <2> QED BY <1>1, <2>2
<1>3. /\ back \in Seq(S) /\ Len(back) = Len(w) - k
      /\ \A j \in 1..(Len(w) - k) : back[j] = w[k + j]
  <2>1. k + 1 \in Int /\ Len(w) \in Int /\ \A j \in (k + 1)..Len(w) : w[j] \in S
    BY <1>1
  <2>2. /\ back \in Seq(S)
        /\ Len(back) = IF k + 1 <= Len(w) THEN Len(w) - (k + 1) + 1 ELSE 0
        /\ \A j \in 1..(Len(w) - (k + 1) + 1) : back[j] = w[k + 1 + j - 1]
    BY <2>1, SubSeqProperties
  <2> HIDE DEF back
  <2>3. Len(back) = Len(w) - k
    <3>1. Len(back) = IF k + 1 <= Len(w) THEN Len(w) - (k + 1) + 1 ELSE 0
      BY <2>2
    <3>2. k \in Int /\ Len(w) \in Int /\ k <= Len(w)
      BY <1>1
    <3> QED BY <3>1, <3>2
  <2>4. ASSUME NEW j \in 1..(Len(w) - k) PROVE back[j] = w[k + j]
    <3>1. j \in 1..(Len(w) - (k + 1) + 1) /\ k + 1 + j - 1 = k + j
      BY <1>1
    <3> QED BY <2>2, <3>1
  <2> QED BY <2>2, <2>3, <2>4
<1>4. v = front \o back
  BY DEF RemoveAt
<1> HIDE DEF front, back, v
<1>5. /\ v \in Seq(S) /\ Len(v) = Len(w) - 1
      /\ \A j \in 1..Len(v) : v[j] = IF j <= k - 1 THEN front[j] ELSE back[j - (k - 1)]
  <2>1. /\ v \in Seq(S) /\ Len(v) = Len(front) + Len(back)
        /\ \A j \in 1..(Len(front) + Len(back)) :
              v[j] = IF j <= Len(front) THEN front[j] ELSE back[j - Len(front)]
    BY <1>2, <1>3, <1>4, ConcatProperties
  <2>2. Len(front) = k - 1 /\ Len(front) + Len(back) = Len(w) - 1
    BY <1>1, <1>2, <1>3
  <2> QED BY <2>1, <2>2
<1>6. ASSUME NEW j \in 1..(Len(w) - 1)
      PROVE  v[j] = IF j < k THEN w[j] ELSE w[j + 1]
  <2>1. CASE j < k
    <3>1. j \in 1..(k - 1) /\ j \in 1..Len(v) /\ j <= k - 1
      BY <1>1, <1>5, <2>1
    <3> QED BY <1>2, <1>5, <2>1, <3>1
  <2>2. CASE ~ (j < k)
    <3>1. /\ j - (k - 1) \in 1..(Len(w) - k) /\ j \in 1..Len(v) /\ ~ (j <= k - 1)
          /\ k + (j - (k - 1)) = j + 1
      BY <1>1, <1>5, <2>2
    <3>2. v[j] = back[j - (k - 1)]
      BY <1>5, <3>1
    <3>3. back[j - (k - 1)] = w[j + 1]
      BY <1>3, <3>1
    <3> QED BY <2>2, <3>2, <3>3
  <2> QED BY <2>1, <2>2
<1>7. DOMAIN v = 1..(Len(w) - 1)
  BY <1>5
<1> QED BY <1>5, <1>6, <1>7 DEF v
=============================================================================

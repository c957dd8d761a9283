----------------------------- MODULE DataLemmas -----------------------------
(***************************************************************************)
(* What the proofs need to know of numbers and of sums: sets of naturals   *)
(* have a least element, and what SumFunctionOnSet of the community        *)
(* modules adds up.                                                        *)
(***************************************************************************)
EXTENDS Integers, Functions, FiniteSetTheorems, WellFoundedInduction, TLAPS

(* Every nonempty set of naturals has a least element. *)
LEMMA LeastNatural ==
  ASSUME NEW T \in SUBSET Nat, T # {}
  PROVE  \E m \in T : \A k \in T : m <= k
<1> DEFINE Less == {p \in Nat \X Nat : p[1] < p[2]}
<1>1. \A f \in [Nat -> Nat] : \E n \in Nat : ~(f[n+1] < f[n])
  BY NatLessThanWellFounded DEF IsWellFoundedOn, OpToRel
<1>2. \A f \in [Nat -> Nat] : \E n \in Nat : <<f[n+1], f[n]>> \notin Less
  BY <1>1
<1>3. IsWellFoundedOn(Less, Nat)
  BY <1>2 DEF IsWellFoundedOn
<1>4. \E m \in T : \A k \in T : <<k, m>> \notin Less
  BY <1>3, WFMin
<1>5. \A k, m \in Nat : <<k, m>> \notin Less => m <= k
  OBVIOUS
<1> QED
  BY <1>4, <1>5

-----------------------------------------------------------------------------
(* Sums over finite sets. *)

(* Induction over a finite set, in a form the provers can instantiate: the *)
(* sets that have a property are a set G.                                  *)
LEMMA FiniteInduction ==
  ASSUME NEW S, IsFiniteSet(S), NEW G,
         \A T \in SUBSET S : (\A x \in T : T \ {x} \in G) => T \in G
  PROVE  S \in G
<1> DEFINE Bad == {T \in SUBSET S : T \notin G}
<1> SUFFICES ASSUME S \notin G PROVE FALSE
  OBVIOUS
<1>1. Bad \subseteq FiniteSubsetsOf(S) /\ S \in Bad
  BY FS_Subset DEF FiniteSubsetsOf
<1>2. PICK T \in Bad : \A U \in Bad : <<U, T>> \notin StrictSubsetOrdering(S)
  <2>1. IsWellFoundedOn(StrictSubsetOrdering(S), FiniteSubsetsOf(S))
    BY FS_StrictSubsetOrderingWellFounded
  <2> HIDE DEF Bad
  <2> QED
    BY <1>1, <2>1, WFMin
<1>3. ASSUME NEW x \in T PROVE T \ {x} \in G
  <2>1. T \ {x} \in SUBSET S /\ T \in SUBSET S /\ T \ {x} \subseteq T /\ T \ {x} # T
    BY <1>2, <1>3
  <2>2. <<T \ {x}, T>> \in StrictSubsetOrdering(S)
    BY <2>1 DEF StrictSubsetOrdering
  <2> QED
    BY <1>2, <2>1, <2>2
<1> QED
  BY <1>2, <1>3

(* g adds up f: whatever element of a set is taken first. *)
Adds(g, f, S) ==
  /\ g \in [SUBSET S -> Int]
  /\ g[{}] = 0
  /\ \A T \in SUBSET S : \A x \in T : g[T] = f[x] + g[T \ {x}]

LEMMA SumExists ==
  ASSUME NEW S, IsFiniteSet(S), NEW f, \A x \in S : f[x] \in Int
  PROVE  \E g : Adds(g, f, S)
<1> DEFINE G == {T \in SUBSET S : \E g : Adds(g, f, T)}
<1>1. {} \in G
  <2> DEFINE g == [T \in SUBSET {} |-> 0]
  <2>1. Adds(g, f, {})
    BY DEF Adds
  <2> QED
    BY <2>1
<1>2. ASSUME NEW T \in SUBSET S, T # {}, \A x \in T : T \ {x} \in G PROVE T \in G
  <2>0. PICK x \in T : TRUE
    BY <1>2
  <2>1. PICK h : Adds(h, f, T \ {x})
    BY <1>2
  <2> DEFINE g == [U \in SUBSET T |-> IF x \in U THEN f[x] + h[U \ {x}] ELSE h[U]]
  <2>2. h \in [SUBSET (T \ {x}) -> Int] /\ f[x] \in Int
    BY <2>1 DEF Adds
  <2>3. g \in [SUBSET T -> Int] /\ g[{}] = 0
    BY <2>1, <2>2 DEF Adds
  <2>4. ASSUME NEW U \in SUBSET T, NEW y \in U PROVE g[U] = f[y] + g[U \ {y}]
    <3>1. CASE y = x
      BY <3>1
    <3>2. CASE y # x /\ x \in U
      <4>1. /\ U \ {x} \in SUBSET (T \ {x}) /\ y \in U \ {x} /\ U \ {y} \in SUBSET T
            /\ x \in U \ {y} /\ (U \ {y}) \ {x} = (U \ {x}) \ {y}
        BY <3>2
      <4>2. h[U \ {x}] = f[y] + h[(U \ {x}) \ {y}]
        BY <2>1, <4>1 DEF Adds
      <4>3. g[U] = f[x] + h[U \ {x}] /\ g[U \ {y}] = f[x] + h[(U \ {x}) \ {y}]
        BY <3>2, <4>1
      <4>4. f[y] \in Int /\ h[(U \ {x}) \ {y}] \in Int
        BY <2>2, <4>1
      <4> HIDE DEF g
      <4> QED
        BY <2>2, <4>2, <4>3, <4>4
    <3>3. CASE x \notin U
      BY <2>1, <3>3 DEF Adds
    <3> QED
      BY <3>1, <3>2, <3>3
  <2> HIDE DEF g
  <2>5. Adds(g, f, T)
    BY <2>3, <2>4 DEF Adds
  <2> QED
    BY <1>2, <2>5
<1> HIDE DEF G
<1>3. S \in G
  <2>1. \A T \in SUBSET S : (\A x \in T : T \ {x} \in G) => T \in G
    BY <1>1, <1>2
  <2> QED
    BY <2>1, FiniteInduction
<1> QED
  BY <1>3 DEF G

(* What the library's sum unfolds to. *)
Unfolds(g, f, S) ==
  g = [T \in SUBSET S |-> IF T = {} THEN 0
                          ELSE f[CHOOSE x \in T : TRUE] + g[T \ {CHOOSE x \in T : TRUE}]]

LEMMA SumUnfolds == ASSUME NEW f, NEW S PROVE SumFunctionOnSet(f, S) = (CHOOSE g : Unfolds(g, f, S))[S]
  BY DEF SumFunctionOnSet, FoldFunctionOnSet, MapThenFoldSet, Unfolds

LEMMA AddsUnfolds ==
  ASSUME NEW S, NEW f, NEW g, Adds(g, f, S)
  PROVE  Unfolds(g, f, S)
<1>1. ASSUME NEW T \in SUBSET S, T # {}
      PROVE  g[T] = f[CHOOSE x \in T : TRUE] + g[T \ {CHOOSE x \in T : TRUE}]
  <2>1. (CHOOSE x \in T : TRUE) \in T
    BY <1>1
  <2> QED
    BY <2>1 DEF Adds
<1> QED
  BY <1>1 DEF Adds, Unfolds

LEMMA UnfoldsAdds ==
  ASSUME NEW S, IsFiniteSet(S), NEW f, NEW g, Adds(g, f, S), NEW h, Unfolds(h, f, S)
  PROVE  h[S] = g[S]
<1> DEFINE G == {T \in SUBSET S : h[T] = g[T]}
<1>1. {} \in G
  BY DEF Adds, Unfolds
<1>2. ASSUME NEW T \in SUBSET S, \A x \in T : T \ {x} \in G PROVE T \in G
  <2>1. CASE T = {}
    BY <1>1, <2>1
  <2>2. CASE T # {}
    <3>1. (CHOOSE x \in T : TRUE) \in T
      BY <2>2
    <3>2. h[T] = f[CHOOSE x \in T : TRUE] + h[T \ {CHOOSE x \in T : TRUE}]
      BY <2>2 DEF Unfolds
    <3> QED
      BY <1>2, <3>1, <3>2 DEF Adds
  <2> QED
    BY <2>1, <2>2
<1> HIDE DEF G
<1>3. S \in G
  BY <1>2, FiniteInduction
<1> QED
  BY <1>3 DEF G

LEMMA SumIs ==
  ASSUME NEW S, IsFiniteSet(S), NEW f, NEW g, Adds(g, f, S)
  PROVE  SumFunctionOnSet(f, S) = g[S]
<1>1. Unfolds(g, f, S)
  BY AddsUnfolds
<1>2. Unfolds(CHOOSE h : Unfolds(h, f, S), f, S)
  BY <1>1
<1> QED
  BY <1>2, SumUnfolds, UnfoldsAdds

(* The sum over a finite set is a number, 0 when there is nothing to add,  *)
(* and each element contributes its value whatever the order of adding.    *)
LEMMA SumRules ==
  ASSUME NEW S, IsFiniteSet(S), NEW f, \A x \in S : f[x] \in Int
  PROVE  /\ SumFunctionOnSet(f, S) \in Int
         /\ S = {} => SumFunctionOnSet(f, S) = 0
         /\ \A x \in S : SumFunctionOnSet(f, S) = f[x] + SumFunctionOnSet(f, S \ {x})
<1>1. PICK g : Adds(g, f, S)
  BY SumExists
<1>2. SumFunctionOnSet(f, S) = g[S]
  BY <1>1, SumIs
<1>3. ASSUME NEW x \in S PROVE SumFunctionOnSet(f, S \ {x}) = g[S \ {x}]
  <2> DEFINE h == [T \in SUBSET (S \ {x}) |-> g[T]]
  <2>1. Adds(h, f, S \ {x})
    BY <1>1 DEF Adds
  <2>2. IsFiniteSet(S \ {x}) /\ h[S \ {x}] = g[S \ {x}]
    BY FS_RemoveElement
  <2> HIDE DEF h
  <2> QED
    BY <2>1, <2>2, SumIs
<1> QED
  BY <1>1, <1>2, <1>3 DEF Adds

LEMMA SumOfNone == ASSUME NEW f PROVE SumFunctionOnSet(f, {}) = 0
  BY SumRules, FS_EmptySet

LEMMA SumOfOneMore ==
  ASSUME NEW S, IsFiniteSet(S), NEW f, \A x \in S : f[x] \in Int,
         NEW y, y \notin S, f[y] \in Int
  PROVE  SumFunctionOnSet(f, S \cup {y}) = f[y] + SumFunctionOnSet(f, S)
<1>1. IsFiniteSet(S \cup {y}) /\ \A x \in S \cup {y} : f[x] \in Int
  BY FS_AddElement
<1>2. (S \cup {y}) \ {y} = S
  OBVIOUS
<1> QED
  BY <1>1, <1>2, SumRules

(* Only the values of the elements matter. *)
LEMMA SumOfSame ==
  ASSUME NEW S, IsFiniteSet(S), NEW f, NEW h, \A x \in S : f[x] \in Int /\ h[x] = f[x]
  PROVE  SumFunctionOnSet(f, S) = SumFunctionOnSet(h, S)
<1>1. PICK g : Adds(g, f, S)
  BY SumExists
<1>2. Adds(g, h, S)
  BY <1>1 DEF Adds
<1> QED
  BY <1>1, <1>2, SumIs

(* An amount that goes from one element to another leaves the sum alone.   *)
LEMMA SumOfMoved ==
  ASSUME NEW S, IsFiniteSet(S), NEW f, NEW h, \A x \in S : f[x] \in Int,
         NEW s \in S, NEW r \in S, s # r, NEW a \in Int,
         h[s] = f[s] - a, h[r] = f[r] + a, \A x \in S \ {s, r} : h[x] = f[x]
  PROVE  SumFunctionOnSet(h, S) = SumFunctionOnSet(f, S)
<1> DEFINE R == (S \ {s}) \ {r}
<1>1. IsFiniteSet(S \ {s}) /\ IsFiniteSet(R) /\ r \in S \ {s} /\ R = S \ {s, r}
  BY FS_RemoveElement
<1>2. \A x \in S : h[x] \in Int
  OBVIOUS
<1>3. /\ SumFunctionOnSet(f, S) = f[s] + SumFunctionOnSet(f, S \ {s})
      /\ SumFunctionOnSet(h, S) = h[s] + SumFunctionOnSet(h, S \ {s})
  BY <1>2, SumRules
<1>4. /\ SumFunctionOnSet(f, S \ {s}) = f[r] + SumFunctionOnSet(f, R)
      /\ SumFunctionOnSet(h, S \ {s}) = h[r] + SumFunctionOnSet(h, R)
  BY <1>1, <1>2, SumRules
<1>5. SumFunctionOnSet(f, R) = SumFunctionOnSet(h, R) /\ SumFunctionOnSet(f, R) \in Int
  BY <1>1, SumOfSame, SumRules
<1> HIDE DEF R
<1> QED
  BY <1>3, <1>4, <1>5

(* Smaller values have a smaller sum. *)
LEMMA SumOfSmaller ==
  ASSUME NEW S, IsFiniteSet(S), NEW f, NEW h,
         \A x \in S : f[x] \in Int /\ h[x] \in Int /\ f[x] <= h[x]
  PROVE  SumFunctionOnSet(f, S) <= SumFunctionOnSet(h, S)
<1> DEFINE G == {T \in SUBSET S : SumFunctionOnSet(f, T) <= SumFunctionOnSet(h, T)}
<1>1. ASSUME NEW T \in SUBSET S, \A x \in T : T \ {x} \in G PROVE T \in G
  <2>1. IsFiniteSet(T)
    BY FS_Subset
  <2>2. CASE T = {}
    BY <2>2, SumOfNone
  <2>3. CASE T # {}
    <3>1. PICK x \in T : TRUE
      BY <2>3
    <3>2. IsFiniteSet(T \ {x})
      BY <2>1, FS_RemoveElement
    <3>3. /\ SumFunctionOnSet(f, T) = f[x] + SumFunctionOnSet(f, T \ {x})
          /\ SumFunctionOnSet(h, T) = h[x] + SumFunctionOnSet(h, T \ {x})
      BY <2>1, SumRules
    <3>4. SumFunctionOnSet(f, T \ {x}) \in Int /\ SumFunctionOnSet(h, T \ {x}) \in Int
      BY <3>2, SumRules
    <3>5. SumFunctionOnSet(f, T \ {x}) <= SumFunctionOnSet(h, T \ {x})
      BY <1>1
    <3>6. f[x] \in Int /\ h[x] \in Int /\ f[x] <= h[x]
      OBVIOUS
    <3> QED
      BY <3>3, <3>4, <3>5, <3>6
  <2> QED
    BY <2>2, <2>3
<1> HIDE DEF G
<1>2. S \in G
  BY <1>1, FiniteInduction
<1> QED
  BY <1>2 DEF G

LEMMA SumOfOneSmaller ==
  ASSUME NEW S, IsFiniteSet(S), NEW f, NEW h,
         \A x \in S : f[x] \in Int /\ h[x] \in Int /\ f[x] <= h[x],
         NEW y \in S, f[y] < h[y]
  PROVE  SumFunctionOnSet(f, S) < SumFunctionOnSet(h, S)
<1>1. IsFiniteSet(S \ {y})
  BY FS_RemoveElement
<1>2. /\ SumFunctionOnSet(f, S) = f[y] + SumFunctionOnSet(f, S \ {y})
      /\ SumFunctionOnSet(h, S) = h[y] + SumFunctionOnSet(h, S \ {y})
  BY SumRules
<1>3. SumFunctionOnSet(f, S \ {y}) \in Int /\ SumFunctionOnSet(h, S \ {y}) \in Int
  BY <1>1, SumRules
<1>4. SumFunctionOnSet(f, S \ {y}) <= SumFunctionOnSet(h, S \ {y})
  BY <1>1, SumOfSmaller
<1>5. f[y] \in Int /\ h[y] \in Int
  OBVIOUS
<1> QED
  BY <1>2, <1>3, <1>4, <1>5

LEMMA SumOfNaturals ==
  ASSUME NEW S, IsFiniteSet(S), NEW f, \A x \in S : f[x] \in Nat
  PROVE  SumFunctionOnSet(f, S) \in Nat
<1> DEFINE G == {T \in SUBSET S : SumFunctionOnSet(f, T) \in Nat}
<1>1. ASSUME NEW T \in SUBSET S, \A x \in T : T \ {x} \in G PROVE T \in G
  <2>1. IsFiniteSet(T)
    BY FS_Subset
  <2>2. CASE T = {}
    BY <2>2, SumOfNone
  <2>3. CASE T # {}
    <3>1. PICK x \in T : TRUE
      BY <2>3
    <3>2. SumFunctionOnSet(f, T) = f[x] + SumFunctionOnSet(f, T \ {x})
      BY <2>1, SumRules
    <3>3. SumFunctionOnSet(f, T \ {x}) \in Nat /\ f[x] \in Nat
      BY <1>1
    <3> QED
      BY <3>2, <3>3
  <2> QED
    BY <2>2, <2>3
<1> HIDE DEF G
<1>2. S \in G
  BY <1>1, FiniteInduction
<1> QED
  BY <1>2 DEF G
(* One entry of a book of balances is changed. *)
LEMMA ChangedBook ==
  ASSUME NEW U, NEW C, NEW B \in [U -> [C -> Int]], NEW w \in U, NEW c \in C, NEW x \in Int,
         NEW b, b = [B EXCEPT ![w][c] = x]
  PROVE  /\ b \in [U -> [C -> Int]]
         /\ \A u \in U, d \in C : b[u][d] = IF u = w /\ d = c THEN x ELSE B[u][d]
<1> DEFINE line == [B[w] EXCEPT ![c] = x]
<1>1. /\ line \in [C -> Int] /\ line[c] = x
      /\ \A d \in C : d # c => line[d] = B[w][d]
  OBVIOUS
<1>2. b = [B EXCEPT ![w] = line]
  OBVIOUS
<1> HIDE DEF line
<1>3. /\ b \in [U -> [C -> Int]] /\ b[w] = line
      /\ \A u \in U : u # w => b[u] = B[u]
  BY <1>1, <1>2
<1> QED
  BY <1>1, <1>3

(* From a book of balances a is taken at one place and added at another,   *)
(* or at the same.                                                         *)
Moved(B, s, r, c, a) ==
  LET t == [B EXCEPT ![s][c] = @ - a] IN [t EXCEPT ![r][c] = @ + a]

Differs(b, U, C, B, s, r, c, a) ==
  /\ b \in [U -> [C -> Int]]
  /\ \A u \in U, d \in C :
       b[u][d] = B[u][d] + (IF u = r /\ d = c THEN a ELSE 0)
                         - (IF u = s /\ d = c THEN a ELSE 0)

LEMMA MovedBook ==
  ASSUME NEW U, NEW C, NEW B \in [U -> [C -> Int]], NEW s \in U, NEW r \in U,
         NEW c \in C, NEW a \in Int
  PROVE  Differs(Moved(B, s, r, c, a), U, C, B, s, r, c, a)
<1> DEFINE x == B[s][c] - a
           t == [B EXCEPT ![s][c] = x]
           y == t[r][c] + a
           b == [t EXCEPT ![r][c] = y]
<1>1. x \in Int
  OBVIOUS
<1>2. /\ t \in [U -> [C -> Int]]
      /\ \A u \in U, d \in C : t[u][d] = IF u = s /\ d = c THEN x ELSE B[u][d]
  <2> HIDE DEF x
  <2>1. t = [B EXCEPT ![s][c] = x]
    OBVIOUS
  <2> HIDE DEF t
  <2> QED
    BY ONLY <1>1, <2>1, ChangedBook, B \in [U -> [C -> Int]], s \in U, c \in C
<1>3. y \in Int
  <2> HIDE DEF t
  <2> QED
    BY <1>2
<1>4. /\ b \in [U -> [C -> Int]]
      /\ \A u \in U, d \in C : b[u][d] = IF u = r /\ d = c THEN y ELSE t[u][d]
  <2> HIDE DEF t, y
  <2>1. b = [t EXCEPT ![r][c] = y]
    OBVIOUS
  <2> HIDE DEF b
  <2> QED
    BY ONLY <1>2, <1>3, <2>1, ChangedBook, r \in U, c \in C
<1>5. Moved(B, s, r, c, a) = b
  BY DEF Moved
<1>6. ASSUME NEW u \in U, NEW d \in C
      PROVE  b[u][d] = B[u][d] + (IF u = r /\ d = c THEN a ELSE 0)
                                - (IF u = s /\ d = c THEN a ELSE 0)
  <2> HIDE DEF t, b
  <2>1. B[u][d] \in Int /\ B[s][c] \in Int /\ t[u][d] \in Int /\ t[r][c] \in Int
    BY <1>2
  <2>2. t[u][d] = B[u][d] - (IF u = s /\ d = c THEN a ELSE 0)
    BY ONLY <1>2, <2>1, a \in Int, u \in U, d \in C
  <2>3. b[u][d] = t[u][d] + (IF u = r /\ d = c THEN a ELSE 0)
    BY ONLY <1>4, <2>1, a \in Int, u \in U, d \in C
  <2> QED
    BY ONLY <2>1, <2>2, <2>3, a \in Int
<1> HIDE DEF b
<1> QED
  BY <1>4, <1>5, <1>6 DEF Differs
=============================================================================

---------------------------- MODULE SumTheorems ----------------------------
(***************************************************************************)
(* Sums over finite sets: SumFunctionOnSet is defined by choosing one      *)
(* element after another, and does not depend on the choice.  Proved once  *)
(* for all sums, by induction over the subsets of a finite set; quantities *)
(* of garments (CheckoutProofs), deposits given back (ComponentsProofs) and*)
(* what was refunded of a payment (OrderPaymentsProofs) are such sums.     *)
(***************************************************************************)
EXTENDS Integers, Functions, FiniteSetTheorems, WellFoundedInduction, TLAPS

Picked(s) == CHOOSE x \in s : TRUE

Adding(f, S, it) == [s \in SUBSET S |-> IF s = {} THEN 0 ELSE f[Picked(s)] + it[s \ {Picked(s)}]]

LEMMA SumIs == 
  ASSUME NEW f, NEW S
  PROVE SumFunctionOnSet(f, S) = (CHOOSE it : it = Adding(f, S, it))[S]
BY DEF SumFunctionOnSet, FoldFunctionOnSet, MapThenFoldSet, Adding, Picked

LEMMA SubsetInduction ==
  ASSUME NEW S, IsFiniteSet(S), NEW G \in SUBSET SUBSET S,
         \A T \in SUBSET S : (\A U \in SUBSET T : U # T => U \in G) => T \in G
  PROVE  \A T \in SUBSET S : T \in G
<1>. DEFINE Bad == (SUBSET S) \ G
<1>. SUFFICES ASSUME Bad # {} PROVE FALSE
  OBVIOUS
<1>1. Bad \subseteq FiniteSubsetsOf(S)
  BY FS_FiniteSubsetsOfFinite
<1>2. IsWellFoundedOn(StrictSubsetOrdering(S), FiniteSubsetsOf(S))
  BY FS_StrictSubsetOrderingWellFounded
<1>3. PICK T \in Bad : \A U \in Bad : <<U, T>> \notin StrictSubsetOrdering(S)
  <2>. HIDE DEF Bad
  <2>. QED  BY <1>1, <1>2, WFMin
<1>4. ASSUME NEW U \in SUBSET T, U # T
      PROVE  U \in G
  BY <1>3, <1>4 DEF StrictSubsetOrdering
<1>. QED
  BY <1>3, <1>4

SumOver(f, S) == SumFunctionOnSet(f, S)

LEMMA SumStepsOnce ==
  ASSUME NEW f, NEW S, IsFiniteSet(S)
  PROVE  \A T \in SUBSET S :
           SumOver(f, T) = IF T = {} THEN 0 ELSE f[Picked(T)] + SumOver(f, T \ {Picked(T)})
<1>. DEFINE Added(s) == IF s = {} THEN 0 ELSE f[Picked(s)] + SumOver(f, s \ {Picked(s)})
            G == {T \in SUBSET S : SumOver(f, T) = Added(T)}
<1>1. ASSUME NEW T \in SUBSET S, \A U \in SUBSET T : U # T => U \in G
      PROVE  T \in G
  <2>. DEFINE H == [s \in SUBSET T |-> Added(s)]
  <2>1. \A s \in SUBSET T : s # {} => Picked(s) \in s
    BY DEF Picked
  <2>2. \A s \in SUBSET T : s # T => H[s] = SumOver(f, s)
    BY <1>1
  <2>3. \A s \in SUBSET T : s # {} => H[s \ {Picked(s)}] = SumOver(f, s \ {Picked(s)})
    BY <2>1, <2>2
  <2>4. H = Adding(f, T, H)
    <3>. HIDE DEF H
    <3>1. H = [s \in SUBSET T |-> Added(s)]
      BY DEF H
    <3>. QED
      BY <2>1, <2>3, <3>1 DEF Adding
  <2>. DEFINE I == CHOOSE it : it = Adding(f, T, it)
  <2>5. I = Adding(f, T, I)
    <3>. HIDE DEF H
    <3>. QED  BY <2>4
  <2>6. SumOver(f, T) = I[T]
    BY SumIs DEF SumOver
  <2>. HIDE DEF I, H
  <2>7. IsFiniteSet(T)
    BY FS_Subset
  <2>8. \A s \in SUBSET T : s \in {u \in SUBSET T : I[u] = H[u]}
    <3>. DEFINE Same == {u \in SUBSET T : I[u] = H[u]}
    <3>1. ASSUME NEW s \in SUBSET T, \A u \in SUBSET s : u # s => u \in Same
          PROVE  s \in Same
      <4>1. I[s] = IF s = {} THEN 0 ELSE f[Picked(s)] + I[s \ {Picked(s)}]
        BY <2>5 DEF Adding
      <4>2. H[s] = IF s = {} THEN 0 ELSE f[Picked(s)] + H[s \ {Picked(s)}]
        BY <2>4 DEF Adding
      <4>3. s # {} => I[s \ {Picked(s)}] = H[s \ {Picked(s)}]
        BY <2>1, <3>1
      <4>. QED
        BY <4>1, <4>2, <4>3
    <3>2. Same \in SUBSET SUBSET T
      OBVIOUS
    <3>. HIDE DEF Same
    <3>3. \A s \in SUBSET T : s \in Same
      BY <2>7, <3>1, <3>2, SubsetInduction
    <3>. QED
      BY <3>3 DEF Same
  <2>9. I[T] = H[T]
    BY <2>8
  <2>. QED
    BY <2>6, <2>9 DEF H
<1>2. G \in SUBSET SUBSET S
  OBVIOUS
<1>. HIDE DEF G
<1>3. \A T \in SUBSET S : T \in G
  BY <1>1, <1>2, SubsetInduction
<1>. QED
  BY <1>3 DEF G

LEMMA SumIsNat ==
  ASSUME NEW S, IsFiniteSet(S), NEW f, \A x \in S : f[x] \in Nat
  PROVE  \A T \in SUBSET S : SumOver(f, T) \in Nat
<1>. DEFINE G == {T \in SUBSET S : SumOver(f, T) \in Nat}
<1>1. ASSUME NEW T \in SUBSET S, \A U \in SUBSET T : U # T => U \in G
      PROVE  T \in G
  <2>1. SumOver(f, T) = IF T = {} THEN 0 ELSE f[Picked(T)] + SumOver(f, T \ {Picked(T)})
    BY SumStepsOnce
  <2>2. T # {} => Picked(T) \in T
    BY DEF Picked
  <2>. QED
    BY <1>1, <2>1, <2>2
<1>2. G \in SUBSET SUBSET S
  OBVIOUS
<1>. HIDE DEF G
<1>3. \A T \in SUBSET S : T \in G
  BY <1>1, <1>2, SubsetInduction
<1>. QED
  BY <1>3 DEF G

LEMMA SumSteps ==
  ASSUME NEW S, IsFiniteSet(S), NEW f, \A x \in S : f[x] \in Nat
  PROVE  /\ SumOver(f, {}) = 0
         /\ \A T \in SUBSET S : \A x \in T : SumOver(f, T) = f[x] + SumOver(f, T \ {x})
<1>1. SumOver(f, {}) = 0
  BY SumStepsOnce
<1>. DEFINE G == {T \in SUBSET S : \A x \in T : SumOver(f, T) = f[x] + SumOver(f, T \ {x})}
<1>2. ASSUME NEW T \in SUBSET S, \A U \in SUBSET T : U # T => U \in G
      PROVE  T \in G
  <2>. SUFFICES ASSUME NEW x \in T PROVE SumOver(f, T) = f[x] + SumOver(f, T \ {x})
    OBVIOUS
  <2>1. PICK y \in T : SumOver(f, T) = f[y] + SumOver(f, T \ {y})
    <3>1. Picked(T) \in T
      BY DEF Picked
    <3>. QED
      BY <3>1, SumStepsOnce
  <2>2. CASE x = y
    BY <2>1, <2>2
  <2>3. CASE x # y
    <3>1. SumOver(f, T \ {y}) = f[x] + SumOver(f, (T \ {y}) \ {x})
      BY <1>2, <2>3
    <3>2. SumOver(f, T \ {x}) = f[y] + SumOver(f, (T \ {x}) \ {y})
      BY <1>2, <2>3
    <3>3. (T \ {y}) \ {x} = (T \ {x}) \ {y}
      OBVIOUS
    <3>4. PICK n \in Nat, a \in Nat, b \in Nat :
            n = SumOver(f, (T \ {x}) \ {y}) /\ a = f[x] /\ b = f[y]
      BY SumIsNat
    <3>5. SumOver(f, T \ {y}) = a + n /\ SumOver(f, T \ {x}) = b + n /\ SumOver(f, T) = b + SumOver(f, T \ {y})
      BY <2>1, <3>1, <3>2, <3>3, <3>4
    <3>6. b + (a + n) = a + (b + n)
      BY <3>4
    <3>. QED
      BY <3>4, <3>5, <3>6
  <2>. QED
    BY <2>2, <2>3
<1>3. G \in SUBSET SUBSET S
  OBVIOUS
<1>. HIDE DEF G
<1>4. \A T \in SUBSET S : T \in G
  BY <1>2, <1>3, SubsetInduction
<1>. QED
  BY <1>1, <1>4 DEF G

LEMMA SumHasItsTerms ==
  ASSUME NEW S, IsFiniteSet(S), NEW f, \A x \in S : f[x] \in Nat, NEW x \in S
  PROVE  SumOver(f, S) >= f[x]
<1>1. PICK a \in Nat, n \in Nat : a = f[x] /\ n = SumOver(f, S \ {x})
  BY SumIsNat
<1>2. SumOver(f, S) = a + n
  BY <1>1, SumSteps
<1>. QED
  BY <1>1, <1>2

LEMMA SumOfZeros ==
  ASSUME NEW S, IsFiniteSet(S), NEW f, \A x \in S : f[x] = 0
  PROVE  SumOver(f, S) = 0
<1>. DEFINE G == {T \in SUBSET S : SumOver(f, T) = 0}
<1>1. ASSUME NEW T \in SUBSET S, \A U \in SUBSET T : U # T => U \in G
      PROVE  T \in G
  <2>1. CASE T = {}
    BY <2>1, SumSteps
  <2>2. CASE T # {}
    <3>1. PICK x \in T : TRUE
      BY <2>2
    <3>2. SumOver(f, T) = f[x] + SumOver(f, T \ {x})
      BY SumSteps
    <3>3. f[x] = 0 /\ SumOver(f, T \ {x}) = 0
      BY <1>1
    <3>. QED
      BY <3>2, <3>3
  <2>. QED
    BY <2>1, <2>2
<1>2. G \in SUBSET SUBSET S
  OBVIOUS
<1>. HIDE DEF G
<1>3. \A T \in SUBSET S : T \in G
  BY <1>1, <1>2, SubsetInduction
<1>. QED
  BY <1>3 DEF G

LEMMA SumIsBounded ==
  ASSUME NEW S, IsFiniteSet(S), NEW f, \A x \in S : f[x] \in Nat,
         NEW I, IsFiniteSet(I), NEW d, \A i \in I : d[i] \in Nat,
         NEW m, \A x \in S : m[x] \in I /\ f[x] <= d[m[x]],
         \A x, y \in S : m[x] = m[y] => x = y
  PROVE  SumOver(f, S) <= SumOver(d, I)
<1>. DEFINE Into(T, J) == \A x \in T : m[x] \in J
            G == {T \in SUBSET S : \A J \in SUBSET I : Into(T, J) => SumOver(f, T) <= SumOver(d, J)}
<1>1. ASSUME NEW T \in SUBSET S, \A U \in SUBSET T : U # T => U \in G
      PROVE  T \in G
  <2>. SUFFICES ASSUME NEW J \in SUBSET I, Into(T, J)
                PROVE  SumOver(f, T) <= SumOver(d, J)
    OBVIOUS
  <2>1. CASE T = {}
    BY <2>1, SumSteps, SumIsNat
  <2>2. CASE T # {}
    <3>1. PICK x \in T : TRUE
      BY <2>2
    <3>2. PICK a \in Nat, b \in Nat, n \in Nat, k \in Nat :
            a = f[x] /\ b = d[m[x]] /\ n = SumOver(f, T \ {x}) /\ k = SumOver(d, J \ {m[x]})
      BY SumIsNat
    <3>3. SumOver(f, T) = a + n
      BY <3>2, SumSteps
    <3>4. SumOver(d, J) = b + k
      <4>1. m[x] \in J
        OBVIOUS
      <4>. QED
        BY <3>2, <4>1, SumSteps
    <3>5. n <= k
      <4>1. Into(T \ {x}, J \ {m[x]})
        OBVIOUS
      <4>2. T \ {x} \in G
        BY <1>1
      <4>. QED
        BY <3>2, <4>1, <4>2
    <3>6. a <= b
      BY <3>2
    <3>. QED
      BY <3>2, <3>3, <3>4, <3>5, <3>6
  <2>. QED
    BY <2>1, <2>2
<1>2. G \in SUBSET SUBSET S
  OBVIOUS
<1>. HIDE DEF G
<1>3. \A T \in SUBSET S : T \in G
  BY <1>1, <1>2, SubsetInduction
<1>4. Into(S, I)
  OBVIOUS
<1>. QED
  BY <1>3, <1>4 DEF G
=============================================================================

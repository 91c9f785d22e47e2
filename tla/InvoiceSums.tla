------------------------------ MODULE InvoiceSums ------------------------------
(***************************************************************************)
(* Sums of rows: what SumOf of module Invoices computes for every finite   *)
(* set of rows.  It folds over the set in an order a CHOOSE decides, so    *)
(* that the order does not matter is a fact to be proved.  The library's   *)
(* induction theorems quantify over a predicate; SubsetInduction says the  *)
(* same of a set, as a least counterexample, and needs none.               *)
(***************************************************************************)
EXTENDS Invoices, FiniteSetTheorems, TLAPS

\* What holds of a set of rows when it holds of all smaller ones holds of all.
LEMMA SubsetInduction ==
    ASSUME NEW S, IsFiniteSet(S), NEW Good \in SUBSET SUBSET S,
           \A A \in SUBSET S : (\A B \in SUBSET A : B # A => B \in Good) => A \in Good
    PROVE  Good = SUBSET S
<1> SUFFICES ASSUME Good # SUBSET S PROVE FALSE
  OBVIOUS
<1> DEFINE bad == (SUBSET S) \ Good
<1>1. bad # {} /\ bad \subseteq FiniteSubsetsOf(S)
  BY FS_FiniteSubsetsOfFinite
<1>2. PICK A \in bad : \A B \in bad : ~ (<<B, A>> \in StrictSubsetOrdering(S))
  <2> HIDE DEF bad
  <2> QED BY <1>1, FS_StrictSubsetOrderingWellFounded, WFMin
<1>3. \A B \in SUBSET A : B # A => B \in Good
  BY <1>2 DEF StrictSubsetOrdering
<1> QED BY <1>2, <1>3

-----------------------------------------------------------------------------
(* The fold is the function its recursive definition describes             *)

Some(rows) == CHOOSE r \in rows : TRUE
Step(g, s) == IF s = {} THEN 0 ELSE Some(s).sum + g[s \ {Some(s)}]

\* g sums the subsets of S
Sums(g, S) == g = [s \in SUBSET S |-> Step(g, s)]
Summable(S) == \E g : Sums(g, S)

LEMMA SomeRow == \A s : s # {} => Some(s) \in s
BY DEF Some

LEMMA SumOfFold ==
    ASSUME NEW S
    PROVE  SumOf(S) = (CHOOSE g : Sums(g, S))[S]
BY DEF SumOf, MapThenSumSet, MapThenFoldSet, Sums, Step, Some

LEMMA SumsAt ==
    ASSUME NEW S, NEW g, Sums(g, S), NEW s \in SUBSET S
    PROVE  /\ s = {} => g[s] = 0
           /\ s # {} => g[s] = Some(s).sum + g[s \ {Some(s)}]
<1>1. g[s] = Step(g, s)
  BY DEF Sums
<1> QED BY <1>1 DEF Step

\* Two such functions agree where both are defined.
LEMMA SumsAgree ==
    ASSUME NEW S, IsFiniteSet(S), NEW T \in SUBSET S,
           NEW g, Sums(g, S), NEW h, Sums(h, T)
    PROVE  \A s \in SUBSET T : g[s] = h[s]
<1> DEFINE good == {s \in SUBSET T : g[s] = h[s]}
<1>1. IsFiniteSet(T)
  BY FS_Subset
<1>2. ASSUME NEW A \in SUBSET T, \A B \in SUBSET A : B # A => B \in good
      PROVE  A \in good
  <2>1. CASE A = {}
    BY <2>1, SumsAt
  <2>2. CASE A # {}
    <3>1. Some(A) \in A
      BY <2>2, SomeRow
    <3>2. A \ {Some(A)} \in good
      BY <1>2, <3>1
    <3>3. g[A] = Some(A).sum + g[A \ {Some(A)}] /\ h[A] = Some(A).sum + h[A \ {Some(A)}]
      BY <2>2, SumsAt
    <3> QED BY <3>2, <3>3
  <2> QED BY <2>1, <2>2
<1>3. good \in SUBSET SUBSET T
  OBVIOUS
<1> HIDE DEF good
<1>4. good = SUBSET T
  BY <1>1, <1>2, <1>3, SubsetInduction
<1> QED BY <1>4 DEF good

LEMMA SumOfSummable ==
    ASSUME NEW S, IsFiniteSet(S), Summable(S)
    PROVE  /\ S = {} => SumOf(S) = 0
           /\ S # {} /\ Summable(S \ {Some(S)})
                => SumOf(S) = Some(S).sum + SumOf(S \ {Some(S)})
<1> DEFINE g == CHOOSE f : Sums(f, S)
           T == S \ {Some(S)}
           h == CHOOSE f : Sums(f, T)
<1>1. Sums(g, S) /\ SumOf(S) = g[S]
  BY SumOfFold DEF Summable
<1>2. Summable(T) => Sums(h, T) /\ SumOf(T) = h[T]
  BY SumOfFold DEF Summable
<1> HIDE DEF g, h
<1>3. S = {} => g[S] = 0
  BY <1>1, SumsAt
<1>4. S # {} => g[S] = Some(S).sum + g[T]
  BY <1>1, SumsAt
<1>5. Summable(T) => g[T] = h[T]
  BY <1>1, <1>2, SumsAgree
<1> QED BY <1>1, <1>2, <1>3, <1>4, <1>5

LEMMA AllSummable ==
    ASSUME NEW S, IsFiniteSet(S)
    PROVE  Summable(S)
<1> DEFINE good == {A \in SUBSET S : Summable(A)}
<1>1. ASSUME NEW A \in SUBSET S, \A B \in SUBSET A : B # A => B \in good
      PROVE  A \in good
  <2> DEFINE top == IF A = {} THEN 0 ELSE Some(A).sum + SumOf(A \ {Some(A)})
             f == [s \in SUBSET A |-> IF s = A THEN top ELSE SumOf(s)]
  <2>1. \A s \in SUBSET A : IsFiniteSet(s)
    BY FS_Subset
  <2>2. ASSUME NEW s \in SUBSET A
        PROVE  f[s] = Step(f, s)
    <3> DEFINE t == s \ {Some(s)}
    <3>1. s # {} => t # A /\ t \in SUBSET A /\ f[t] = SumOf(t)
      BY SomeRow
    <3>2. CASE s = A
      <4>1. f[s] = IF s = {} THEN 0 ELSE Some(s).sum + SumOf(t)
        BY <3>2
      <4> HIDE DEF f
      <4> QED BY <3>1, <4>1 DEF Step
    <3>3. CASE s # A
      <4>1. f[s] = SumOf(s) /\ Summable(s)
        BY <1>1, <3>3
      <4>2. s # {} => Summable(t)
        BY <1>1, <3>1
      <4>3. SumOf(s) = IF s = {} THEN 0 ELSE Some(s).sum + SumOf(t)
        BY <2>1, <4>1, <4>2, SumOfSummable
      <4> HIDE DEF f
      <4> QED BY <3>1, <4>1, <4>3 DEF Step
    <3> QED BY <3>2, <3>3
  <2>3. f = [s \in SUBSET A |-> f[s]]
    OBVIOUS
  <2> HIDE DEF f
  <2>4. Sums(f, A)
    BY <2>2, <2>3 DEF Sums
  <2> QED BY <2>4 DEF Summable
<1>2. good \in SUBSET SUBSET S
  OBVIOUS
<1> HIDE DEF good
<1>3. good = SUBSET S
  BY <1>1, <1>2, SubsetInduction
<1> QED BY <1>3 DEF good

-----------------------------------------------------------------------------
(* Sums                                                                    *)

\* SumOf is what one would write down: nothing, or some row and the rest.
LEMMA SumUnfolded ==
    ASSUME NEW S, IsFiniteSet(S)
    PROVE  /\ S = {} => SumOf(S) = 0
           /\ S # {} => SumOf(S) = Some(S).sum + SumOf(S \ {Some(S)})
<1>1. Summable(S) /\ Summable(S \ {Some(S)})
  BY AllSummable, FS_RemoveElement
<1> QED BY <1>1, SumOfSummable

Counted(S) == IsFiniteSet(S) /\ \A r \in S : r.sum \in Nat

LEMMA CountedSubset ==
    ASSUME NEW S, Counted(S), NEW T \in SUBSET S
    PROVE  Counted(T)
BY FS_Subset DEF Counted

LEMMA SumNat ==
    ASSUME NEW S, Counted(S)
    PROVE  SumOf(S) \in Nat
<1> DEFINE good == {A \in SUBSET S : SumOf(A) \in Nat}
<1>1. ASSUME NEW A \in SUBSET S, \A B \in SUBSET A : B # A => B \in good
      PROVE  A \in good
  <2>0. IsFiniteSet(A) /\ \A r \in A : r.sum \in Nat
    BY CountedSubset DEF Counted
  <2>1. CASE A = {}
    <3>1. SumOf(A) = 0
      BY <2>0, <2>1, SumUnfolded
    <3> QED BY <3>1
  <2>2. CASE A # {}
    <3>1. Some(A) \in A
      BY <2>2, SomeRow
    <3>2. A \ {Some(A)} \in good
      BY <1>1, <3>1
    <3>3. SumOf(A) = Some(A).sum + SumOf(A \ {Some(A)})
      BY <2>0, <2>2, SumUnfolded
    <3> QED BY <2>0, <3>1, <3>2, <3>3
  <2> QED BY <2>1, <2>2
<1>2. good \in SUBSET SUBSET S
  OBVIOUS
<1> HIDE DEF good
<1>3. good = SUBSET S
  BY <1>1, <1>2, SubsetInduction DEF Counted
<1> QED BY <1>3 DEF good

\* Whichever row is taken out, the rest is as much less.
LEMMA SumRemove ==
    ASSUME NEW S, Counted(S), NEW r \in S
    PROVE  SumOf(S) = r.sum + SumOf(S \ {r})
<1> DEFINE good == {A \in SUBSET S : \A x \in A : SumOf(A) = x.sum + SumOf(A \ {x})}
<1>1. ASSUME NEW A \in SUBSET S, \A B \in SUBSET A : B # A => B \in good, NEW x \in A
      PROVE  SumOf(A) = x.sum + SumOf(A \ {x})
  <2> DEFINE y == Some(A)
             rest == (A \ {x}) \ {y}
  <2>1. /\ y \in A
        /\ SumOf(A) = y.sum + SumOf(A \ {y})
    BY <1>1, CountedSubset, SomeRow, SumUnfolded DEF Counted
  <2> HIDE DEF y
  <2>2. CASE x = y
    BY <2>1, <2>2
  <2>3. CASE x # y
    <3>1. A \ {x} \in good /\ y \in A \ {x}
      BY <1>1, <2>1, <2>3
    <3>2. A \ {y} \in good /\ x \in A \ {y}
      BY <1>1, <2>1, <2>3
    <3>3. (A \ {y}) \ {x} = rest
      OBVIOUS
    <3>4. SumOf(A \ {x}) = y.sum + SumOf(rest)
      BY <3>1
    <3>5. SumOf(A \ {y}) = x.sum + SumOf(rest)
      BY <3>2, <3>3
    <3>6. Counted(A) /\ Counted(rest)
      BY CountedSubset
    <3>7. x.sum \in Nat /\ y.sum \in Nat /\ SumOf(rest) \in Nat
      BY <2>1, <3>6, SumNat DEF Counted
    <3> QED BY <2>1, <3>4, <3>5, <3>7
  <2> QED BY <2>2, <2>3
<1>2. good \in SUBSET SUBSET S
  OBVIOUS
<1>3. \A A \in SUBSET S : (\A B \in SUBSET A : B # A => B \in good) => A \in good
  BY <1>1
<1> HIDE DEF good
<1>4. good = SUBSET S
  BY <1>2, <1>3, SubsetInduction DEF Counted
<1> QED BY <1>4 DEF good

\* A row more adds its sum.
LEMMA SumAdd ==
    ASSUME NEW S, Counted(S), NEW r, r.sum \in Nat, r \notin S
    PROVE  /\ Counted(S \cup {r})
           /\ SumOf(S \cup {r}) = SumOf(S) + r.sum
<1>1. Counted(S \cup {r})
  BY FS_AddElement DEF Counted
<1>2. SumOf(S \cup {r}) = r.sum + SumOf((S \cup {r}) \ {r})
  BY <1>1, SumRemove
<1>3. (S \cup {r}) \ {r} = S
  OBVIOUS
<1> QED BY <1>1, <1>2, <1>3, SumNat

\* Fewer rows make no larger sum.
LEMMA SumMonotone ==
    ASSUME NEW S, Counted(S), NEW T \in SUBSET S
    PROVE  SumOf(T) <= SumOf(S)
<1> DEFINE good == {A \in SUBSET S : \A B \in SUBSET A : SumOf(B) <= SumOf(A)}
<1>1. ASSUME NEW A \in SUBSET S, \A B \in SUBSET A : B # A => B \in good,
             NEW B \in SUBSET A
      PROVE  SumOf(B) <= SumOf(A)
  <2>1. CASE A = B
    BY <2>1, SumNat, CountedSubset
  <2>2. CASE A # B
    <3>1. PICK x \in A : x \notin B
      BY <2>2
    <3>2. SumOf(B) <= SumOf(A \ {x})
      BY <1>1, <3>1
    <3>3. Counted(A) /\ Counted(B) /\ Counted(A \ {x})
      BY CountedSubset
    <3>4. SumOf(A) = x.sum + SumOf(A \ {x}) /\ x.sum \in Nat
      BY <3>3, SumRemove DEF Counted
    <3> QED BY <3>2, <3>3, <3>4, SumNat
  <2> QED BY <2>1, <2>2
<1>2. good \in SUBSET SUBSET S
  OBVIOUS
<1>3. \A A \in SUBSET S : (\A B \in SUBSET A : B # A => B \in good) => A \in good
  BY <1>1
<1> HIDE DEF good
<1>4. good = SUBSET S
  BY <1>2, <1>3, SubsetInduction DEF Counted
<1> QED BY <1>4 DEF good
=============================================================================

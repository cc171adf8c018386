----------------------- MODULE SchedulerBudgetProofs -----------------------
(***************************************************************************)
(* The scheduler keeps its caps and its budgets, and what it promises to a *)
(* pending retry stays free for it.  The argument follows the ledger of a  *)
(* budget group: what its segments are charged, what its pending retries   *)
(* are promised and the attempts it has used.  A step either lets them     *)
(* fall, or writes one promise out of what is free, or turns a promise or  *)
(* what is free into one charge.  From there the last part shows that what *)
(* is over stays as it is (HistoryFrozen).                                 *)
(***************************************************************************)
EXTENDS SchedulerProofs, Functions

-----------------------------------------------------------------------------
(* Sums of natural numbers over a finite set, as the budgets are computed  *)
(* with SumFunctionOnSet.  The operator is a fold along an arbitrary       *)
(* enumeration of the set; the lemmas show that the enumeration does not   *)
(* matter.  An argument by induction on a finite set is given as the       *)
(* choice of a smallest counterexample.                                    *)

\* A set of finite subsets of S that is not empty has a smallest element.
LEMMA SmallestSubset ==
  ASSUME NEW S, IsFiniteSet(S), NEW C, C \subseteq SUBSET S, C # {}
  PROVE  \E T \in C : \A U \in C : ~(U \subseteq T /\ U # T)
<1>1. FiniteSubsetsOf(S) = SUBSET S BY FS_FiniteSubsetsOfFinite
<1>2. IsWellFoundedOn(StrictSubsetOrdering(S), SUBSET S)
  BY <1>1, FS_StrictSubsetOrderingWellFounded
<1>3. PICK T \in C : \A U \in C : <<U, T>> \notin StrictSubsetOrdering(S)
  BY <1>2, WFMin
<1>4. ASSUME NEW U \in C, U \subseteq T, U # T PROVE FALSE
  <2>1. <<U, T>> \in StrictSubsetOrdering(S) BY <1>4 DEF StrictSubsetOrdering
  <2> QED BY <2>1, <1>3
<1> QED BY <1>3, <1>4

-----------------------------------------------------------------------------
(* The fold. *)

\* The element the fold takes out of s first.
First(s) == CHOOSE x \in s : TRUE

\* g is the fold of f over the subsets of A.
Folds(f, g, A) ==
  g = [s \in SUBSET A |-> IF s = {} THEN 0 ELSE f[First(s)] + g[s \ {First(s)}]]

LEMMA FoldAt ==
  ASSUME NEW f, NEW g, NEW A, Folds(f, g, A), NEW s, s \subseteq A
  PROVE  g[s] = IF s = {} THEN 0 ELSE f[First(s)] + g[s \ {First(s)}]
<1>1. g = [u \in SUBSET A |-> IF u = {} THEN 0 ELSE f[First(u)] + g[u \ {First(u)}]]
  BY DEF Folds
<1>2. s \in SUBSET A OBVIOUS
<1> QED BY <1>1, <1>2

LEMMA FirstIn == ASSUME NEW s, s # {} PROVE First(s) \in s
BY DEF First

\* Two folds of the same function agree wherever both are defined.
LEMMA FoldsAgree ==
  ASSUME NEW f, NEW g, NEW h, NEW A, NEW B, IsFiniteSet(A), Folds(f, g, A), Folds(f, h, B),
         NEW s, s \subseteq A, s \subseteq B
  PROVE  g[s] = h[s]
<1> DEFINE C == {u \in SUBSET A : u \subseteq B /\ g[u] # h[u]}
<1> SUFFICES ASSUME C # {} PROVE FALSE OBVIOUS
<1>0. C \subseteq SUBSET A OBVIOUS
<1>1. PICK u \in C : \A v \in C : ~(v \subseteq u /\ v # u)
  <2> HIDE DEF C
  <2> QED BY <1>0, SmallestSubset
<1>a. u \subseteq A /\ u \subseteq B OBVIOUS
<1>b. /\ g[u] = IF u = {} THEN 0 ELSE f[First(u)] + g[u \ {First(u)}]
      /\ h[u] = IF u = {} THEN 0 ELSE f[First(u)] + h[u \ {First(u)}]
  BY <1>a, FoldAt
<1>2. CASE u = {} BY <1>2, <1>b
<1>3. CASE u # {}
  <2> DEFINE x == First(u)
  <2>1. x \in u BY <1>3, FirstIn
  <2>2. g[u] = f[x] + g[u \ {x}] /\ h[u] = f[x] + h[u \ {x}] BY <1>3, <1>b
  <2>3. u \ {x} \notin C BY <2>1, <1>1
  <2> QED BY <2>2, <2>3
<1> QED BY <1>2, <1>3

\* Every finite set has a fold.
LEMMA FoldsExist ==
  ASSUME NEW f, NEW A, IsFiniteSet(A)
  PROVE  \E g : Folds(f, g, A)
<1> DEFINE C == {u \in SUBSET A : ~\E g : Folds(f, g, u)}
<1> SUFFICES ASSUME C # {} PROVE FALSE OBVIOUS
<1>0. C \subseteq SUBSET A OBVIOUS
<1>1. PICK T \in C : \A u \in C : ~(u \subseteq T /\ u # T)
  <2> HIDE DEF C
  <2> QED BY <1>0, SmallestSubset
<1> DEFINE G(u) == CHOOSE g : Folds(f, g, u)
           h == [s \in SUBSET T |-> IF s = {} THEN 0
                                    ELSE f[First(s)] + G(s \ {First(s)})[s \ {First(s)}]]
<1>2. ASSUME NEW u, u \subseteq T, u # T PROVE Folds(f, G(u), u) /\ IsFiniteSet(u)
  <2>1. u \notin C BY <1>1, <1>2
  <2>2. \E g : Folds(f, g, u) BY <2>1, <1>2
  <2> QED BY <2>2, <1>2, FS_Subset
<1>3. ASSUME NEW s \in SUBSET T, s # {}
      PROVE  G(s \ {First(s)})[s \ {First(s)}] = h[s \ {First(s)}]
  <2> DEFINE u == s \ {First(s)}
             v == u \ {First(u)}
  <2>1. First(s) \in s /\ u \subseteq T /\ u # T BY <1>3, FirstIn
  <2>2. Folds(f, G(u), u) BY <2>1, <1>2
  <2>3. G(u)[u] = IF u = {} THEN 0 ELSE f[First(u)] + G(u)[v]
    <3> HIDE DEF G, u
    <3> QED BY <2>2, FoldAt
  <2>4. h[u] = IF u = {} THEN 0 ELSE f[First(u)] + G(v)[v] BY <2>1
  <2>5. CASE u # {}
    <3>1. First(u) \in u /\ v \subseteq u /\ v \subseteq T /\ v # T BY <2>5, <2>1, FirstIn
    <3>2. Folds(f, G(v), v) /\ IsFiniteSet(v) /\ IsFiniteSet(u) BY <3>1, <2>1, <1>2
    <3>3. G(v)[v] = G(u)[v] BY <3>2, <2>2, <3>1, FoldsAgree
    <3> QED BY <3>3, <2>3, <2>4, <2>5
  <2> QED BY <2>3, <2>4, <2>5
<1>4. h = [s \in SUBSET T |-> IF s = {} THEN 0 ELSE f[First(s)] + h[s \ {First(s)}]]
  <2>1. \A s \in SUBSET T : (IF s = {} THEN 0 ELSE f[First(s)] + G(s \ {First(s)})[s \ {First(s)}])
                            = (IF s = {} THEN 0 ELSE f[First(s)] + h[s \ {First(s)}])
    <3> HIDE DEF h, G
    <3> QED BY <1>3
  <2> HIDE DEF G
  <2> DEFINE k == h
  <2>2. h = [s \in SUBSET T |-> IF s = {} THEN 0 ELSE f[First(s)] + k[s \ {First(s)}]]
    <3>1. \A s \in SUBSET T : (IF s = {} THEN 0 ELSE f[First(s)] + G(s \ {First(s)})[s \ {First(s)}])
                              = (IF s = {} THEN 0 ELSE f[First(s)] + k[s \ {First(s)}])
      BY <2>1
    <3> HIDE DEF k
    <3> QED BY <3>1
  <2> QED BY <2>2
<1>5. Folds(f, h, T) BY <1>4 DEF Folds
<1> QED BY <1>5, <1>1

-----------------------------------------------------------------------------
(* Sums. *)

LEMMA SumIsFold ==
  ASSUME NEW f, NEW A, IsFiniteSet(A), NEW g, Folds(f, g, A)
  PROVE  SumFunctionOnSet(f, A) = g[A]
<1> DEFINE iter == CHOOSE it : it = [s \in SUBSET A |->
                     IF s = {} THEN 0 ELSE LET x == CHOOSE x \in s : TRUE
                                           IN f[x] + it[s \ {x}]]
<1>1. SumFunctionOnSet(f, A) = iter[A]
  BY DEF SumFunctionOnSet, FoldFunctionOnSet, MapThenFoldSet
<1>2. Folds(f, iter, A)
  <2>1. \E it : Folds(f, it, A) OBVIOUS
  <2> QED BY <2>1 DEF Folds, First
<1>3. iter[A] = g[A] BY <1>2, FoldsAgree
<1> QED BY <1>1, <1>3

\* The empty sum, and the sum with its first element taken out.
LEMMA SumEmpty == ASSUME NEW f PROVE SumFunctionOnSet(f, {}) = 0
<1>1. IsFiniteSet({}) BY FS_EmptySet
<1>2. PICK g : Folds(f, g, {}) BY <1>1, FoldsExist
<1>3. g[{}] = 0 BY <1>2, FoldAt
<1> QED BY <1>1, <1>2, <1>3, SumIsFold

LEMMA SumFirst ==
  ASSUME NEW f, NEW A, IsFiniteSet(A), A # {}
  PROVE  SumFunctionOnSet(f, A) = f[First(A)] + SumFunctionOnSet(f, A \ {First(A)})
<1> DEFINE B == A \ {First(A)}
<1>1. IsFiniteSet(B) BY FS_RemoveElement
<1>2. PICK g : Folds(f, g, A) BY FoldsExist
<1>3. PICK k : Folds(f, k, B) BY <1>1, FoldsExist
<1>4. g[A] = f[First(A)] + g[B] BY <1>2, FoldAt
<1>5. g[B] = k[B] BY <1>1, <1>2, <1>3, FoldsAgree
<1> QED BY <1>1, <1>2, <1>3, <1>4, <1>5, SumIsFold

\* A sum of natural numbers is one, and any element may be taken out of it.
LEMMA SumTake ==
  ASSUME NEW D, NEW f \in [D -> Nat], NEW A, A \subseteq D, IsFiniteSet(A)
  PROVE  /\ SumFunctionOnSet(f, A) \in Nat
         /\ \A x \in A : SumFunctionOnSet(f, A) = f[x] + SumFunctionOnSet(f, A \ {x})
<1> DEFINE Sum(S)  == SumFunctionOnSet(f, S)
           Good(S) == Sum(S) \in Nat /\ \A x \in S : Sum(S) = f[x] + Sum(S \ {x})
           C       == {S \in SUBSET A : ~Good(S)}
<1> SUFFICES ASSUME C # {} PROVE FALSE OBVIOUS
<1>1. PICK T \in C : \A S \in C : ~(S \subseteq T /\ S # T)
  <2>1. C \subseteq SUBSET A OBVIOUS
  <2> HIDE DEF C
  <2> QED BY <2>1, SmallestSubset
<1>2. ASSUME NEW S, S \subseteq T, S # T PROVE Good(S) BY <1>1, <1>2
<1>3. T # {}
  <2>1. Sum({}) = 0 BY SumEmpty
  <2>2. Good({}) BY <2>1
  <2> QED BY <2>2
<1> DEFINE y == First(T)
<1>4. y \in T /\ f[y] \in Nat BY <1>3, FirstIn
<1>5. Sum(T) = f[y] + Sum(T \ {y})
  <2>1. IsFiniteSet(T) BY FS_Subset
  <2> QED BY <2>1, <1>3, SumFirst
<1>6. Good(T \ {y}) BY <1>2, <1>4
<1>7. Sum(T) \in Nat BY <1>4, <1>5, <1>6
<1>8. ASSUME NEW x \in T PROVE Sum(T) = f[x] + Sum(T \ {x})
  <2>1. CASE x = y BY <2>1, <1>5
  <2>2. CASE x # y
    <3>1. Good(T \ {x}) BY <1>2
    <3>2. Sum(T \ {y}) = f[x] + Sum((T \ {y}) \ {x}) BY <2>2, <1>6
    <3>3. Sum(T \ {x}) = f[y] + Sum((T \ {x}) \ {y}) BY <2>2, <3>1, <1>4
    <3> DEFINE R == (T \ {x}) \ {y}
    <3>4. (T \ {y}) \ {x} = R OBVIOUS
    <3>5. Good(R) BY <1>2
    <3>6. f[x] \in Nat /\ Sum(R) \in Nat BY <3>5
    <3>7. Sum(T \ {y}) = f[x] + Sum(R) BY <3>2, <3>4
    <3>8. Sum(T \ {x}) = f[y] + Sum(R) BY <3>3
    <3> HIDE DEF Sum, y, R
    <3>9. Sum(T) = f[x] + (f[y] + Sum(R)) BY <3>6, <3>7, <1>4, <1>5
    <3> QED BY <3>8, <3>9
  <2> QED BY <2>1, <2>2
<1> QED BY <1>7, <1>8

LEMMA SumNat ==
  ASSUME NEW D, NEW f \in [D -> Nat], NEW A, A \subseteq D, IsFiniteSet(A)
  PROVE  SumFunctionOnSet(f, A) \in Nat
BY SumTake

\* A sum grows with its terms; equal terms give equal sums.
LEMMA SumMonotonic ==
  ASSUME NEW D, NEW f \in [D -> Nat], NEW g \in [D -> Nat], NEW A, A \subseteq D, IsFiniteSet(A),
         \A x \in A : g[x] <= f[x]
  PROVE  SumFunctionOnSet(g, A) <= SumFunctionOnSet(f, A)
<1> DEFINE C == {S \in SUBSET A : ~(SumFunctionOnSet(g, S) <= SumFunctionOnSet(f, S))}
<1> SUFFICES ASSUME C # {} PROVE FALSE OBVIOUS
<1>1. PICK T \in C : \A S \in C : ~(S \subseteq T /\ S # T)
  <2>1. C \subseteq SUBSET A OBVIOUS
  <2> HIDE DEF C
  <2> QED BY <2>1, SmallestSubset
<1>2. T # {} BY SumEmpty
<1>3. PICK x \in T : TRUE BY <1>2
<1>4. IsFiniteSet(T) /\ T \subseteq D /\ IsFiniteSet(T \ {x}) /\ T \ {x} \subseteq D BY FS_Subset
<1>5. /\ SumFunctionOnSet(f, T) = f[x] + SumFunctionOnSet(f, T \ {x})
      /\ SumFunctionOnSet(g, T) = g[x] + SumFunctionOnSet(g, T \ {x})
  BY <1>4, SumTake
<1>6. SumFunctionOnSet(f, T \ {x}) \in Nat /\ SumFunctionOnSet(g, T \ {x}) \in Nat
  BY <1>4, SumNat
<1>7. SumFunctionOnSet(g, T \ {x}) <= SumFunctionOnSet(f, T \ {x}) BY <1>1
<1>8. g[x] <= f[x] /\ f[x] \in Nat /\ g[x] \in Nat BY <1>4
<1>9. SumFunctionOnSet(g, T) <= SumFunctionOnSet(f, T) BY <1>5, <1>6, <1>7, <1>8
<1> QED BY <1>9

LEMMA SumSame ==
  ASSUME NEW D, NEW f \in [D -> Nat], NEW g \in [D -> Nat], NEW A, A \subseteq D, IsFiniteSet(A),
         \A x \in A : g[x] = f[x]
  PROVE  SumFunctionOnSet(g, A) = SumFunctionOnSet(f, A)
<1>1. \A x \in A : f[x] \in Nat /\ g[x] \in Nat /\ g[x] <= f[x] /\ f[x] <= g[x] OBVIOUS
<1>2. SumFunctionOnSet(g, A) <= SumFunctionOnSet(f, A) BY <1>1, SumMonotonic
<1>3. SumFunctionOnSet(f, A) <= SumFunctionOnSet(g, A) BY <1>1, SumMonotonic
<1> QED BY <1>2, <1>3, SumNat

\* A sum of zeros.
LEMMA SumZero ==
  ASSUME NEW D, NEW f \in [D -> Nat], NEW A, A \subseteq D, IsFiniteSet(A), \A x \in A : f[x] = 0
  PROVE  SumFunctionOnSet(f, A) = 0
<1> DEFINE C == {T \in SUBSET A : SumFunctionOnSet(f, T) # 0}
<1>1. C = {}
  <2> SUFFICES ASSUME C # {} PROVE FALSE OBVIOUS
  <2>1. PICK T \in C : \A U \in C : ~(U \subseteq T /\ U # T)
    <3>1. C \subseteq SUBSET A OBVIOUS
    <3> HIDE DEF C
    <3> QED BY <3>1, SmallestSubset
  <2>2. T # {} BY SumEmpty
  <2>3. PICK x \in T : TRUE BY <2>2
  <2>4. T \subseteq D /\ IsFiniteSet(T) BY FS_Subset
  <2>5. SumFunctionOnSet(f, T) = f[x] + SumFunctionOnSet(f, T \ {x}) BY <2>4, SumTake
  <2>6. SumFunctionOnSet(f, T \ {x}) = 0 BY <2>1
  <2> QED BY <2>5, <2>6
<1> QED BY <1>1


\* The sum over a smaller set is smaller.
LEMMA SumSubset ==
  ASSUME NEW D, NEW f \in [D -> Nat], NEW A, A \subseteq D, IsFiniteSet(A), NEW x
  PROVE  /\ x \in A => SumFunctionOnSet(f, A) = f[x] + SumFunctionOnSet(f, A \ {x})
         /\ x \notin A => SumFunctionOnSet(f, A) = SumFunctionOnSet(f, A \ {x})
<1>1. x \notin A => A \ {x} = A OBVIOUS
<1> QED BY <1>1, SumTake

\* How the sum changes when the terms other than that of x do not grow.
LEMMA SumStep ==
  ASSUME NEW D, NEW f \in [D -> Nat], NEW g \in [D -> Nat], NEW A, A \subseteq D, IsFiniteSet(A),
         NEW x \in D, \A y \in A \ {x} : g[y] <= f[y]
  PROVE  /\ x \in A => SumFunctionOnSet(g, A) <= SumFunctionOnSet(f, A) + g[x] - f[x]
         /\ x \notin A => SumFunctionOnSet(g, A) <= SumFunctionOnSet(f, A)
<1>1. IsFiniteSet(A \ {x}) /\ A \ {x} \subseteq D BY FS_RemoveElement
<1>2. SumFunctionOnSet(g, A \ {x}) <= SumFunctionOnSet(f, A \ {x}) BY <1>1, SumMonotonic
<1>3. SumFunctionOnSet(g, A \ {x}) \in Nat /\ SumFunctionOnSet(f, A \ {x}) \in Nat BY <1>1, SumNat
<1>4. f[x] \in Nat /\ g[x] \in Nat OBVIOUS
<1>5. CASE x \in A
  <2>1. /\ SumFunctionOnSet(f, A) = f[x] + SumFunctionOnSet(f, A \ {x})
        /\ SumFunctionOnSet(g, A) = g[x] + SumFunctionOnSet(g, A \ {x})
    BY <1>5, SumTake
  <2> QED BY <2>1, <1>2, <1>3, <1>4, <1>5
<1>6. CASE x \notin A
  <2>1. A \ {x} = A BY <1>6
  <2> QED BY <2>1, <1>2, <1>6
<1> QED BY <1>5, <1>6

-----------------------------------------------------------------------------
(* Minima and counts. *)

\* The least of finitely many integers.
LEMMA MinOf ==
  ASSUME NEW S, S \subseteq Int, IsFiniteSet(S), S # {}
  PROVE  Min(S) \in S /\ \A y \in S : Min(S) <= y
<1> DEFINE Least(T, x) == x \in T /\ \A y \in T : x <= y
           C == {T \in SUBSET S : T # {} /\ ~\E x \in T : Least(T, x)}
<1>1. C = {}
  <2> SUFFICES ASSUME C # {} PROVE FALSE OBVIOUS
  <2>1. PICK T \in C : \A U \in C : ~(U \subseteq T /\ U # T)
    <3>1. C \subseteq SUBSET S OBVIOUS
    <3>2. C # {} /\ IsFiniteSet(S) OBVIOUS
    <3> HIDE DEF C, Least
    <3> QED BY ONLY <3>1, <3>2, SmallestSubset
  <2>2. PICK x \in T : TRUE OBVIOUS
  <2>3. CASE T = {x}
    <3>1. Least(T, x) BY <2>3
    <3> QED BY <3>1
  <2>4. CASE T # {x}
    <3>1. T \ {x} # {} /\ T \ {x} \subseteq T /\ T \ {x} # T BY <2>4
    <3>2. PICK m \in T \ {x} : Least(T \ {x}, m) BY <3>1, <2>1
    <3>3. m \in Int /\ x \in Int OBVIOUS
    <3>4. CASE m <= x
      <4>1. Least(T, m) BY <3>2, <3>4
      <4> QED BY <4>1
    <3>5. CASE x <= m
      <4>1. Least(T, x) BY <3>2, <3>3, <3>5
      <4> QED BY <4>1
    <3> QED BY <3>3, <3>4, <3>5
  <2> QED BY <2>3, <2>4
<1>2. \E x \in S : \A y \in S : x <= y BY <1>1
<1> QED BY <1>2 DEF Min

LEMMA AttemptsFinite == IsFiniteSet(Attempt)
BY BoundsAssumption, FS_Interval DEF Attempt

LEMMA SegmentsFinite == IsFiniteSet(SegmentId)
<1> DEFINE T == Task \X (Attempt \X (1..MaxSegment))
           f == [s \in SegmentId |-> <<s[1], <<s[2], s[3]>>>>]
<1>1. IsFiniteSet(Task) /\ IsFiniteSet(1..MaxSegment) BY PlanAssumption, BoundsAssumption, FS_Interval
<1>2. IsFiniteSet(Attempt \X (1..MaxSegment)) BY <1>1, AttemptsFinite, FS_Product
<1>3. IsFiniteSet(T) BY <1>1, <1>2, FS_Product
<1>4. f \in Injection(SegmentId, T)
  <2>1. f \in [SegmentId -> T] BY DEF SegmentId
  <2>2. ASSUME NEW r \in SegmentId, NEW s \in SegmentId, f[r] = f[s] PROVE r = s
    <3>1. r[1] = s[1] /\ r[2] = s[2] /\ r[3] = s[3] BY <2>2
    <3> QED BY <3>1 DEF SegmentId
  <2> QED BY <2>1, <2>2 DEF Injection, IsInjective
<1> QED BY <1>3, <1>4, FS_Injection

\* The ledger: what each segment is charged, what each task is promised, the
\* attempts each task has used.
Cost(sg)  == [s \in SegmentId |-> Charge(sg[s])]
Promised  == [u \in Task |-> binding[u].ms]
UsedUp    == [u \in Task |-> AttemptsOf(u)]

LEMMA ChargeType == ASSUME NEW r \in SegmentRecord PROVE Charge(r) \in Nat
BY DEF Charge, SegmentRecord

LEMMA CostType ==
  ASSUME NEW sg \in [SegmentId -> SegmentRecord] PROVE Cost(sg) \in [SegmentId -> Nat]
<1>1. \A s \in SegmentId : Charge(sg[s]) \in Nat BY ChargeType
<1> QED BY <1>1 DEF Cost

LEMMA PromisedType == ASSUME TypeOK PROVE Promised \in [Task -> Nat]
BY DEF TypeOK, Binding, Promised

LEMMA AttemptsOfType ==
  ASSUME NEW t PROVE /\ AttemptsOf(t) \in Nat
                     /\ IsFiniteSet({a \in Attempt : attempt[t][a] # "none"})
<1>1. IsFiniteSet({a \in Attempt : attempt[t][a] # "none"}) BY AttemptsFinite, FS_Subset
<1> QED BY <1>1, FS_CardinalityType DEF AttemptsOf

LEMMA UsedUpType == UsedUp \in [Task -> Nat]
BY AttemptsOfType DEF UsedUp

\* What the operators of the budget sum over.
LEMMA SiblingsFinite == ASSUME NEW t PROVE Siblings(t) \subseteq Task /\ IsFiniteSet(Siblings(t))
BY PlanAssumption, FS_Subset DEF Siblings

LEMMA ChargedIs ==
  ASSUME NEW sg, NEW S
  PROVE  Charged(sg, S) = SumFunctionOnSet(Cost(sg), S)
BY DEF Charged, Cost

LEMMA ChargedType ==
  ASSUME NEW sg \in [SegmentId -> SegmentRecord], NEW S, S \subseteq SegmentId
  PROVE  Charged(sg, S) \in Nat
BY CostType, SegmentsFinite, FS_Subset, SumNat, ChargedIs

LEMMA HoldsIs ==
  ASSUME NEW S, NEW own
  PROVE  pendingActiveHolds(S, own) = SumFunctionOnSet(Promised, S \ own)
BY DEF pendingActiveHolds, Promised

LEMMA HoldsType ==
  ASSUME TypeOK, NEW S, S \subseteq Task, NEW own PROVE pendingActiveHolds(S, own) \in Nat
<1>1. S \ own \subseteq Task /\ IsFiniteSet(S \ own) BY PlanAssumption, FS_Subset
<1> QED BY <1>1, PromisedType, SumNat, HoldsIs

\* The three charges of a task.
LEMMA ChargesType ==
  ASSUME NEW sg \in [SegmentId -> SegmentRecord], NEW t, NEW a
  PROVE  /\ GroupCharge(sg, t) \in Nat /\ chargedTaskActiveMS(sg, t) \in Nat
         /\ attemptChargedActiveMS(sg, t, a) \in Nat
BY ChargedType DEF GroupCharge, chargedTaskActiveMS, attemptChargedActiveMS

-----------------------------------------------------------------------------
(* What a claim or a promise may take. *)

\* The allowance is within every limit, and the largest number that is.
LEMMA AllowanceIs ==
  ASSUME TypeOK, NEW sg \in [SegmentId -> SegmentRecord], NEW t \in Task,
         NEW ran, ran = {} \/ \E a : ran = {a}, NEW own
  PROVE  /\ Allowance(sg, t, ran, own) \in Int
         /\ Allowance(sg, t, ran, own) <= SegmentMS[t]
         /\ Allowance(sg, t, ran, own) <= AttemptMS[t]
         /\ Allowance(sg, t, ran, own)
              <= GroupMS[t] - GroupCharge(sg, t) - pendingActiveHolds(Siblings(t), own)
         /\ t \in Policy => Allowance(sg, t, ran, own)
              <= TaskMS[t] - chargedTaskActiveMS(sg, t) - pendingActiveHolds({t}, own)
         /\ \A a \in ran : Allowance(sg, t, ran, own)
              <= AttemptMS[t] - attemptChargedActiveMS(sg, t, a)
         /\ \A n \in Int :
              /\ n <= SegmentMS[t] /\ n <= AttemptMS[t] /\ ran = {}
              /\ n <= GroupMS[t] - GroupCharge(sg, t) - pendingActiveHolds(Siblings(t), own)
              /\ t \in Policy =>
                   n <= TaskMS[t] - chargedTaskActiveMS(sg, t) - pendingActiveHolds({t}, own)
              => n <= Allowance(sg, t, ran, own)
<1> DEFINE G  == GroupMS[t] - GroupCharge(sg, t) - pendingActiveHolds(Siblings(t), own)
           P(u) == TaskMS[u] - chargedTaskActiveMS(sg, u) - pendingActiveHolds({u}, own)
           R(a) == AttemptMS[t] - attemptChargedActiveMS(sg, t, a)
           Base == {SegmentMS[t], AttemptMS[t], G}
           Tasks == {P(u) : u \in {t} \cap Policy}
           Runs_ == {R(a) : a \in ran}
           All_  == Base \cup Tasks \cup Runs_
<1>1. SegmentMS[t] \in Int /\ AttemptMS[t] \in Int /\ GroupMS[t] \in Int /\ TaskMS[t] \in Int
  BY BudgetAssumption
<1>2. G \in Int
  <2>1. GroupCharge(sg, t) \in Nat BY ChargesType
  <2>2. pendingActiveHolds(Siblings(t), own) \in Nat BY SiblingsFinite, HoldsType
  <2> QED BY <1>1, <2>1, <2>2
<1>3. P(t) \in Int
  <2>1. chargedTaskActiveMS(sg, t) \in Nat BY ChargesType
  <2>2. pendingActiveHolds({t}, own) \in Nat BY HoldsType
  <2> QED BY <1>1, <2>1, <2>2
<1>4. \A a \in ran : R(a) \in Int
  <2>1. \A a : attemptChargedActiveMS(sg, t, a) \in Nat BY ChargesType
  <2> QED BY <1>1, <2>1
<1>5. Allowance(sg, t, ran, own) = Min(All_) BY DEF Allowance
<1> HIDE DEF G, P, R
<1>6. All_ \subseteq Int /\ All_ # {} BY <1>1, <1>2, <1>3, <1>4
<1>7. IsFiniteSet(All_)
  <2>1. IsFiniteSet(Base)
    <3>1. Base = {SegmentMS[t]} \cup {AttemptMS[t]} \cup {G} OBVIOUS
    <3>2. \A x : IsFiniteSet({x}) BY FS_Singleton
    <3>3. IsFiniteSet({SegmentMS[t]} \cup {AttemptMS[t]}) BY <3>2, FS_Union
    <3>4. IsFiniteSet({SegmentMS[t]} \cup {AttemptMS[t]} \cup {G}) BY <3>2, <3>3, FS_Union
    <3> HIDE DEF Base
    <3> QED BY <3>1, <3>4
  <2>2. IsFiniteSet(Tasks)
    <3>1. Tasks \subseteq {P(t)} OBVIOUS
    <3> QED BY <3>1, FS_Singleton, FS_Subset
  <2>3. IsFiniteSet(Runs_)
    <3>1. CASE ran = {} BY <3>1, FS_EmptySet
    <3>2. CASE \E a : ran = {a}
      <4>1. PICK a : ran = {a} BY <3>2
      <4>2. Runs_ = {R(a)} BY <4>1
      <4> QED BY <4>2, FS_Singleton
    <3> QED BY <3>1, <3>2
  <2>4. IsFiniteSet(Base \cup Tasks) BY <2>1, <2>2, FS_Union
  <2> QED BY <2>3, <2>4, FS_Union
<1>8. Min(All_) \in All_ /\ \A y \in All_ : Min(All_) <= y
  <2> HIDE DEF All_
  <2> QED BY <1>6, <1>7, MinOf
<1>9. /\ SegmentMS[t] \in All_ /\ AttemptMS[t] \in All_ /\ G \in All_
      /\ t \in Policy => P(t) \in All_
      /\ \A a \in ran : R(a) \in All_
  OBVIOUS
<1>10. ran = {} => Min(All_) \in {SegmentMS[t], AttemptMS[t], G} \/ (t \in Policy /\ Min(All_) = P(t))
  BY <1>8
<1>11. Min(All_) \in Int
  <2> HIDE DEF All_
  <2> QED BY <1>6, <1>8
<1> HIDE DEF All_
<1>12. \A n \in Int : n <= SegmentMS[t] /\ n <= AttemptMS[t] /\ ran = {} /\ n <= G
                      /\ (t \in Policy => n <= P(t)) => n <= Min(All_)
  BY <1>10
<1>13. /\ Min(All_) <= SegmentMS[t] /\ Min(All_) <= AttemptMS[t] /\ Min(All_) <= G
       /\ t \in Policy => Min(All_) <= P(t)
       /\ \A a \in ran : Min(All_) <= R(a)
  BY <1>8, <1>9
<1> QED BY <1>5, <1>11, <1>12, <1>13 DEF G, P, R

-----------------------------------------------------------------------------
(* The invariant. *)

\* The attempts of a task are numbered without a hole.
Contiguous ==
  \A t \in Task, a \in Attempt : attempt[t][a] # "none" =>
    \A b \in Attempt : b < a => attempt[t][b] # "none"

\* Only a ready task has a promise: the next attempt and, with a policy, time
\* that one segment may take.
Standing(t) ==
  /\ ~binding[t].pending => binding[t] = NoBinding
  /\ binding[t].pending =>
       /\ status[t] = "ready" /\ nextTaskAttemptOrdinal(t, binding[t].promise)
       /\ binding[t].promise \in Nat \ {0}
       /\ t \in Policy => binding[t].ms \in 1..SegmentMS[t] /\ binding[t].ms <= AttemptMS[t]
       /\ t \notin Policy => binding[t].ms = 0
PromiseShape == \A t \in Task : Standing(t)

\* A segment that was never launched costs nothing.
Fresh == \A s \in SegmentId : seg[s].status = "none" => seg[s].granted = 0

\* The pending promises of the group of t that count as attempts.
Holding(t) == {u \in Siblings(t) : u \in Policy /\ binding[u].pending}

GroupTimeKept == \A t \in Task :
  GroupCharge(seg, t) + pendingActiveHolds(Siblings(t), {}) <= GroupMS[t]
GroupAttemptsKept == \A t \in Task :
  GroupAttemptsOf(t) + Cardinality(Holding(t)) <= GroupAttempts[t]
TaskTimeKept == \A t \in Policy :
  chargedTaskActiveMS(seg, t) + pendingActiveHolds({t}, {}) <= TaskMS[t]
TaskAttemptsKept == \A t \in Policy :
  AttemptsOf(t) + Cardinality(Holding(t) \cap {t}) <= TaskAttempts[t]
AttemptTimeKept == \A t \in Task, a \in Attempt :
  attemptChargedActiveMS(seg, t, a) <= AttemptMS[t]

Shape == Contiguous /\ PromiseShape /\ Fresh
Kept  == GroupTimeKept /\ GroupAttemptsKept /\ TaskTimeKept /\ TaskAttemptsKept /\ AttemptTimeKept
BudgetInv == CoreInv /\ Shape /\ Kept /\ CapsRespected

LEMMA SiblingsAgree ==
  ASSUME NEW t \in Task, NEW u \in Siblings(t)
  PROVE  /\ u \in Task /\ Siblings(u) = Siblings(t)
         /\ GroupMS[u] = GroupMS[t] /\ GroupAttempts[u] = GroupAttempts[t]
         /\ u \in Policy <=> t \in Policy
BY GroupAssumption DEF Siblings

LEMMA HoldingFinite ==
  ASSUME NEW t, NEW own
  PROVE  IsFiniteSet(Holding(t) \ own) /\ Cardinality(Holding(t) \ own) \in Nat
<1>1. Holding(t) \ own \subseteq Siblings(t) BY DEF Holding
<1>2. IsFiniteSet(Holding(t) \ own) BY <1>1, SiblingsFinite, FS_Subset
<1> QED BY <1>2, FS_CardinalityType

LEMMA GroupAttemptsType == ASSUME NEW t PROVE GroupAttemptsOf(t) \in Nat
<1>1. GroupAttemptsOf(t) = SumFunctionOnSet(UsedUp, Siblings(t)) BY DEF GroupAttemptsOf, UsedUp
<1> QED BY <1>1, SiblingsFinite, UsedUpType, SumNat

\* The capacity check counts the attempts the group has used and promised.
LEMMA CapacityIs ==
  ASSUME TypeOK, PromiseShape, NEW t \in Task, NEW own
  PROVE  executionCapacity(t, own) <=>
           /\ GroupAttemptsOf(t) + Cardinality(Holding(t) \ own) < GroupAttempts[t]
           /\ t \in Policy =>
                AttemptsOf(t) + Cardinality((Holding(t) \ own) \cap {t}) < TaskAttempts[t]
<1> DEFINE held == {u \in Siblings(t) \ own :
                      binding[u].pending /\ (binding[u].ms > 0 \/ t \in Policy)}
<1>1. ASSUME NEW u \in Siblings(t), binding[u].pending
      PROVE  (binding[u].ms > 0 \/ t \in Policy) <=> u \in Policy
  <2>1. u \in Task /\ (u \in Policy <=> t \in Policy) BY SiblingsAgree
  <2>2. CASE u \in Policy BY <2>1, <2>2
  <2>3. CASE u \notin Policy
    <3>1. binding[u].ms = 0 BY <1>1, <2>1, <2>3 DEF PromiseShape, Standing
    <3> QED BY <2>1, <2>3, <3>1
  <2> QED BY <2>2, <2>3
<1>2. held = Holding(t) \ own BY <1>1 DEF Holding
<1>3. executionCapacity(t, own) <=>
        /\ GroupAttemptsOf(t) + Cardinality(held) < GroupAttempts[t]
        /\ t \in Policy => AttemptsOf(t) + Cardinality(held \cap {t}) < TaskAttempts[t]
  BY DEF executionCapacity
<1> QED BY <1>2, <1>3

\* Without promises of others to leave out.
LEMMA NothingLeftOut ==
  ASSUME NEW S PROVE pendingActiveHolds(S, {}) = SumFunctionOnSet(Promised, S)
<1>1. S \ {} = S OBVIOUS
<1> QED BY <1>1, HoldsIs

-----------------------------------------------------------------------------
(* What a step does to the ledger. *)

\* No segment outside X costs more than before, and none of them starts.
CostsFall(X) ==
  \A s \in SegmentId \ X : Charge(seg'[s]) <= Charge(seg[s]) /\ (Act(s)' => Act(s))
\* No attempt comes to exist.
Recorded == \A u \in Task, b \in Attempt : attempt'[u][b] = "none" <=> attempt[u][b] = "none"
\* A promise is dropped or stands, and a task without one gets none.
Keeps(u) ==
  \/ binding'[u] = NoBinding
  \/ /\ binding'[u].pending = binding[u].pending
     /\ binding'[u].ms = binding[u].ms /\ binding'[u].promise = binding[u].promise
     /\ binding[u].pending => status'[u] = status[u]
     /\ ~binding[u].pending => binding'[u] = binding[u]

\* Nothing is taken from the budget.
Falls == CostsFall({}) /\ Recorded /\ \A u \in Task : Keeps(u)

\* Task t is promised the attempt after a, and ms of active time.
Promising(t, a, ms) ==
  /\ CostsFall({}) /\ Recorded /\ \A u \in Task \ {t} : Keeps(u)
  /\ ~binding[t].pending /\ executionCapacity(t, {}) /\ LatestAttempt(t, a)
  /\ status'[t] = "ready" /\ binding'[t].pending
  /\ binding'[t].promise = a + 1 /\ binding'[t].ms = ms
  /\ t \in Policy => ms \in Grants(t) /\ ms = executionGrant(seg', t, {})
  /\ t \notin Policy => ms = 0

\* Segment <<t, a, n>> starts with ms of active time.
Starts(t, a, n, ms) ==
  /\ Launch(<<t, a, n>>, ms) /\ ms \in Grants(t)
  /\ attempt' = [attempt EXCEPT ![t][a] = "running"]
  /\ \A u \in Task \ {t} : Keeps(u)
  /\ Cardinality(ActiveSegments) < Slots /\ ~Deferred(t)
\* A new attempt takes its promise or its allowance, a resumed one its allowance.
StartsAttempt(t, a, ms) ==
  /\ Starts(t, a, 1, ms) /\ binding'[t] = NoBinding
  /\ status[t] = "ready" /\ ~AtAttemptLimit(t)
  /\ nextTaskAttemptOrdinal(t, a) /\ ms = executionGrantForBinding(t, {})
StartsResumed(t, a, n, ms) ==
  /\ Starts(t, a, n, ms) /\ Keeps(t) /\ ~binding[t].pending /\ Own(t) = {}
  /\ LatestAttempt(t, a) /\ NextSegment(t, a, n) /\ ms = executionGrantForBinding(t, {a})

\* No progress of a segment makes it cost more.
LEMMA ProgressFalls ==
  ASSUME SegmentInv, NEW s \in SegmentId, Progress(s)
  PROVE  Charge(seg'[s]) <= Charge(seg[s]) /\ (Act(s)' => Act(s))
<1> DEFINE r == seg[s]
<1>0. r \in SegmentRecord /\ Sound(r) BY DEF SegmentInv, TypeOK
<1>01. r.granted \in Nat /\ r.used \in Nat /\ r.used <= r.granted BY <1>0 DEF SegmentRecord, Sound
<1>02. Charge(r) \in Nat BY <1>0, ChargeType
<1>1. CASE seg'[s] = r BY <1>1, <1>02 DEF Act
<1>2. CASE r.status \in ActiveStatus /\ \E k \in ActiveStatus : seg'[s] = Phase(r, k)
  <2>1. PICK k : seg'[s] = Phase(r, k) BY <1>2
  <2>2. Charge(Phase(r, k)) = Charge(r) BY <1>0 DEF Charge, Phase, SegmentRecord
  <2> QED BY <1>2, <2>1, <2>2, <1>02 DEF Act
<1>3. CASE r.status \in ActiveStatus /\ r.outcome = "" /\ seg'[s] = Asked(r)
  <2>1. Charge(Asked(r)) = Charge(r) BY <1>0 DEF Charge, Asked, SegmentRecord
  <2>2. Charge(seg'[s]) = Charge(r) BY <1>3, <2>1
  <2>3. Act(s) BY <1>3 DEF Act
  <2> QED BY <2>2, <2>3, <1>02
<1>4. CASE \E k \in OutcomeKind : seg'[s] = Reported(r, k)
  <2>1. PICK k : seg'[s] = Reported(r, k) BY <1>4
  <2>2. Charge(Reported(r, k)) = Charge(r) BY <1>0 DEF Charge, Reported, SegmentRecord
  <2>3. Reported(r, k).status = r.status BY <1>0 DEF Reported, SegmentRecord
  <2> QED BY <2>1, <2>2, <2>3, <1>02 DEF Act
<1>5. CASE r.status \in ActiveStatus /\ \E ms \in Nat : seg'[s] = Exited(r, ms)
  <2>1. PICK ms \in Nat : seg'[s] = Exited(r, ms) BY <1>5
  <2>2. Charge(Exited(r, ms)) = UsedMS(ms, r.granted) BY <1>0 DEF Charge, Exited, SegmentRecord
  <2>3. UsedMS(ms, r.granted) <= r.granted BY <1>01 DEF UsedMS
  <2>4. Charge(r) = r.granted
    <3>1. r.budget = "reserved" BY <1>0, <1>5 DEF Sound
    <3> QED BY <3>1 DEF Charge
  <2> QED BY <1>5, <2>1, <2>2, <2>3, <2>4 DEF Act
<1>6. CASE r.status \in ActiveStatus /\ seg'[s] = NotStarted(r)
  <2>1. Charge(NotStarted(r)) = 0 BY <1>0 DEF Charge, NotStarted, SegmentRecord
  <2> QED BY <1>6, <2>1, <1>02 DEF Act
<1>7. CASE r.status \in ActiveStatus /\ seg'[s] = StopRequested(r)
  <2>1. Charge(StopRequested(r)) = Charge(r) BY <1>0 DEF Charge, StopRequested, SegmentRecord
  <2> QED BY <1>7, <2>1, <1>02 DEF Act
<1>8. CASE seg'[s] = Lost(r)
  <2>1. Charge(Lost(r)) = Charge(r) BY <1>0 DEF Charge, Lost, SegmentRecord
  <2>2. Lost(r).status \in ActiveStatus => r.status \in ActiveStatus
    BY <1>0 DEF Lost, SegmentRecord, ActiveStatus
  <2> QED BY <1>8, <2>1, <2>2, <1>02 DEF Act
<1> QED BY <1>1, <1>2, <1>3, <1>4, <1>5, <1>6, <1>7, <1>8 DEF Progress

\* Steps that only let the segments progress let their cost fall.
LEMMA ProgressCosts ==
  ASSUME SegmentInv, \A s \in SegmentId : Progress(s) PROVE CostsFall({})
BY ProgressFalls DEF CostsFall

LEMMA SameCosts == ASSUME SegmentInv, UNCHANGED seg PROVE CostsFall({})
BY ProgressFalls DEF CostsFall, Progress

\* A new task table keeps the promises if it moves no ready task but to block it.
LEMMA RescheduleKeeps ==
  ASSUME TypeOK, PromiseShape, NEW STATE ts, NEW STATE entering, NEW STATE bnd,
         bnd \in [Task -> Binding], ts \in [Task -> TaskStatus], Reschedule(ts, entering, bnd),
         NEW u \in Task, bnd[u] = binding[u] \/ bnd[u] = NoBinding,
         ts[u] = status[u] \/ ts[u] = "blocked_dependency" \/ status[u] # "ready"
  PROVE  Keeps(u)
<1>1. status' = ts /\ binding'[u] = IF ts[u] = "blocked_dependency" THEN NoBinding ELSE bnd[u]
  BY DEF Reschedule, Retire
<1>2. binding[u].pending => status[u] = "ready" BY DEF PromiseShape, Standing
<1> QED BY <1>1, <1>2 DEF Keeps

LEMMA UnchangedKeeps == ASSUME UNCHANGED taskVars, NEW u \in Task PROVE Keeps(u)
BY DEF taskVars, Keeps

\* Moving one task that is not ready, and blocking or releasing others.
LEMMA MoveKeeps ==
  ASSUME TypeOK, PromiseShape, NEW t \in Task, NEW STATE st, st \in TaskStatus,
         NEW STATE ts, ts = [status EXCEPT ![t] = st],
         NEW STATE entering, NEW STATE bnd, bnd \in [Task -> Binding],
         \/ Reschedule(ts, entering, bnd)
         \/ \E terminal : Reschedule(blockFailedDependencies(ts, terminal), entering, bnd)
         \/ Reschedule(Promoted(ts), entering, bnd),
         NEW u \in Task, bnd[u] = binding[u] \/ bnd[u] = NoBinding,
         u = t => status[t] # "ready"
  PROVE  Keeps(u)
<1>1. ts \in [Task -> TaskStatus] BY DEF TypeOK
<1>2. ts[u] = status[u] \/ status[u] # "ready" BY DEF TypeOK
<1>3. CASE Reschedule(ts, entering, bnd) BY <1>1, <1>2, <1>3, RescheduleKeeps
<1>4. CASE \E terminal : Reschedule(blockFailedDependencies(ts, terminal), entering, bnd)
  <2>1. PICK terminal : Reschedule(blockFailedDependencies(ts, terminal), entering, bnd) BY <1>4
  <2> DEFINE bs == blockFailedDependencies(ts, terminal)
  <2>2. bs \in [Task -> TaskStatus] BY <1>1, BlockType
  <2>3. bs[u] = ts[u] \/ bs[u] = "blocked_dependency" BY <1>1, BlockRipples
  <2> QED BY <1>2, <2>1, <2>2, <2>3, RescheduleKeeps
<1>5. CASE Reschedule(Promoted(ts), entering, bnd)
  <2>1. Promoted(ts) \in [Task -> TaskStatus] BY <1>1, ReleaseType
  <2>2. Promoted(ts)[u] = ts[u] \/ (ts[u] = "queued" /\ Promoted(ts)[u] = "ready")
    BY <1>1, ReleaseRipples
  <2>3. Promoted(ts)[u] = status[u] \/ status[u] # "ready" BY <1>2, <2>2
  <2> QED BY <1>5, <2>1, <2>3, RescheduleKeeps
<1> QED BY <1>3, <1>4, <1>5

\* A claim starts one segment.
LEMMA ClaimStarts ==
  ASSUME SegmentInv, PromiseShape, NEW h \in Host, NEW t \in Task, ClaimReady(h, t)
  PROVE  \E a \in Attempt, n \in 1..MaxSegment, ms \in Grants(t) :
           StartsAttempt(t, a, ms) \/ StartsResumed(t, a, n, ms)
<1> USE DEF SegmentInv
<1>1. PICK a \in Attempt : ClaimAttempt(h, t, a) \/ ClaimResume(h, t, a) BY DEF ClaimReady
<1>2. /\ Cardinality(ActiveSegments) < Slots /\ ~Deferred(t) /\ ~AtAttemptLimit(t)
  BY DEF ClaimReady, selectReady, Admissible
<1>3. attempt' = [attempt EXCEPT ![t][a] = "running"] BY <1>1 DEF ClaimAttempt, ClaimResume
<1>4. 1 \in 1..MaxSegment BY BoundsAssumption
<1>5. "running" \in TaskStatus BY DEF TaskStatus
<1>6. CASE ClaimAttempt(h, t, a)
  <2>1. PICK ms \in Grants(t) : ms = executionGrantForBinding(t, {}) /\ Launch(<<t, a, 1>>, ms)
    BY <1>6 DEF ClaimAttempt
  <2>2. nextTaskAttemptOrdinal(t, a)
    <3>1. PICK b \in Attempt : nextTaskAttemptOrdinal(t, b)
                               /\ (a = IF binding[t].promise > 0 THEN binding[t].promise ELSE b)
      BY <1>6 DEF ClaimAttempt
    <3>2. CASE binding[t].pending
      <4>1. nextTaskAttemptOrdinal(t, binding[t].promise) /\ binding[t].promise \in Nat \ {0}
        BY <3>2 DEF PromiseShape, Standing
      <4> QED BY <3>1, <4>1
    <3>3. CASE ~binding[t].pending
      <4>1. binding[t].promise = 0 BY <3>3 DEF PromiseShape, Standing, NoBinding
      <4> QED BY <3>1, <4>1
    <3> QED BY <3>2, <3>3
  <2> DEFINE ts == [status EXCEPT ![t] = "running"]
             bnd == [binding EXCEPT ![t] = NoBinding]
  <2>3. Reschedule(ts, {}, bnd) /\ status[t] = "ready" BY <1>6 DEF ClaimAttempt
  <2>4. bnd \in [Task -> Binding] BY DEF TypeOK, Binding, NoBinding
  <2>5. \A u \in Task \ {t} : Keeps(u)
    <3>1. \A u \in Task \ {t} : bnd[u] = binding[u] BY DEF TypeOK
    <3> HIDE DEF bnd
    <3> QED BY <1>5, <2>3, <2>4, <3>1, MoveKeeps
  <2>6. binding'[t] = NoBinding
    <3>1. ts[t] = "running" /\ bnd[t] = NoBinding BY DEF TypeOK
    <3> QED BY <2>3, <3>1 DEF Reschedule, Retire
  <2>7. StartsAttempt(t, a, ms)
    BY <1>2, <1>3, <2>1, <2>2, <2>3, <2>5, <2>6 DEF StartsAttempt, Starts
  <2> QED BY <1>4, <2>7
<1>7. CASE ClaimResume(h, t, a)
  <2>1. PICK n \in 1..MaxSegment, ms \in Grants(t) :
          NextSegment(t, a, n) /\ ms = executionGrantForBinding(t, {a}) /\ Launch(<<t, a, n>>, ms)
    BY <1>7 DEF ClaimResume
  <2>2. status[t] = "resume_queued" /\ LatestAttempt(t, a) /\ SetStatus(t, "running")
    BY <1>7 DEF ClaimResume
  <2>3. \A u \in Task : Keeps(u)
    <3>1. binding \in [Task -> Binding] BY DEF TypeOK
    <3> QED BY <1>5, <2>2, <3>1, MoveKeeps DEF SetStatus
  <2>4. ~binding[t].pending BY <2>2 DEF PromiseShape, Standing
  <2>5. Own(t) = {} BY <2>2 DEF Own
  <2>6. StartsResumed(t, a, n, ms)
    BY <1>2, <1>3, <2>1, <2>2, <2>3, <2>4, <2>5 DEF StartsResumed, Starts
  <2> QED BY <2>6
<1> QED BY <1>1, <1>6, <1>7

\* The events of a segment that do not end it take nothing.
LEMMA EventFalls ==
  ASSUME CoreInv, PromiseShape, NEW s \in SegmentId, CommitHostEvent(s),
         \/ UNCHANGED <<taskVars, attempt>> \/ CommitUnknown(s)
  PROVE  Falls
<1> USE DEF CoreInv, SegmentInv
<1>1. CostsFall({}) BY HostEventMoves, ProgressCosts
<1>2. CASE UNCHANGED <<taskVars, attempt>> BY <1>1, <1>2, UnchangedKeeps DEF Falls, Recorded
<1>3. CASE CommitUnknown(s)
  <2>1. CASE seg[s].status = "exited"
    BY <1>1, <1>3, <2>1, UnchangedKeeps DEF CommitUnknown, Falls, Recorded
  <2>2. CASE seg[s].status # "exited"
    <3>1. CommitEvent(s, "unknown") /\ ~Historical(s) BY <1>3 DEF CommitUnknown
    <3>2. Act(s) BY <2>2, <3>1, HeadKnown, NotEnded DEF Act
    <3>3. /\ attempt' = [attempt EXCEPT ![s[1]][s[2]] = "unknown"]
          /\ SetStatus(s[1], "unknown")
      BY <1>3, <2>2 DEF CommitUnknown
    <3>4. Recorded BY <3>2, <3>3, ActiveTask, AttemptsSame DEF Recorded
    <3>5. s[1] \in Task /\ status[s[1]] # "ready" BY <3>2, ActiveTask DEF Dispatched
    <3>6. "unknown" \in TaskStatus /\ binding \in [Task -> Binding] BY DEF TaskStatus, TypeOK
    <3>7. \A u \in Task : Keeps(u) BY <3>3, <3>5, <3>6, MoveKeeps DEF SetStatus
    <3> QED BY <1>1, <3>4, <3>7 DEF Falls
  <2> QED BY <2>1, <2>2
<1> QED BY <1>2, <1>3

\* An exit gives back what the segment did not use.
LEMMA ExitFalls ==
  ASSUME CoreInv, PromiseShape, NEW s \in SegmentId, NEW ms \in Nat, NEW match \in BOOLEAN,
         CommitHostEvent(s), CommitExit(s, ms, match)
  PROVE  Falls
<1> USE DEF CoreInv, SegmentInv
<1> DEFINE t  == s[1]
           to == ExitStatus(t, seg[s].outcome, match)
           sg == [seg EXCEPT ![s] = Exited(seg[s], ms)]
           ts == [status EXCEPT ![t] = to[2]]
<1>1. CostsFall({}) BY HostEventMoves, ProgressCosts
<1>2. CommitEvent(s, "exited") /\ ~Historical(s) /\ seg[s].status # "exited" BY DEF CommitExit
<1>3. Act(s) BY <1>2, HeadKnown, NotEnded DEF Act
<1>4. t \in Task /\ status[t] # "ready" BY <1>3, ActiveTask DEF Dispatched
<1>5. to[1] \in AttemptStatus /\ to[2] \in TaskStatus BY ExitStatusType
<1>6. attempt' = [attempt EXCEPT ![t][s[2]] = to[1]] BY DEF CommitExit
<1>7. to[1] # "none" BY DEF ExitStatus
<1>8. Recorded BY <1>3, <1>6, <1>7, ActiveTask, AttemptsSame DEF Recorded
<1>9. \/ Reschedule(Promoted(ts), releaseReady(ts), binding)
      \/ Reschedule(blockFailedDependencies(ts, AllFailed(ts)), {}, binding)
      \/ Reschedule(ts, {}, binding)
  BY DEF CommitExit, SetStatus
<1>10. binding \in [Task -> Binding] BY DEF TypeOK
<1>11. \A u \in Task : Keeps(u)
  <2> HIDE DEF to
  <2> QED BY <1>4, <1>5, <1>9, <1>10, MoveKeeps
<1> QED BY <1>1, <1>8, <1>11 DEF Falls

\* A rejection takes nothing, or promises the next attempt.
LEMMA RejectionTakes ==
  ASSUME CoreInv, PromiseShape, NEW s \in SegmentId, NEW code \in BOOLEAN,
         CommitHostEvent(s), CommitRejection(s, code)
  PROVE  Falls \/ \E ms \in Nat : Promising(s[1], s[2], ms)
<1> USE DEF CoreInv, SegmentInv
<1> DEFINE t  == s[1]
           sg == [seg EXCEPT ![s] = NotStarted(seg[s])]
           ts == [status EXCEPT ![t] = "failed"]
<1>1. CostsFall({}) BY HostEventMoves, ProgressCosts
<1>2. Act(s) BY DEF CommitRejection, RejectionProved, Act, ActiveStatus
<1>3. t \in Task /\ s[2] \in Attempt /\ status[t] # "ready" BY <1>2, ActiveTask DEF Dispatched
<1>4. attempt' = [attempt EXCEPT ![t][s[2]] = "failed"] BY DEF CommitRejection
<1>5. Recorded BY <1>2, <1>4, ActiveTask, AttemptsSame DEF Recorded
<1>6. seg' = sg BY DEF CommitRejection
<1>7. CASE ~AutoRetry(s, sg, code)
  <2>1. Reschedule(blockFailedDependencies(ts, {t}), {}, binding) BY <1>7 DEF CommitRejection
  <2>2. "failed" \in TaskStatus /\ binding \in [Task -> Binding] BY DEF TaskStatus, TypeOK
  <2>3. \A u \in Task : Keeps(u) BY <1>3, <2>1, <2>2, MoveKeeps
  <2> QED BY <1>1, <1>5, <2>3 DEF Falls
<1>8. CASE AutoRetry(s, sg, code)
  <2>1. PICK ms \in Grants(t) :
          /\ ms = executionGrant(sg, t, {})
          /\ Enqueue(t, "ready", [binding EXCEPT ![t] =
               [pending |-> TRUE, ms |-> ms, due |-> FALSE, promise |-> s[2] + 1]])
    BY <1>8 DEF CommitRejection
  <2>2. t \in Policy /\ executionCapacity(t, {}) /\ LatestAttempt(t, s[2]) BY <1>8 DEF AutoRetry
  <2>3. ms \in Nat /\ s[2] + 1 \in Nat BY <1>3, BudgetAssumption DEF Grants, Attempt
  <2> DEFINE new == [pending |-> TRUE, ms |-> ms, due |-> FALSE, promise |-> s[2] + 1]
             bnd == [binding EXCEPT ![t] = new]
             rs  == [status EXCEPT ![t] = "ready"]
  <2>4. bnd \in [Task -> Binding] BY <1>3, <2>3, PromiseType
  <2>5. Reschedule(rs, {t}, bnd) BY <2>1 DEF Enqueue
  <2>6. \A u \in Task \ {t} : Keeps(u)
    <3>1. \A u \in Task \ {t} : bnd[u] = binding[u] BY DEF TypeOK
    <3>2. "ready" \in TaskStatus BY DEF TaskStatus
    <3> HIDE DEF bnd
    <3> QED BY <1>3, <2>4, <2>5, <3>1, <3>2, MoveKeeps
  <2>7. rs[t] = "ready" /\ bnd[t] = new BY <1>3 DEF TypeOK
  <2>8. status'[t] = "ready" /\ binding'[t] = new BY <1>3, <2>5, <2>7 DEF Reschedule, Retire
  <2>9. ~binding[t].pending BY <1>3 DEF PromiseShape, Standing
  <2>10. ms = executionGrant(seg', t, {}) BY <1>6, <2>1
  <2>11. /\ binding'[t].pending /\ binding'[t].promise = s[2] + 1 /\ binding'[t].ms = ms
    BY <2>8
  <2> HIDE DEF new, bnd, rs, sg
  <2>12. Promising(t, s[2], ms)
    BY <1>1, <1>5, <2>1, <2>2, <2>6, <2>8, <2>9, <2>10, <2>11 DEF Promising
  <2> QED BY <2>3, <2>12
<1> QED BY <1>7, <1>8

LEMMA HostEventTakes ==
  ASSUME CoreInv, PromiseShape, NEW s \in SegmentId, CommitHostEvent(s)
  PROVE  Falls \/ \E ms \in Nat : Promising(s[1], s[2], ms)
<1>1. CASE \E k \in EventKind : CommitHistory(s, k) \/ CommitPhase(s, k) \/ CommitOutcome(s, k)
  BY <1>1, EventFalls DEF CommitHistory, CommitPhase, CommitOutcome, workVars
<1>2. CASE CommitQuestion(s) BY <1>2, EventFalls DEF CommitQuestion
<1>3. CASE CommitUnknown(s) BY <1>3, EventFalls
<1>4. CASE \E ms \in 0..(seg[s].granted + 1), match \in BOOLEAN : CommitExit(s, ms, match)
  <2>1. seg[s].granted \in Nat BY DEF CoreInv, SegmentInv, TypeOK, SegmentRecord
  <2> QED BY <1>4, <2>1, ExitFalls
<1>5. CASE \E code \in BOOLEAN : CommitRejection(s, code) BY <1>5, RejectionTakes
<1> QED BY <1>1, <1>2, <1>3, <1>4, <1>5 DEF CommitHostEvent

\* A retry decision promises the next attempt.
LEMMA RetryTakes ==
  ASSUME CoreInv, PromiseShape, NEW s \in SegmentId, NEW k, QueueRetry(s, k)
  PROVE  \E ms \in Nat : Promising(s[1], s[2], ms)
<1> USE DEF CoreInv, SegmentInv
<1> DEFINE t  == s[1]
<1>1. t \in Task /\ s[2] \in Attempt BY SegmentParts
<1>2. /\ status[t] = "failed" /\ LatestAttempt(t, s[2]) /\ executionCapacity(t, {})
      /\ UNCHANGED workVars
  BY DEF QueueRetry
<1>3. PICK ms \in IF t \in Policy THEN Grants(t) ELSE {0} :
        /\ t \in Policy => ms = executionGrant(seg, t, {})
        /\ Enqueue(t, "ready", [binding EXCEPT ![t] =
             [pending |-> TRUE, ms |-> ms, due |-> TRUE, promise |-> s[2] + 1]])
  BY DEF QueueRetry
<1>4. ms \in Nat /\ s[2] + 1 \in Nat BY <1>1, BudgetAssumption DEF Grants, Attempt
<1> DEFINE new == [pending |-> TRUE, ms |-> ms, due |-> TRUE, promise |-> s[2] + 1]
           bnd == [binding EXCEPT ![t] = new]
           rs  == [status EXCEPT ![t] = "ready"]
<1>5. bnd \in [Task -> Binding] BY <1>1, <1>4, PromiseType
<1>6. Reschedule(rs, {t}, bnd) BY <1>3 DEF Enqueue
<1>7. \A u \in Task \ {t} : Keeps(u)
  <2>1. \A u \in Task \ {t} : bnd[u] = binding[u] BY DEF TypeOK
  <2>2. "ready" \in TaskStatus BY DEF TaskStatus
  <2> HIDE DEF bnd
  <2> QED BY <1>1, <1>5, <1>6, <2>1, <2>2, MoveKeeps
<1>8. rs[t] = "ready" /\ bnd[t] = new BY <1>1 DEF TypeOK
<1>9. status'[t] = "ready" /\ binding'[t] = new BY <1>1, <1>6, <1>8 DEF Reschedule, Retire
<1>10. ~binding[t].pending BY <1>1, <1>2 DEF PromiseShape, Standing
<1>11. CostsFall({}) /\ Recorded BY <1>2, SameCosts DEF workVars, Recorded
<1>12. t \in Policy => ms = executionGrant(seg', t, {}) BY <1>2, <1>3 DEF workVars
<1>13. binding'[t].pending /\ binding'[t].promise = s[2] + 1 /\ binding'[t].ms = ms BY <1>9
<1> HIDE DEF new, bnd, rs
<1>14. Promising(t, s[2], ms)
  BY <1>2, <1>3, <1>7, <1>9, <1>10, <1>11, <1>12, <1>13 DEF Promising
<1> QED BY <1>4, <1>14

\* The owner's other decisions take nothing.
LEMMA DecisionFalls ==
  ASSUME CoreInv, PromiseShape, NEW t \in Task,
         \/ CancelTask(t) \/ QueueResume(t)
         \/ \E s \in SegmentId : s[1] = t /\ (AnswerQuestion(s) \/ AcceptResult(s) \/ RejectResult(s))
  PROVE  Falls
<1> USE DEF CoreInv, SegmentInv
<1>0. binding \in [Task -> Binding] BY DEF TypeOK
<1>1. CASE CancelTask(t)
  <2> DEFINE bnd == [binding EXCEPT ![t] = NoBinding]
             ts  == [status EXCEPT ![t] = "cancelled"]
  <2>1. Reschedule(blockFailedDependencies(ts, {t}), {}, bnd) /\ UNCHANGED <<attempt, seg>>
    BY <1>1 DEF CancelTask, workVars
  <2>2. bnd \in [Task -> Binding] BY DEF TypeOK, Binding, NoBinding
  <2>3. \A u \in Task \ {t} : Keeps(u)
    <3>1. \A u \in Task \ {t} : bnd[u] = binding[u] BY DEF TypeOK
    <3>2. "cancelled" \in TaskStatus BY DEF TaskStatus
    <3> HIDE DEF bnd
    <3> QED BY <2>1, <2>2, <3>1, <3>2, MoveKeeps
  <2>4. Keeps(t)
    <3>1. bnd[t] = NoBinding BY DEF TypeOK
    <3>2. binding'[t] = NoBinding BY <2>1, <3>1 DEF Reschedule, Retire
    <3> QED BY <3>2 DEF Keeps
  <2>5. CostsFall({}) /\ Recorded BY <2>1, SameCosts DEF Recorded
  <2> QED BY <2>3, <2>4, <2>5 DEF Falls
<1>2. CASE QueueResume(t)
  <2>1. /\ status[t] = "interrupted" /\ UNCHANGED <<attempt, seg>>
        /\ Reschedule([status EXCEPT ![t] = "resume_queued"], {t}, binding)
    BY <1>2 DEF QueueResume, Enqueue, workVars
  <2>2. "resume_queued" \in TaskStatus BY DEF TaskStatus
  <2>3. \A u \in Task : Keeps(u) BY <1>0, <2>1, <2>2, MoveKeeps
  <2> QED BY <2>1, <2>3, SameCosts DEF Falls, Recorded
<1>3. ASSUME NEW s \in SegmentId, s[1] = t, AnswerQuestion(s) PROVE Falls
  <2>1. /\ status[t] = "waiting_question" /\ UNCHANGED <<attempt, seg>>
        /\ Reschedule([status EXCEPT ![t] = "resume_queued"], {t}, binding)
    BY <1>3 DEF AnswerQuestion, Enqueue
  <2>2. "resume_queued" \in TaskStatus BY DEF TaskStatus
  <2>3. \A u \in Task : Keeps(u) BY <1>0, <2>1, <2>2, MoveKeeps
  <2> QED BY <2>1, <2>3, SameCosts DEF Falls, Recorded
<1>4. ASSUME NEW s \in SegmentId, s[1] = t, AcceptResult(s) PROVE Falls
  <2> DEFINE ts == [status EXCEPT ![t] = "completed"]
  <2>1. /\ status[t] = "result_ready" /\ UNCHANGED <<attempt, seg>>
        /\ Reschedule(Promoted(ts), releaseReady(ts), binding)
    BY <1>4 DEF AcceptResult, Reviewable, workVars
  <2>2. "completed" \in TaskStatus BY DEF TaskStatus
  <2>3. \A u \in Task : Keeps(u) BY <1>0, <2>1, <2>2, MoveKeeps
  <2> QED BY <2>1, <2>3, SameCosts DEF Falls, Recorded
<1>5. ASSUME NEW s \in SegmentId, s[1] = t, RejectResult(s) PROVE Falls
  <2> DEFINE ts == [status EXCEPT ![t] = "failed"]
  <2>1. /\ status[t] = "result_ready" /\ LatestSegment(s) /\ UNCHANGED seg
        /\ attempt' = [attempt EXCEPT ![t][s[2]] = "failed"]
        /\ \/ Reschedule(blockFailedDependencies(ts, AllFailed(ts)), {}, binding)
           \/ Reschedule(ts, {}, binding)
    BY <1>5 DEF RejectResult, Reviewable, SetStatus
  <2>2. "failed" \in TaskStatus BY DEF TaskStatus
  <2>3. \A u \in Task : Keeps(u) BY <1>0, <2>1, <2>2, MoveKeeps
  <2>4. attempt[t][s[2]] # "none" /\ s[2] \in Attempt
    BY <1>5, <2>1, SegmentParts DEF LatestSegment, LatestAttempt
  <2>5. Recorded BY <2>1, <2>4, AttemptsSame DEF Recorded
  <2> QED BY <2>1, <2>3, <2>5, SameCosts DEF Falls
<1> QED BY <1>1, <1>2, <1>3, <1>4, <1>5

LEMMA StopFalls ==
  ASSUME CoreInv, PromiseShape, NEW t \in Task, StopTask(t) PROVE Falls
<1> USE DEF CoreInv, SegmentInv
<1>1. CostsFall({}) BY StopMoves, ProgressCosts
<1>2. PICK s \in ActiveSegments : s[1] = t BY DEF StopTask
<1>3. s \in SegmentId /\ Act(s) BY DEF ActiveSegments, Act
<1>4. status[t] # "ready" BY <1>2, <1>3, ActiveTask DEF Dispatched
<1>5. /\ Reschedule([status EXCEPT ![t] = "stopping"], {}, binding) /\ UNCHANGED attempt
  BY DEF StopTask, SetStatus
<1>6. "stopping" \in TaskStatus /\ binding \in [Task -> Binding] BY DEF TaskStatus, TypeOK
<1>7. \A u \in Task : Keeps(u) BY <1>4, <1>5, <1>6, MoveKeeps
<1> QED BY <1>1, <1>5, <1>7 DEF Falls, Recorded

LEMMA LostFalls == ASSUME CoreInv, PromiseShape, MarkStoppingUnknown PROVE Falls
<1> USE DEF CoreInv, SegmentInv
<1> DEFINE lost == {s \in SegmentId : seg[s].status \in {"stopping", "unknown"}}
           ts == [t \in Task |-> IF \E s \in lost : s[1] = t THEN "unknown" ELSE status[t]]
<1>1. CostsFall({}) BY StopMoves, ProgressCosts
<1>2. \A s \in lost : Act(s) BY DEF Act, ActiveStatus
<1>3. attempt' = [t \in Task |-> [a \in Attempt |->
        IF \E s \in lost : s[1] = t /\ s[2] = a THEN "unknown" ELSE attempt[t][a]]]
  BY DEF MarkStoppingUnknown
<1>4. Recorded
  <2>1. \A s \in lost : attempt[s[1]][s[2]] # "none" BY <1>2, ActiveTask
  <2> HIDE DEF lost
  <2> QED BY <1>3, <2>1 DEF Recorded
<1>5. ts \in [Task -> TaskStatus] /\ binding \in [Task -> Binding] BY DEF TypeOK, TaskStatus
<1>6. Reschedule(ts, {}, binding) BY DEF MarkStoppingUnknown
<1>7. \A u \in Task : ts[u] = status[u] \/ status[u] # "ready"
  BY <1>2, ActiveTask DEF Dispatched
<1>8. \A u \in Task : Keeps(u)
  <2> HIDE DEF ts
  <2> QED BY <1>5, <1>6, <1>7, RescheduleKeeps
<1> QED BY <1>1, <1>4, <1>8 DEF Falls

\* Every step lets the ledger fall, writes one promise or starts one segment.
LEMMA LedgerStep ==
  ASSUME CoreInv, PromiseShape, [Next]_vars
  PROVE  \/ Falls
         \/ \E t \in Task, a \in Attempt, ms \in Nat : Promising(t, a, ms)
         \/ \E t \in Task, a \in Attempt, n \in 1..MaxSegment, ms \in Nat :
              StartsAttempt(t, a, ms) \/ StartsResumed(t, a, n, ms)
<1> USE DEF CoreInv, SegmentInv
<1>1. CASE /\ status' = status /\ attempt' = attempt /\ seg' = seg
           /\ binding' = binding \/ \E t \in Task : BackoffElapses(t)
  <2>1. CostsFall({}) /\ Recorded BY <1>1, SameCosts DEF Recorded
  <2>2. CASE binding' = binding
    <3>1. \A u \in Task : Keeps(u) BY <1>1, <2>2 DEF Keeps
    <3> QED BY <2>1, <3>1 DEF Falls
  <2>3. CASE \E t \in Task : BackoffElapses(t)
    <3>1. PICK t \in Task : BackoffElapses(t) BY <2>3
    <3>2. binding[t].pending /\ binding' = [binding EXCEPT ![t].due = TRUE] BY <3>1 DEF BackoffElapses
    <3>3. binding \in [Task -> Binding] BY DEF TypeOK
    <3>4. \A u \in Task : Keeps(u) BY <1>1, <3>2, <3>3 DEF Keeps, Binding
    <3> QED BY <2>1, <3>4 DEF Falls
  <2> QED BY <1>1, <2>2, <2>3
<1>2. CASE \E h \in Host, t \in Task : ClaimReady(h, t)
  <2>1. PICK h \in Host, t \in Task : ClaimReady(h, t) BY <1>2
  <2>2. Grants(t) \subseteq Nat BY BudgetAssumption DEF Grants
  <2> QED BY <2>1, <2>2, ClaimStarts
<1>3. CASE \E s \in SegmentId : CommitHostEvent(s) BY <1>3, HostEventTakes, SegmentParts
<1>4. CASE \E t \in Task : StopTask(t) BY <1>4, StopFalls
<1>5. CASE \E t \in Task : Decide(t)
  <2>1. PICK t \in Task : Decide(t) BY <1>5
  <2>2. CASE \E s \in SegmentId, k \in {"failed", "result"} : QueueRetry(s, k)
    BY <2>2, RetryTakes, SegmentParts
  <2> QED BY <2>1, <2>2, DecisionFalls DEF Decide
<1>6. CASE MarkStoppingUnknown BY <1>6, LostFalls
<1> QED BY <1>1, <1>2, <1>3, <1>4, <1>5, <1>6, OtherSteps

-----------------------------------------------------------------------------
(* The shape of the ledger. *)

LEMMA KeepsStanding ==
  ASSUME NEW u \in Task, Standing(u), Keeps(u),
         \A b \in Attempt : attempt'[u][b] = "none" <=> attempt[u][b] = "none"
  PROVE  Standing(u)'
<1>1. CASE binding'[u] = NoBinding BY <1>1 DEF Standing, NoBinding
<1>2. CASE binding'[u] # NoBinding
  <2>1. binding[u].pending /\ status'[u] = status[u]
    BY <1>2 DEF Keeps, Standing
  <2>2. /\ binding'[u].pending = binding[u].pending
        /\ binding'[u].ms = binding[u].ms /\ binding'[u].promise = binding[u].promise
    BY <1>2 DEF Keeps
  <2>3. nextTaskAttemptOrdinal(u, binding[u].promise) BY <2>1 DEF Standing
  <2>4. nextTaskAttemptOrdinal(u, binding[u].promise)' BY <2>2, <2>3 DEF nextTaskAttemptOrdinal
  <2> QED BY <2>1, <2>2, <2>4 DEF Standing
<1> QED BY <1>1, <1>2

\* The attempt after the latest one is the next one.
LEMMA NextAfterLatest ==
  ASSUME Contiguous, NEW t \in Task, NEW a \in Attempt, LatestAttempt(t, a)
  PROVE  nextTaskAttemptOrdinal(t, a + 1)
<1>1. a \in Int /\ \A b \in Attempt : b \in Int BY DEF Attempt
<1>2. \A b \in Attempt : attempt[t][b] # "none" <=> b <= a
  BY <1>1 DEF LatestAttempt, Contiguous
<1> QED BY <1>1, <1>2 DEF nextTaskAttemptOrdinal

\* The time promised to a policy task is one that a segment may take.
LEMMA PromisingStanding ==
  ASSUME CoreInv, TypeOK', Contiguous, NEW t \in Task, NEW a \in Attempt, NEW ms \in Nat,
         Promising(t, a, ms)
  PROVE  Standing(t)'
<1> USE DEF CoreInv, SegmentInv
<1>1. /\ status'[t] = "ready" /\ binding'[t].pending
      /\ binding'[t].promise = a + 1 /\ binding'[t].ms = ms
      /\ t \in Policy => ms \in Grants(t) /\ ms = executionGrant(seg', t, {})
      /\ t \notin Policy => ms = 0
      /\ LatestAttempt(t, a) /\ Recorded
  BY DEF Promising
<1>2. nextTaskAttemptOrdinal(t, a + 1)'
  BY <1>1, NextAfterLatest DEF Recorded, nextTaskAttemptOrdinal
<1>3. a + 1 \in Nat \ {0} BY DEF Attempt
<1>4. ASSUME t \in Policy PROVE ms \in 1..SegmentMS[t] /\ ms <= AttemptMS[t]
  <2>1. seg' \in [SegmentId -> SegmentRecord] BY DEF TypeOK
  <2>2. Allowance(seg', t, {}, {}) <= AttemptMS[t] BY <2>1, AllowanceIs
  <2> QED BY <1>1, <1>4, <2>2 DEF Grants, executionGrant
<1>5. nextTaskAttemptOrdinal(t, binding[t].promise)' BY <1>1, <1>2 DEF nextTaskAttemptOrdinal
<1> QED BY <1>1, <1>3, <1>4, <1>5 DEF Standing

\* A new attempt and a resumed one.
LEMMA AttemptStarts ==
  ASSUME TypeOK, NEW t \in Task, NEW a \in Attempt, NEW n, NEW ms,
         StartsAttempt(t, a, ms) \/ StartsResumed(t, a, n, ms)
  PROVE  /\ \A u \in Task \ {t}, b \in Attempt : attempt'[u][b] = attempt[u][b]
         /\ \A b \in Attempt \ {a} : attempt'[t][b] = attempt[t][b]
         /\ attempt'[t][a] # "none"
         /\ StartsResumed(t, a, n, ms) => Recorded
<1>1. attempt' = [attempt EXCEPT ![t][a] = "running"] BY DEF StartsAttempt, StartsResumed, Starts
<1>2. attempt \in [Task -> [Attempt -> AttemptStatus]] BY DEF TypeOK
<1>3. StartsResumed(t, a, n, ms) => attempt[t][a] # "none" BY DEF StartsResumed, LatestAttempt
<1> QED BY <1>1, <1>2, <1>3 DEF Recorded

LEMMA ProgressGrant ==
  ASSUME TypeOK, NEW s \in SegmentId, Progress(s) PROVE seg'[s].granted = seg[s].granted
<1>1. seg[s] \in SegmentRecord BY DEF TypeOK
<1> QED BY <1>1 DEF Progress, Phase, Asked, Reported, Exited, NotStarted, StopRequested, Lost,
                    SegmentRecord

LEMMA ShapeStep ==
  ASSUME CoreInv, TypeOK', Shape, [Next]_vars PROVE Shape'
<1> USE DEF Shape
<1>1. Fresh'
  <2> SUFFICES ASSUME NEW s \in SegmentId, seg'[s].status = "none" PROVE seg'[s].granted = 0
    BY DEF Fresh
  <2>1. SegmentMoves(s) BY SegmentStep DEF CoreInv, SegmentInv
  <2>2. seg[s].status = "none" BY <2>1, StaysKnown DEF CoreInv, SegmentInv
  <2>3. \A ms : Granted(ms).status # "none" BY DEF Granted, NoSegment
  <2>4. Progress(s) BY <2>1, <2>3 DEF SegmentMoves
  <2> QED BY <2>2, <2>4, ProgressGrant DEF Fresh, CoreInv, SegmentInv
<1>2. CASE Falls
  <2>1. Contiguous' BY <1>2 DEF Falls, Recorded, Contiguous
  <2>2. PromiseShape' BY <1>2, KeepsStanding DEF Falls, Recorded, PromiseShape
  <2> QED BY <1>1, <2>1, <2>2
<1>3. ASSUME NEW t \in Task, NEW a \in Attempt, NEW ms \in Nat, Promising(t, a, ms) PROVE Shape'
  <2>1. Recorded /\ \A u \in Task \ {t} : Keeps(u) BY <1>3 DEF Promising
  <2>2. Contiguous' BY <2>1 DEF Recorded, Contiguous
  <2>3. \A u \in Task \ {t} : Standing(u)'
    <3>1. ASSUME NEW u \in Task \ {t} PROVE Standing(u)'
      BY <2>1, KeepsStanding DEF Recorded, PromiseShape
    <3> QED BY <3>1
  <2>4. Standing(t)' BY <1>3, PromisingStanding
  <2> QED BY <1>1, <2>2, <2>3, <2>4 DEF PromiseShape
<1>4. ASSUME NEW t \in Task, NEW a \in Attempt, NEW n \in 1..MaxSegment, NEW ms \in Nat,
             StartsAttempt(t, a, ms)
      PROVE  Shape'
  <2> USE DEF CoreInv, SegmentInv
  <2>1. nextTaskAttemptOrdinal(t, a) /\ binding'[t] = NoBinding /\ \A u \in Task \ {t} : Keeps(u)
    BY <1>4 DEF StartsAttempt, Starts
  <2>2. /\ \A u \in Task \ {t}, b \in Attempt : attempt'[u][b] = attempt[u][b]
        /\ \A b \in Attempt \ {a} : attempt'[t][b] = attempt[t][b]
        /\ attempt'[t][a] # "none"
    BY <1>4, AttemptStarts
  <2>3. Contiguous'
    <3>1. \A b \in Attempt : b \in Int BY DEF Attempt
    <3>2. \A b \in Attempt : attempt'[t][b] # "none" <=> b <= a
      BY <2>1, <2>2, <3>1 DEF nextTaskAttemptOrdinal
    <3>3. ASSUME NEW u \in Task, NEW b \in Attempt, NEW c \in Attempt,
                 attempt'[u][b] # "none", c < b
          PROVE  attempt'[u][c] # "none"
      <4>1. CASE u = t BY <3>1, <3>2, <3>3, <4>1
      <4>2. CASE u # t BY <2>2, <3>3, <4>2 DEF Contiguous
      <4> QED BY <4>1, <4>2
    <3> QED BY <3>3 DEF Contiguous
  <2>4. \A u \in Task : Standing(u)'
    <3>1. ASSUME NEW u \in Task \ {t} PROVE Standing(u)'
      BY <2>1, <2>2, KeepsStanding DEF PromiseShape
    <3>2. Standing(t)' BY <2>1 DEF Standing, NoBinding
    <3> QED BY <3>1, <3>2
  <2> QED BY <1>1, <2>3, <2>4 DEF PromiseShape
<1>5. ASSUME NEW t \in Task, NEW a \in Attempt, NEW n \in 1..MaxSegment, NEW ms \in Nat,
             StartsResumed(t, a, n, ms)
      PROVE  Shape'
  <2>1. Recorded BY <1>5, AttemptStarts DEF CoreInv, SegmentInv
  <2>2. \A u \in Task : Keeps(u) BY <1>5 DEF StartsResumed, Starts
  <2>3. Contiguous' BY <2>1 DEF Recorded, Contiguous
  <2>4. PromiseShape' BY <2>1, <2>2, KeepsStanding DEF Recorded, PromiseShape
  <2> QED BY <1>1, <2>3, <2>4
<1>6. 1 \in 1..MaxSegment BY BoundsAssumption
<1> QED BY <1>2, <1>3, <1>4, <1>5, <1>6, LedgerStep
-----------------------------------------------------------------------------
(* The sums of the ledger over a step. *)

LEMMA ChargesFall ==
  ASSUME TypeOK, TypeOK', CostsFall({}), NEW A, A \subseteq SegmentId
  PROVE  Charged(seg', A) <= Charged(seg, A)
<1>1. Cost(seg) \in [SegmentId -> Nat] /\ Cost(seg') \in [SegmentId -> Nat] BY CostType DEF TypeOK
<1>2. \A s \in A : Cost(seg')[s] <= Cost(seg)[s] BY DEF CostsFall, Cost
<1>3. IsFiniteSet(A) BY SegmentsFinite, FS_Subset
<1>4. SumFunctionOnSet(Cost(seg'), A) <= SumFunctionOnSet(Cost(seg), A)
  <2> HIDE DEF Cost
  <2> QED BY <1>1, <1>2, <1>3, SumMonotonic
<1> QED BY <1>4, ChargedIs

\* A launch adds its grant to the charges over its segment.
LEMMA ChargesRise ==
  ASSUME SegmentInv, TypeOK', Fresh, NEW s \in SegmentId, NEW ms \in Nat, Launch(s, ms),
         seg[s].status = "none", NEW A, A \subseteq SegmentId
  PROVE  /\ s \in A => Charged(seg', A) <= Charged(seg, A) + ms
         /\ s \notin A => Charged(seg', A) <= Charged(seg, A)
<1> USE DEF SegmentInv
<1>1. Cost(seg) \in [SegmentId -> Nat] /\ Cost(seg') \in [SegmentId -> Nat] BY CostType DEF TypeOK
<1>2. IsFiniteSet(A) BY SegmentsFinite, FS_Subset
<1>3. seg' = [seg EXCEPT ![s] = Granted(ms)] /\ seg \in [SegmentId -> SegmentRecord]
  BY DEF Launch, TypeOK
<1>4. \A r \in SegmentId \ {s} : seg'[r] = seg[r] BY <1>3
<1>5. Cost(seg')[s] = ms
  <2>1. seg'[s] = Granted(ms) BY <1>3
  <2> QED BY <2>1 DEF Cost, Charge, Granted, NoSegment
<1>6. \A y \in A \ {s} : Cost(seg')[y] <= Cost(seg)[y]
  <2>1. \A y \in A \ {s} : Cost(seg')[y] = Cost(seg)[y] BY <1>4 DEF Cost
  <2>2. \A y \in A : Cost(seg)[y] \in Nat BY <1>1
  <2> QED BY <2>1, <2>2
<1>7. Cost(seg)[s] = 0
  <2>1. seg[s].granted = 0 /\ seg[s].budget # "settled"
    BY DEF Fresh, Sound, TerminalStatus
  <2> QED BY <2>1 DEF Cost, Charge
<1>8. /\ s \in A => SumFunctionOnSet(Cost(seg'), A)
                      <= SumFunctionOnSet(Cost(seg), A) + Cost(seg')[s] - Cost(seg)[s]
      /\ s \notin A => SumFunctionOnSet(Cost(seg'), A) <= SumFunctionOnSet(Cost(seg), A)
  <2> HIDE DEF Cost
  <2> QED BY <1>1, <1>2, <1>6, SumStep
<1>9. SumFunctionOnSet(Cost(seg), A) \in Nat
  <2> HIDE DEF Cost
  <2> QED BY <1>1, <1>2, SumNat
<1>10. s \in A => SumFunctionOnSet(Cost(seg'), A) <= SumFunctionOnSet(Cost(seg), A) + ms
  <2> HIDE DEF Cost
  <2> QED BY <1>5, <1>7, <1>8, <1>9
<1> QED BY <1>8, <1>10, ChargedIs

LEMMA KeepsTime ==
  ASSUME TypeOK, NEW u \in Task, Keeps(u)
  PROVE  /\ binding'[u].ms <= binding[u].ms
         /\ binding'[u].pending => binding[u].pending
<1>1. binding[u].ms \in Nat BY DEF TypeOK, Binding
<1> QED BY <1>1 DEF Keeps, NoBinding

\* What is promised to the tasks in S changes by the promise of t alone.
LEMMA HoldsStep ==
  ASSUME TypeOK, TypeOK', NEW S, S \subseteq Task, NEW t \in Task,
         \A u \in S \ {t} : Keeps(u)
  PROVE  /\ t \in S => pendingActiveHolds(S, {})'
                         <= pendingActiveHolds(S, {}) + binding'[t].ms - binding[t].ms
         /\ t \notin S => pendingActiveHolds(S, {})' <= pendingActiveHolds(S, {})
<1>1. Promised \in [Task -> Nat] /\ Promised' \in [Task -> Nat]
  BY DEF TypeOK, Binding, Promised
<1>2. IsFiniteSet(S) BY PlanAssumption, FS_Subset
<1>3. \A y \in S \ {t} : Promised'[y] <= Promised[y] BY KeepsTime DEF Promised
<1>4. Promised[t] = binding[t].ms /\ Promised'[t] = binding'[t].ms BY DEF Promised
<1>5. S \ {} = S OBVIOUS
<1>6. /\ pendingActiveHolds(S, {}) = SumFunctionOnSet(Promised, S)
      /\ pendingActiveHolds(S, {})' = SumFunctionOnSet(Promised', S)
  BY <1>5 DEF pendingActiveHolds, Promised
<1>7. /\ t \in S => SumFunctionOnSet(Promised', S)
                      <= SumFunctionOnSet(Promised, S) + Promised'[t] - Promised[t]
      /\ t \notin S => SumFunctionOnSet(Promised', S) <= SumFunctionOnSet(Promised, S)
  <2> HIDE DEF Promised
  <2> DEFINE f == Promised
             g == Promised'
  <2>1. f \in [Task -> Nat] /\ g \in [Task -> Nat] /\ \A y \in S \ {t} : g[y] <= f[y] BY <1>1, <1>3
  <2> HIDE DEF f, g
  <2>2. /\ t \in S => SumFunctionOnSet(g, S) <= SumFunctionOnSet(f, S) + g[t] - f[t]
        /\ t \notin S => SumFunctionOnSet(g, S) <= SumFunctionOnSet(f, S)
    BY <1>2, <2>1, SumStep
  <2> QED BY <2>2 DEF f, g
<1> QED BY <1>4, <1>6, <1>7

LEMMA HoldsFall ==
  ASSUME TypeOK, TypeOK', NEW S, S \subseteq Task, \A u \in S : Keeps(u)
  PROVE  pendingActiveHolds(S, {})' <= pendingActiveHolds(S, {})
<1>1. CASE S = {} 
  <2>1. {} \ {} = {} OBVIOUS
  <2>2. pendingActiveHolds(S, {}) = 0 /\ pendingActiveHolds(S, {})' = 0
    BY <1>1, <2>1, SumEmpty DEF pendingActiveHolds
  <2> QED BY <2>2
<1>2. CASE S # {}
  <2>1. PICK t \in S : TRUE BY <1>2
  <2>2. t \in Task /\ Keeps(t) BY <2>1
  <2>3. binding'[t].ms <= binding[t].ms BY <2>2, KeepsTime
  <2>4. pendingActiveHolds(S, {})' <= pendingActiveHolds(S, {}) + binding'[t].ms - binding[t].ms
    BY <2>1, <2>2, HoldsStep
  <2>5. pendingActiveHolds(S, {}) \in Nat BY HoldsType
  <2>6. pendingActiveHolds(S, {})' \in Nat
    <3>1. Promised' \in [Task -> Nat] BY DEF TypeOK, Binding, Promised
    <3>2. IsFiniteSet(S \ {}) BY PlanAssumption, FS_Subset
    <3>3. S \ {} \subseteq Task OBVIOUS
    <3>4. pendingActiveHolds(S, {})' = SumFunctionOnSet(Promised', S \ {})
      BY DEF pendingActiveHolds, Promised
    <3> DEFINE g == Promised'
    <3>5. g \in [Task -> Nat] BY <3>1
    <3> HIDE DEF g, Promised
    <3>6. SumFunctionOnSet(g, S \ {}) \in Nat BY <3>2, <3>3, <3>5, SumNat
    <3> QED BY <3>4, <3>6 DEF g
  <2>7. binding'[t].ms \in Nat /\ binding[t].ms \in Nat BY <2>2 DEF TypeOK, Binding
  <2> QED BY <2>3, <2>4, <2>5, <2>6, <2>7
<1> QED BY <1>1, <1>2

\* The attempts used and promised.
LEMMA AttemptsRecorded ==
  ASSUME Recorded, NEW u \in Task
  PROVE  AttemptsOf(u)' = AttemptsOf(u) /\ GroupAttemptsOf(u)' = GroupAttemptsOf(u)
<1>1. \A v \in Task : {b \in Attempt : attempt'[v][b] # "none"} = {b \in Attempt : attempt[v][b] # "none"}
  BY DEF Recorded
<1>2. \A v \in Task : AttemptsOf(v)' = AttemptsOf(v) BY <1>1 DEF AttemptsOf
<1>3. [v \in Task |-> AttemptsOf(v)'] = [v \in Task |-> AttemptsOf(v)] BY <1>2
<1>4. GroupAttemptsOf(u)' = GroupAttemptsOf(u) BY <1>3 DEF GroupAttemptsOf
<1> QED BY <1>2, <1>4

\* A new attempt counts once, for its task and for its group.
LEMMA AttemptsRise ==
  ASSUME TypeOK, NEW t \in Task, NEW a \in Attempt, NEW ms, StartsAttempt(t, a, ms), NEW u \in Task
  PROVE  /\ AttemptsOf(t)' = AttemptsOf(t) + 1
         /\ u # t => AttemptsOf(u)' = AttemptsOf(u)
         /\ t \in Siblings(u) => GroupAttemptsOf(u)' <= GroupAttemptsOf(u) + 1
         /\ t \notin Siblings(u) => GroupAttemptsOf(u)' <= GroupAttemptsOf(u)
<1> DEFINE used(v) == {b \in Attempt : attempt[v][b] # "none"}
<1>1. /\ \A v \in Task \ {t}, b \in Attempt : attempt'[v][b] = attempt[v][b]
      /\ \A b \in Attempt \ {a} : attempt'[t][b] = attempt[t][b]
      /\ attempt'[t][a] # "none"
  BY AttemptStarts
<1>2. AttemptsOf(t)' = AttemptsOf(t) + 1
  <2>1. attempt[t][a] = "none" BY DEF StartsAttempt, nextTaskAttemptOrdinal, Attempt
  <2>2. used(t)' = used(t) \cup {a} /\ a \notin used(t) BY <1>1, <2>1
  <2>3. IsFiniteSet(used(t)) BY AttemptsFinite, FS_Subset
  <2>4. AttemptsOf(t) = Cardinality(used(t)) /\ AttemptsOf(t)' = Cardinality(used(t)') BY DEF AttemptsOf
  <2> HIDE DEF used
  <2> QED BY <2>2, <2>3, <2>4, FS_AddElement
<1>3. \A v \in Task \ {t} : AttemptsOf(v)' = AttemptsOf(v)
  <2>1. ASSUME NEW v \in Task \ {t} PROVE AttemptsOf(v)' = AttemptsOf(v)
    <3>1. used(v)' = used(v) BY <1>1
    <3> QED BY <3>1 DEF AttemptsOf
  <2> QED BY <2>1
<1> DEFINE f == [v \in Task |-> AttemptsOf(v)]
           g == [v \in Task |-> AttemptsOf(v)']
<1>4. GroupAttemptsOf(u) = SumFunctionOnSet(f, Siblings(u))
      /\ GroupAttemptsOf(u)' = SumFunctionOnSet(g, Siblings(u))
  BY DEF GroupAttemptsOf, Siblings
<1>5. f \in [Task -> Nat] BY AttemptsOfType
<1>6. g \in [Task -> Nat]
  <2>1. \A v \in Task : AttemptsOf(v) \in Nat BY AttemptsOfType
  <2> QED BY <1>2, <1>3, <2>1
<1>7. \A v \in Siblings(u) \ {t} : g[v] <= f[v]
  <2>1. \A v \in Task : AttemptsOf(v) \in Nat BY AttemptsOfType
  <2> QED BY <1>3, <2>1, SiblingsFinite
<1>8. g[t] = f[t] + 1 BY <1>2
<1> HIDE DEF f, g
<1>9. /\ t \in Siblings(u) => SumFunctionOnSet(g, Siblings(u))
                                <= SumFunctionOnSet(f, Siblings(u)) + g[t] - f[t]
      /\ t \notin Siblings(u) => SumFunctionOnSet(g, Siblings(u)) <= SumFunctionOnSet(f, Siblings(u))
  BY <1>5, <1>6, <1>7, SiblingsFinite, SumStep
<1>10. f[t] \in Nat /\ SumFunctionOnSet(f, Siblings(u)) \in Nat BY <1>5, SiblingsFinite, SumNat
<1>11. t \in Siblings(u) =>
         SumFunctionOnSet(g, Siblings(u)) <= SumFunctionOnSet(f, Siblings(u)) + 1
  BY <1>8, <1>9, <1>10
<1> QED BY <1>2, <1>3, <1>4, <1>9, <1>11
-----------------------------------------------------------------------------
(* The limits over a step. *)

LEMMA LedgerType ==
  ASSUME TypeOK, NEW t \in Task
  PROVE  /\ GroupCharge(seg, t) \in Nat /\ chargedTaskActiveMS(seg, t) \in Nat
         /\ \A a : attemptChargedActiveMS(seg, t, a) \in Nat
         /\ pendingActiveHolds(Siblings(t), {}) \in Nat /\ pendingActiveHolds({t}, {}) \in Nat
         /\ GroupAttemptsOf(t) \in Nat /\ AttemptsOf(t) \in Nat
         /\ Cardinality(Holding(t)) \in Nat /\ Cardinality(Holding(t) \cap {t}) \in Nat
         /\ binding[t].ms \in Nat
         /\ GroupMS[t] \in Nat /\ TaskMS[t] \in Nat /\ AttemptMS[t] \in Nat
         /\ GroupAttempts[t] \in Nat /\ TaskAttempts[t] \in Nat
<1>1. seg \in [SegmentId -> SegmentRecord] BY DEF TypeOK
<1>2. /\ GroupCharge(seg, t) \in Nat /\ chargedTaskActiveMS(seg, t) \in Nat
      /\ \A a : attemptChargedActiveMS(seg, t, a) \in Nat
  BY <1>1, ChargesType
<1>3. pendingActiveHolds(Siblings(t), {}) \in Nat /\ pendingActiveHolds({t}, {}) \in Nat
  BY SiblingsFinite, HoldsType
<1>4. binding[t].ms \in Nat BY DEF TypeOK, Binding
<1>5. IsFiniteSet(Holding(t)) BY SiblingsFinite, FS_Subset DEF Holding
<1>6. IsFiniteSet(Holding(t) \cap {t}) BY <1>5, FS_Subset
<1> QED BY <1>2, <1>3, <1>4, <1>5, <1>6, FS_CardinalityType, GroupAttemptsType, AttemptsOfType,
           BudgetAssumption

LEMMA GroupAttemptsNext == ASSUME NEW t PROVE GroupAttemptsOf(t)' \in Nat
<1>1. \A u : AttemptsOf(u)' \in Nat
  <2>1. ASSUME NEW u PROVE AttemptsOf(u)' \in Nat
    <3>1. IsFiniteSet({a \in Attempt : attempt'[u][a] # "none"}) BY AttemptsFinite, FS_Subset
    <3> QED BY <3>1, FS_CardinalityType DEF AttemptsOf
  <2> QED BY <2>1
<1> DEFINE g == [u \in Task |-> AttemptsOf(u)']
<1>2. GroupAttemptsOf(t)' = SumFunctionOnSet(g, Siblings(t)) BY DEF GroupAttemptsOf
<1>3. g \in [Task -> Nat] BY <1>1
<1> HIDE DEF g
<1> QED BY <1>2, <1>3, SiblingsFinite, SumNat

LEMMA LedgerNext ==
  ASSUME TypeOK', NEW t \in Task
  PROVE  /\ GroupCharge(seg', t) \in Nat /\ chargedTaskActiveMS(seg', t) \in Nat
         /\ \A a : attemptChargedActiveMS(seg', t, a) \in Nat
         /\ pendingActiveHolds(Siblings(t), {})' \in Nat /\ pendingActiveHolds({t}, {})' \in Nat
         /\ Cardinality(Holding(t)') \in Nat /\ Cardinality(Holding(t)' \cap {t}) \in Nat
<1>1. seg' \in [SegmentId -> SegmentRecord] BY DEF TypeOK
<1>2. ASSUME NEW S, S \subseteq Task PROVE pendingActiveHolds(S, {})' \in Nat
  <2> DEFINE g == Promised'
  <2>1. g \in [Task -> Nat] BY DEF TypeOK, Binding, Promised
  <2>2. pendingActiveHolds(S, {})' = SumFunctionOnSet(g, S \ {}) BY DEF pendingActiveHolds, Promised
  <2>3. IsFiniteSet(S \ {}) /\ S \ {} \subseteq Task BY <1>2, PlanAssumption, FS_Subset
  <2> HIDE DEF g
  <2> QED BY <2>1, <2>2, <2>3, SumNat
<1>3. IsFiniteSet(Holding(t)')
  <2>1. Holding(t)' \subseteq Siblings(t) BY DEF Holding
  <2> QED BY <2>1, SiblingsFinite, FS_Subset
<1>4. IsFiniteSet(Holding(t)' \cap {t}) BY <1>3, FS_Subset
<1> QED BY <1>1, <1>2, <1>3, <1>4, ChargesType, SiblingsFinite, FS_CardinalityType

\* The tasks of a group share its ledger.
LEMMA SameLedger ==
  ASSUME NEW t \in Task, NEW u \in Task, t \in Siblings(u)
  PROVE  /\ \A sg : GroupCharge(sg, u) = GroupCharge(sg, t)
         /\ pendingActiveHolds(Siblings(u), {}) = pendingActiveHolds(Siblings(t), {})
         /\ GroupAttemptsOf(u) = GroupAttemptsOf(t) /\ Holding(u) = Holding(t)
         /\ GroupMS[u] = GroupMS[t] /\ GroupAttempts[u] = GroupAttempts[t]
<1>1. /\ Siblings(u) = Siblings(t)
      /\ GroupMS[u] = GroupMS[t] /\ GroupAttempts[u] = GroupAttempts[t]
  BY SiblingsAgree
<1> QED BY <1>1 DEF GroupCharge, GroupAttemptsOf, Holding

\* A pending promise of a task that keeps its own was there before.
LEMMA HoldingStep ==
  ASSUME TypeOK, NEW u \in Task, NEW own, \A v \in Task \ own : Keeps(v)
  PROVE  Holding(u)' \ own \subseteq Holding(u) \ own
<1>1. ASSUME NEW v \in Holding(u)' \ own PROVE v \in Holding(u)
  <2>1. v \in Task \ own /\ v \in Siblings(u) /\ v \in Policy /\ binding'[v].pending
    BY DEF Holding, Siblings
  <2> QED BY <2>1, KeepsTime DEF Holding
<1> QED BY <1>1

\* The promises counted after a step of task t.
LEMMA HoldingCount ==
  ASSUME TypeOK, NEW t \in Task, NEW u \in Task, \A v \in Task \ {t} : Keeps(v)
  PROVE  /\ Cardinality(Holding(u)') <= Cardinality(Holding(u)) + 1
         /\ t \notin Siblings(u) \/ Keeps(t) => Cardinality(Holding(u)') <= Cardinality(Holding(u))
         /\ Cardinality(Holding(u)' \cap {u}) <= Cardinality(Holding(u) \cap {u}) + 1
         /\ u # t \/ Keeps(t) =>
              Cardinality(Holding(u)' \cap {u}) <= Cardinality(Holding(u) \cap {u})
         /\ ~binding'[t].pending =>
              /\ Cardinality(Holding(u)') <= Cardinality(Holding(u) \ {t})
              /\ Cardinality(Holding(u)' \cap {u}) <= Cardinality((Holding(u) \ {t}) \cap {u})
<1>1. Holding(u)' \ {t} \subseteq Holding(u) \ {t} BY HoldingStep
<1>2. Holding(u)' \subseteq Holding(u) \cup {t} BY <1>1
<1>3. /\ t \notin Siblings(u) \/ Keeps(t) => Holding(u)' \subseteq Holding(u)
      /\ ~binding'[t].pending => Holding(u)' \subseteq Holding(u) \ {t}
  BY <1>1, KeepsTime DEF Holding
<1>4. u # t \/ Keeps(t) => Holding(u)' \cap {u} \subseteq Holding(u) \cap {u} BY <1>2, <1>3
<1>5. IsFiniteSet(Holding(u)) BY SiblingsFinite, FS_Subset DEF Holding
<1>6. ASSUME NEW S, IsFiniteSet(S), NEW T, T \subseteq S PROVE Cardinality(T) <= Cardinality(S)
  BY <1>6, FS_Subset
<1>7. ASSUME NEW S, IsFiniteSet(S), NEW T, T \subseteq S \cup {t}
      PROVE  Cardinality(T) <= Cardinality(S) + 1
  <2>0. Cardinality(S) \in Nat BY <1>7, FS_CardinalityType
  <2>1. IsFiniteSet(S \cup {t}) /\ Cardinality(S \cup {t}) <= Cardinality(S) + 1
    <3>1. /\ IsFiniteSet(S \cup {t})
          /\ Cardinality(S \cup {t}) = IF t \in S THEN Cardinality(S) ELSE Cardinality(S) + 1
      BY <1>7, FS_AddElement
    <3> QED BY <2>0, <3>1
  <2>2. Cardinality(T) <= Cardinality(S \cup {t}) /\ IsFiniteSet(T) BY <1>7, <2>1, FS_Subset
  <2> QED BY <2>0, <2>1, <2>2, FS_CardinalityType
<1>8. /\ IsFiniteSet(Holding(u) \cap {u}) /\ IsFiniteSet(Holding(u) \ {t})
      /\ IsFiniteSet((Holding(u) \ {t}) \cap {u})
  BY <1>5, FS_Subset
<1>9. Holding(u)' \cap {u} \subseteq (Holding(u) \cap {u}) \cup {t} BY <1>2
<1>10. ~binding'[t].pending => Holding(u)' \cap {u} \subseteq (Holding(u) \ {t}) \cap {u} BY <1>3
<1> QED BY <1>2, <1>3, <1>4, <1>5, <1>6, <1>7, <1>8, <1>9, <1>10

\* The limits of one task after a step.
KeptNext(u) ==
  /\ GroupCharge(seg', u) + pendingActiveHolds(Siblings(u), {})' <= GroupMS[u]
  /\ GroupAttemptsOf(u)' + Cardinality(Holding(u)') <= GroupAttempts[u]
  /\ u \in Policy =>
       /\ chargedTaskActiveMS(seg', u) + pendingActiveHolds({u}, {})' <= TaskMS[u]
       /\ AttemptsOf(u)' + Cardinality(Holding(u)' \cap {u}) <= TaskAttempts[u]
  /\ \A a \in Attempt : attemptChargedActiveMS(seg', u, a) <= AttemptMS[u]

LEMMA KeptFrom == ASSUME \A u \in Task : KeptNext(u) PROVE Kept'
<1>1. \A u : /\ GroupCharge(seg, u)' = GroupCharge(seg', u)
             /\ chargedTaskActiveMS(seg, u)' = chargedTaskActiveMS(seg', u)
             /\ \A a : attemptChargedActiveMS(seg, u, a)' = attemptChargedActiveMS(seg', u, a)
  BY DEF GroupCharge, chargedTaskActiveMS, attemptChargedActiveMS, Charged
<1>2. Policy \subseteq Task BY PlanAssumption
<1> QED BY <1>1, <1>2 DEF KeptNext, Kept, GroupTimeKept, GroupAttemptsKept, TaskTimeKept,
                          TaskAttemptsKept, AttemptTimeKept

LEMMA KeptOf ==
  ASSUME Kept, NEW u \in Task
  PROVE  /\ GroupCharge(seg, u) + pendingActiveHolds(Siblings(u), {}) <= GroupMS[u]
         /\ GroupAttemptsOf(u) + Cardinality(Holding(u)) <= GroupAttempts[u]
         /\ u \in Policy => /\ chargedTaskActiveMS(seg, u) + pendingActiveHolds({u}, {}) <= TaskMS[u]
                            /\ AttemptsOf(u) + Cardinality(Holding(u) \cap {u}) <= TaskAttempts[u]
         /\ \A a \in Attempt : attemptChargedActiveMS(seg, u, a) <= AttemptMS[u]
BY DEF Kept, GroupTimeKept, GroupAttemptsKept, TaskTimeKept, TaskAttemptsKept, AttemptTimeKept

\* Costs that fall let the three charges of a task fall.
LEMMA TaskChargesFall ==
  ASSUME TypeOK, TypeOK', CostsFall({}), NEW u \in Task
  PROVE  /\ GroupCharge(seg', u) <= GroupCharge(seg, u)
         /\ chargedTaskActiveMS(seg', u) <= chargedTaskActiveMS(seg, u)
         /\ \A a : attemptChargedActiveMS(seg', u, a) <= attemptChargedActiveMS(seg, u, a)
BY ChargesFall DEF GroupCharge, chargedTaskActiveMS, attemptChargedActiveMS

\* A step that takes nothing keeps every limit.
LEMMA FallsKept ==
  ASSUME TypeOK, TypeOK', Kept, Falls PROVE Kept'
<1>1. CostsFall({}) /\ Recorded /\ \A v \in Task : Keeps(v) BY DEF Falls
<1>2. ASSUME NEW u \in Task PROVE KeptNext(u)
  <2>1. /\ GroupCharge(seg', u) <= GroupCharge(seg, u)
        /\ chargedTaskActiveMS(seg', u) <= chargedTaskActiveMS(seg, u)
        /\ \A a : attemptChargedActiveMS(seg', u, a) <= attemptChargedActiveMS(seg, u, a)
    BY <1>1, TaskChargesFall
  <2>2. /\ pendingActiveHolds(Siblings(u), {})' <= pendingActiveHolds(Siblings(u), {})
        /\ pendingActiveHolds({u}, {})' <= pendingActiveHolds({u}, {})
    BY <1>1, HoldsFall, SiblingsFinite
  <2>3. AttemptsOf(u)' = AttemptsOf(u) /\ GroupAttemptsOf(u)' = GroupAttemptsOf(u)
    BY <1>1, AttemptsRecorded
  <2>4. /\ Cardinality(Holding(u)') <= Cardinality(Holding(u))
        /\ Cardinality(Holding(u)' \cap {u}) <= Cardinality(Holding(u) \cap {u})
    BY <1>1, HoldingCount
  <2>5. /\ GroupCharge(seg', u) \in Nat /\ GroupCharge(seg, u) \in Nat
        /\ chargedTaskActiveMS(seg', u) \in Nat /\ chargedTaskActiveMS(seg, u) \in Nat
        /\ \A a : attemptChargedActiveMS(seg', u, a) \in Nat /\ attemptChargedActiveMS(seg, u, a) \in Nat
        /\ GroupMS[u] \in Nat /\ TaskMS[u] \in Nat /\ AttemptMS[u] \in Nat
    BY LedgerType, LedgerNext
  <2>6. ASSUME NEW a \in Attempt PROVE attemptChargedActiveMS(seg', u, a) <= AttemptMS[u]
    <3>1. attemptChargedActiveMS(seg, u, a) <= AttemptMS[u] BY KeptOf
    <3>2. attemptChargedActiveMS(seg', u, a) <= attemptChargedActiveMS(seg, u, a) BY <2>1
    <3> QED BY <2>5, <3>1, <3>2
  <2>7. GroupCharge(seg', u) + pendingActiveHolds(Siblings(u), {})' <= GroupMS[u]
    <3>1. GroupCharge(seg, u) + pendingActiveHolds(Siblings(u), {}) <= GroupMS[u] BY KeptOf
    <3>2. pendingActiveHolds(Siblings(u), {})' \in Nat /\ pendingActiveHolds(Siblings(u), {}) \in Nat
      BY LedgerType, LedgerNext
    <3> QED BY <2>1, <2>2, <2>5, <3>1, <3>2
  <2>8. GroupAttemptsOf(u)' + Cardinality(Holding(u)') <= GroupAttempts[u]
    <3>1. GroupAttemptsOf(u) + Cardinality(Holding(u)) <= GroupAttempts[u] BY KeptOf
    <3>2. /\ GroupAttemptsOf(u) \in Nat /\ GroupAttempts[u] \in Nat
          /\ Cardinality(Holding(u)') \in Nat /\ Cardinality(Holding(u)) \in Nat
      BY LedgerType, LedgerNext
    <3> QED BY <2>3, <2>4, <3>1, <3>2
  <2>9. ASSUME u \in Policy
        PROVE  /\ chargedTaskActiveMS(seg', u) + pendingActiveHolds({u}, {})' <= TaskMS[u]
               /\ AttemptsOf(u)' + Cardinality(Holding(u)' \cap {u}) <= TaskAttempts[u]
    <3>1. /\ chargedTaskActiveMS(seg, u) + pendingActiveHolds({u}, {}) <= TaskMS[u]
          /\ AttemptsOf(u) + Cardinality(Holding(u) \cap {u}) <= TaskAttempts[u]
      BY <2>9, KeptOf
    <3>2. pendingActiveHolds({u}, {})' \in Nat /\ pendingActiveHolds({u}, {}) \in Nat
      BY LedgerType, LedgerNext
    <3>3. /\ AttemptsOf(u) \in Nat /\ TaskAttempts[u] \in Nat
          /\ Cardinality(Holding(u)' \cap {u}) \in Nat /\ Cardinality(Holding(u) \cap {u}) \in Nat
      BY LedgerType, LedgerNext
    <3>4. chargedTaskActiveMS(seg', u) + pendingActiveHolds({u}, {})' <= TaskMS[u]
      BY <2>1, <2>2, <2>5, <3>1, <3>2
    <3>5. AttemptsOf(u)' + Cardinality(Holding(u)' \cap {u}) <= TaskAttempts[u]
      BY <2>3, <2>4, <3>1, <3>3
    <3> QED BY <3>4, <3>5
  <2> QED BY <2>6, <2>7, <2>8, <2>9 DEF KeptNext
<1> QED BY <1>2, KeptFrom
\* A promise is written out of what is free.
LEMMA PromisingKept ==
  ASSUME CoreInv, Shape, TypeOK', Kept, NEW t \in Task, NEW a \in Attempt, NEW ms \in Nat,
         Promising(t, a, ms)
  PROVE  Kept'
<1> USE DEF CoreInv, SegmentInv, Shape
<1>1. /\ CostsFall({}) /\ Recorded /\ \A v \in Task \ {t} : Keeps(v)
      /\ ~binding[t].pending /\ executionCapacity(t, {})
      /\ binding'[t].ms = ms
      /\ t \in Policy => ms = executionGrant(seg', t, {})
      /\ t \notin Policy => ms = 0
  BY DEF Promising
<1>2. binding[t].ms = 0 BY <1>1 DEF PromiseShape, Standing, NoBinding
<1>3. /\ GroupAttemptsOf(t) + Cardinality(Holding(t)) < GroupAttempts[t]
      /\ t \in Policy => AttemptsOf(t) + Cardinality(Holding(t) \cap {t}) < TaskAttempts[t]
  <2>1. Holding(t) \ {} = Holding(t) OBVIOUS
  <2> QED BY <1>1, <2>1, CapacityIs
<1>4. ASSUME t \in Policy
      PROVE  /\ ms <= GroupMS[t] - GroupCharge(seg', t) - pendingActiveHolds(Siblings(t), {})
             /\ ms <= TaskMS[t] - chargedTaskActiveMS(seg', t) - pendingActiveHolds({t}, {})
  <2>1. seg' \in [SegmentId -> SegmentRecord] BY DEF TypeOK
  <2>2. ms = Allowance(seg', t, {}, {}) BY <1>1, <1>4 DEF executionGrant
  <2> QED BY <1>4, <2>1, <2>2, AllowanceIs
<1>5. ASSUME NEW u \in Task PROVE KeptNext(u)
  <2>1. /\ GroupCharge(seg', u) <= GroupCharge(seg, u)
        /\ chargedTaskActiveMS(seg', u) <= chargedTaskActiveMS(seg, u)
        /\ \A b : attemptChargedActiveMS(seg', u, b) <= attemptChargedActiveMS(seg, u, b)
    BY <1>1, TaskChargesFall
  <2>2. /\ GroupCharge(seg', u) \in Nat /\ GroupCharge(seg, u) \in Nat
        /\ chargedTaskActiveMS(seg', u) \in Nat /\ chargedTaskActiveMS(seg, u) \in Nat
        /\ \A b : attemptChargedActiveMS(seg', u, b) \in Nat /\ attemptChargedActiveMS(seg, u, b) \in Nat
        /\ GroupMS[u] \in Nat /\ TaskMS[u] \in Nat /\ AttemptMS[u] \in Nat
    BY LedgerType, LedgerNext
  <2>3. ASSUME NEW b \in Attempt PROVE attemptChargedActiveMS(seg', u, b) <= AttemptMS[u]
    <3>1. attemptChargedActiveMS(seg, u, b) <= AttemptMS[u] BY KeptOf
    <3>2. attemptChargedActiveMS(seg', u, b) <= attemptChargedActiveMS(seg, u, b) BY <2>1
    <3> QED BY <2>2, <3>1, <3>2
  <2>4. /\ pendingActiveHolds(Siblings(u), {})' \in Nat /\ pendingActiveHolds(Siblings(u), {}) \in Nat
        /\ pendingActiveHolds({u}, {})' \in Nat /\ pendingActiveHolds({u}, {}) \in Nat
    BY LedgerType, LedgerNext
  <2>5. GroupCharge(seg', u) + pendingActiveHolds(Siblings(u), {})' <= GroupMS[u]
    <3>1. GroupCharge(seg, u) + pendingActiveHolds(Siblings(u), {}) <= GroupMS[u] BY KeptOf
    <3>2. /\ t \in Siblings(u) =>
               pendingActiveHolds(Siblings(u), {})' <= pendingActiveHolds(Siblings(u), {}) + ms
          /\ t \notin Siblings(u) =>
               pendingActiveHolds(Siblings(u), {})' <= pendingActiveHolds(Siblings(u), {})
      <4>1. Siblings(u) \subseteq Task /\ \A v \in Siblings(u) \ {t} : Keeps(v) BY <1>1, SiblingsFinite
      <4>2. /\ t \in Siblings(u) => pendingActiveHolds(Siblings(u), {})'
                  <= pendingActiveHolds(Siblings(u), {}) + binding'[t].ms - binding[t].ms
            /\ t \notin Siblings(u) =>
                 pendingActiveHolds(Siblings(u), {})' <= pendingActiveHolds(Siblings(u), {})
        BY <4>1, HoldsStep
      <4> QED BY <1>1, <1>2, <2>4, <4>2
    <3>3. CASE t \notin Siblings(u) \/ t \notin Policy
      <4>1. pendingActiveHolds(Siblings(u), {})' <= pendingActiveHolds(Siblings(u), {})
        BY <1>1, <2>4, <3>2, <3>3
      <4> QED BY <2>1, <2>2, <2>4, <3>1, <4>1
    <3>4. CASE t \in Siblings(u) /\ t \in Policy
      <4>1. /\ GroupCharge(seg', u) = GroupCharge(seg', t) /\ GroupMS[u] = GroupMS[t]
            /\ pendingActiveHolds(Siblings(u), {}) = pendingActiveHolds(Siblings(t), {})
        BY <3>4, SameLedger
      <4>2. ms <= GroupMS[u] - GroupCharge(seg', u) - pendingActiveHolds(Siblings(u), {})
        BY <1>4, <3>4, <4>1
      <4> QED BY <2>2, <2>4, <3>2, <3>4, <4>2
    <3> QED BY <3>3, <3>4
  <2>6. GroupAttemptsOf(u)' + Cardinality(Holding(u)') <= GroupAttempts[u]
    <3>1. GroupAttemptsOf(u) + Cardinality(Holding(u)) <= GroupAttempts[u] BY KeptOf
    <3>2. /\ GroupAttemptsOf(u) \in Nat /\ GroupAttempts[u] \in Nat
          /\ Cardinality(Holding(u)') \in Nat /\ Cardinality(Holding(u)) \in Nat
      BY LedgerType, LedgerNext
    <3>3. /\ Cardinality(Holding(u)') <= Cardinality(Holding(u)) + 1
          /\ t \notin Siblings(u) => Cardinality(Holding(u)') <= Cardinality(Holding(u))
      BY <1>1, HoldingCount
    <3>4. t \in Siblings(u) => GroupAttemptsOf(u) + Cardinality(Holding(u)) < GroupAttempts[u]
      BY <1>3, SameLedger
    <3>5. GroupAttemptsOf(u)' = GroupAttemptsOf(u) BY <1>1, AttemptsRecorded
    <3> QED BY <3>1, <3>2, <3>3, <3>4, <3>5
  <2>7. ASSUME u \in Policy
        PROVE  chargedTaskActiveMS(seg', u) + pendingActiveHolds({u}, {})' <= TaskMS[u]
    <3>1. chargedTaskActiveMS(seg, u) + pendingActiveHolds({u}, {}) <= TaskMS[u] BY <2>7, KeptOf
    <3>2. CASE u # t
      <4>1. \A v \in {u} : Keeps(v) BY <1>1, <3>2
      <4>2. pendingActiveHolds({u}, {})' <= pendingActiveHolds({u}, {}) BY <4>1, HoldsFall
      <4> QED BY <2>1, <2>2, <2>4, <3>1, <4>2
    <3>3. CASE u = t
      <4>1. \A v \in {u} \ {t} : Keeps(v) BY <3>3
      <4>2. pendingActiveHolds({u}, {})'
              <= pendingActiveHolds({u}, {}) + binding'[t].ms - binding[t].ms
        BY <3>3, <4>1, HoldsStep
      <4>3. ms <= TaskMS[u] - chargedTaskActiveMS(seg', u) - pendingActiveHolds({u}, {})
        BY <1>4, <2>7, <3>3
      <4> QED BY <1>1, <1>2, <2>2, <2>4, <4>2, <4>3
    <3> QED BY <3>2, <3>3
  <2>8. ASSUME u \in Policy
        PROVE  AttemptsOf(u)' + Cardinality(Holding(u)' \cap {u}) <= TaskAttempts[u]
    <3>1. AttemptsOf(u) + Cardinality(Holding(u) \cap {u}) <= TaskAttempts[u] BY <2>8, KeptOf
    <3>2. /\ AttemptsOf(u) \in Nat /\ TaskAttempts[u] \in Nat
          /\ Cardinality(Holding(u)' \cap {u}) \in Nat /\ Cardinality(Holding(u) \cap {u}) \in Nat
      BY LedgerType, LedgerNext
    <3>3. /\ Cardinality(Holding(u)' \cap {u}) <= Cardinality(Holding(u) \cap {u}) + 1
          /\ u # t => Cardinality(Holding(u)' \cap {u}) <= Cardinality(Holding(u) \cap {u})
      BY <1>1, HoldingCount
    <3>4. u = t => AttemptsOf(u) + Cardinality(Holding(u) \cap {u}) < TaskAttempts[u]
      BY <1>3, <2>8
    <3>5. AttemptsOf(u)' = AttemptsOf(u) BY <1>1, AttemptsRecorded
    <3> QED BY <3>1, <3>2, <3>3, <3>4, <3>5
  <2> QED BY <2>3, <2>5, <2>6, <2>7, <2>8 DEF KeptNext
<1> QED BY <1>5, KeptFrom

\* The grant of a launch is the promise it spends, or free.
Spends(t, ms) == binding'[t].ms + ms <= binding[t].ms /\ ms <= AttemptMS[t]
Frees(t, ran, ms) == binding'[t].ms <= binding[t].ms /\ ms = Allowance(seg, t, ran, {})

LEMMA StartSpends ==
  ASSUME CoreInv, Shape, NEW t \in Task, NEW a \in Attempt, NEW ms \in Nat, StartsAttempt(t, a, ms)
  PROVE  Spends(t, ms) \/ Frees(t, {}, ms)
<1>1. binding[t].ms \in Nat /\ binding'[t].ms = 0
  BY DEF StartsAttempt, NoBinding, CoreInv, SegmentInv, TypeOK, Binding
<1>2. CASE Own(t) # {}
  <2>1. ms = binding[t].ms BY <1>2 DEF StartsAttempt, executionGrantForBinding
  <2>2. binding[t].pending /\ (t \in Policy \/ binding[t].ms > 0) BY <1>2 DEF Own
  <2>3. binding[t].ms <= AttemptMS[t]
    BY <1>1, <2>2, BudgetAssumption DEF Shape, PromiseShape, Standing
  <2> QED BY <1>1, <2>1, <2>3 DEF Spends
<1>3. CASE Own(t) = {}
  BY <1>1, <1>3 DEF StartsAttempt, executionGrantForBinding, Frees
<1> QED BY <1>2, <1>3

\* What one launch adds to the charges of a task and of its group.
LEMMA LaunchCharges ==
  ASSUME CoreInv, Shape, TypeOK', NEW t \in Task, NEW a \in Attempt, NEW n \in 1..MaxSegment,
         NEW ms \in Nat, Launch(<<t, a, n>>, ms), seg[<<t, a, n>>].status = "none", NEW u \in Task
  PROVE  /\ t \in Siblings(u) => GroupCharge(seg', u) <= GroupCharge(seg, u) + ms
         /\ t \notin Siblings(u) => GroupCharge(seg', u) <= GroupCharge(seg, u)
         /\ u = t => chargedTaskActiveMS(seg', u) <= chargedTaskActiveMS(seg, u) + ms
         /\ u # t => chargedTaskActiveMS(seg', u) <= chargedTaskActiveMS(seg, u)
         /\ \A b : IF u = t /\ b = a
                   THEN attemptChargedActiveMS(seg', u, b) <= attemptChargedActiveMS(seg, u, b) + ms
                   ELSE attemptChargedActiveMS(seg', u, b) <= attemptChargedActiveMS(seg, u, b)
<1> DEFINE s == <<t, a, n>>
<1>1. s \in SegmentId /\ s[1] = t /\ s[2] = a BY DEF SegmentId
<1>2. \A A \in SUBSET SegmentId : /\ s \in A => Charged(seg', A) <= Charged(seg, A) + ms
                                  /\ s \notin A => Charged(seg', A) <= Charged(seg, A)
  BY <1>1, ChargesRise DEF CoreInv, Shape
<1> HIDE DEF s
<1> DEFINE G == {r \in SegmentId : r[1] \in Siblings(u)}
           T == {r \in SegmentId : r[1] = u}
           R(b) == {r \in SegmentId : r[1] = u /\ r[2] = b}
<1>3. G \subseteq SegmentId /\ (s \in G <=> t \in Siblings(u)) BY <1>1
<1>4. T \subseteq SegmentId /\ (s \in T <=> u = t) BY <1>1
<1>5. \A b : R(b) \subseteq SegmentId /\ (s \in R(b) <=> u = t /\ b = a) BY <1>1
<1>6. /\ GroupCharge(seg', u) = Charged(seg', G) /\ GroupCharge(seg, u) = Charged(seg, G)
      /\ chargedTaskActiveMS(seg', u) = Charged(seg', T) /\ chargedTaskActiveMS(seg, u) = Charged(seg, T)
      /\ \A b : /\ attemptChargedActiveMS(seg', u, b) = Charged(seg', R(b))
                /\ attemptChargedActiveMS(seg, u, b) = Charged(seg, R(b))
  BY DEF GroupCharge, chargedTaskActiveMS, attemptChargedActiveMS
<1> HIDE DEF G, T, R
<1>7. /\ t \in Siblings(u) => GroupCharge(seg', u) <= GroupCharge(seg, u) + ms
      /\ t \notin Siblings(u) => GroupCharge(seg', u) <= GroupCharge(seg, u)
  BY <1>2, <1>3, <1>6
<1>8. /\ u = t => chargedTaskActiveMS(seg', u) <= chargedTaskActiveMS(seg, u) + ms
      /\ u # t => chargedTaskActiveMS(seg', u) <= chargedTaskActiveMS(seg, u)
  BY <1>2, <1>4, <1>6
<1>9. ASSUME NEW b
      PROVE  IF u = t /\ b = a
             THEN attemptChargedActiveMS(seg', u, b) <= attemptChargedActiveMS(seg, u, b) + ms
             ELSE attemptChargedActiveMS(seg', u, b) <= attemptChargedActiveMS(seg, u, b)
  BY <1>2, <1>5, <1>6
<1> QED BY <1>7, <1>8, <1>9

\* An attempt that does not exist yet costs nothing.
LEMMA NoAttemptNoCharge ==
  ASSUME CoreInv, Shape, NEW t \in Task, NEW a \in Attempt, attempt[t][a] = "none"
  PROVE  attemptChargedActiveMS(seg, t, a) = 0
<1> USE DEF CoreInv, SegmentInv
<1> DEFINE R == {r \in SegmentId : r[1] = t /\ r[2] = a}
<1>1. \A r \in R : seg[r].status = "none" BY DEF AttemptKnown
<1>2. \A r \in R : Cost(seg)[r] = 0
  <2>1. ASSUME NEW r \in R PROVE Cost(seg)[r] = 0
    <3>1. seg[r].status = "none" /\ seg[r].granted = 0 BY <1>1 DEF Shape, Fresh
    <3>2. seg[r].budget # "settled" BY <3>1 DEF Sound, TerminalStatus
    <3> QED BY <3>1, <3>2 DEF Cost, Charge
  <2> QED BY <2>1
<1>3. Cost(seg) \in [SegmentId -> Nat] BY CostType DEF TypeOK
<1>4. IsFiniteSet(R) /\ R \subseteq SegmentId BY SegmentsFinite, FS_Subset
<1>5. SumFunctionOnSet(Cost(seg), R) = 0
  <2> HIDE DEF Cost, R
  <2> QED BY <1>2, <1>3, <1>4, SumZero
<1> QED BY <1>5, ChargedIs DEF attemptChargedActiveMS
\* A claim: what it launches and what it takes the grant from.
Claims(t, a, n, ms) == (StartsAttempt(t, a, ms) /\ n = 1) \/ StartsResumed(t, a, n, ms)

LEMMA ClaimTakes ==
  ASSUME CoreInv, Shape, NEW t \in Task, NEW a \in Attempt, NEW n \in 1..MaxSegment, NEW ms \in Nat,
         Claims(t, a, n, ms)
  PROVE  /\ Launch(<<t, a, n>>, ms) /\ seg[<<t, a, n>>].status = "none"
         /\ \A v \in Task \ {t} : Keeps(v)
         /\ binding'[t].ms <= binding[t].ms
         /\ \/ Spends(t, ms)
            \/ /\ ms <= GroupMS[t] - GroupCharge(seg, t) - pendingActiveHolds(Siblings(t), {})
               /\ t \in Policy =>
                    ms <= TaskMS[t] - chargedTaskActiveMS(seg, t) - pendingActiveHolds({t}, {})
         /\ ms <= AttemptMS[t] - attemptChargedActiveMS(seg, t, a)
<1> USE DEF CoreInv, SegmentInv
<1>1. Launch(<<t, a, n>>, ms) /\ \A v \in Task \ {t} : Keeps(v)
  BY DEF Claims, StartsAttempt, StartsResumed, Starts
<1>2. <<t, a, n>> \in SegmentId BY DEF SegmentId
<1>3. binding[t].ms \in Nat /\ AttemptMS[t] \in Nat BY LedgerType
<1>4. seg \in [SegmentId -> SegmentRecord] BY DEF TypeOK
<1>5. CASE StartsAttempt(t, a, ms)
  <2>1. attempt[t][a] = "none"
    BY <1>5 DEF StartsAttempt, nextTaskAttemptOrdinal, Attempt
  <2>2. seg[<<t, a, n>>].status = "none" BY <1>2, <2>1 DEF AttemptKnown
  <2>3. attemptChargedActiveMS(seg, t, a) = 0 BY <2>1, NoAttemptNoCharge
  <2>4. binding'[t].ms <= binding[t].ms BY <1>3, <1>5 DEF StartsAttempt, NoBinding
  <2>5. CASE Spends(t, ms) BY <1>1, <1>3, <2>2, <2>3, <2>4, <2>5 DEF Spends
  <2>6. CASE Frees(t, {}, ms)
    <3>1. ms = Allowance(seg, t, {}, {}) BY <2>6 DEF Frees
    <3>2. /\ ms <= GroupMS[t] - GroupCharge(seg, t) - pendingActiveHolds(Siblings(t), {})
          /\ t \in Policy =>
               ms <= TaskMS[t] - chargedTaskActiveMS(seg, t) - pendingActiveHolds({t}, {})
          /\ ms <= AttemptMS[t]
      BY <1>4, <3>1, AllowanceIs
    <3> QED BY <1>1, <1>3, <2>2, <2>3, <2>4, <3>2
  <2> QED BY <1>5, <2>5, <2>6, StartSpends
<1>6. CASE StartsResumed(t, a, n, ms)
  <2>1. NextSegment(t, a, n) /\ Keeps(t) /\ Own(t) = {} /\ ms = executionGrantForBinding(t, {a})
    BY <1>6 DEF StartsResumed
  <2>2. seg[<<t, a, n>>].status = "none" BY <2>1 DEF NextSegment
  <2>3. ms = Allowance(seg, t, {a}, {}) BY <2>1 DEF executionGrantForBinding
  <2>4. /\ ms <= GroupMS[t] - GroupCharge(seg, t) - pendingActiveHolds(Siblings(t), {})
        /\ t \in Policy =>
             ms <= TaskMS[t] - chargedTaskActiveMS(seg, t) - pendingActiveHolds({t}, {})
        /\ \A b \in {a} : ms <= AttemptMS[t] - attemptChargedActiveMS(seg, t, b)
    <3>1. {a} = {} \/ \E b : {a} = {b} OBVIOUS
    <3> QED BY <1>4, <2>3, <3>1, AllowanceIs
  <2> QED BY <1>1, <2>1, <2>2, <2>4, KeepsTime
<1> QED BY <1>5, <1>6 DEF Claims

LEMMA ClaimTimeKept ==
  ASSUME CoreInv, Shape, TypeOK', Kept, NEW t \in Task, NEW a \in Attempt, NEW n \in 1..MaxSegment,
         NEW ms \in Nat, Claims(t, a, n, ms), NEW u \in Task
  PROVE  /\ GroupCharge(seg', u) + pendingActiveHolds(Siblings(u), {})' <= GroupMS[u]
         /\ u \in Policy =>
              chargedTaskActiveMS(seg', u) + pendingActiveHolds({u}, {})' <= TaskMS[u]
         /\ \A b \in Attempt : attemptChargedActiveMS(seg', u, b) <= AttemptMS[u]
<1> USE DEF CoreInv, SegmentInv
<1>1. /\ Launch(<<t, a, n>>, ms) /\ seg[<<t, a, n>>].status = "none"
      /\ \A v \in Task \ {t} : Keeps(v)
      /\ binding'[t].ms <= binding[t].ms
      /\ \/ Spends(t, ms)
         \/ /\ ms <= GroupMS[t] - GroupCharge(seg, t) - pendingActiveHolds(Siblings(t), {})
            /\ t \in Policy =>
                 ms <= TaskMS[t] - chargedTaskActiveMS(seg, t) - pendingActiveHolds({t}, {})
      /\ ms <= AttemptMS[t] - attemptChargedActiveMS(seg, t, a)
  BY ClaimTakes
<1>2. /\ t \in Siblings(u) => GroupCharge(seg', u) <= GroupCharge(seg, u) + ms
      /\ t \notin Siblings(u) => GroupCharge(seg', u) <= GroupCharge(seg, u)
      /\ u = t => chargedTaskActiveMS(seg', u) <= chargedTaskActiveMS(seg, u) + ms
      /\ u # t => chargedTaskActiveMS(seg', u) <= chargedTaskActiveMS(seg, u)
      /\ \A b : IF u = t /\ b = a
                THEN attemptChargedActiveMS(seg', u, b) <= attemptChargedActiveMS(seg, u, b) + ms
                ELSE attemptChargedActiveMS(seg', u, b) <= attemptChargedActiveMS(seg, u, b)
  BY <1>1, LaunchCharges
<1>3. /\ GroupCharge(seg', u) \in Nat /\ GroupCharge(seg, u) \in Nat
      /\ chargedTaskActiveMS(seg', u) \in Nat /\ chargedTaskActiveMS(seg, u) \in Nat
      /\ \A b : attemptChargedActiveMS(seg', u, b) \in Nat /\ attemptChargedActiveMS(seg, u, b) \in Nat
      /\ GroupMS[u] \in Nat /\ TaskMS[u] \in Nat /\ AttemptMS[u] \in Nat
  BY LedgerType, LedgerNext
<1>4. /\ pendingActiveHolds(Siblings(u), {})' \in Nat /\ pendingActiveHolds(Siblings(u), {}) \in Nat
      /\ pendingActiveHolds({u}, {})' \in Nat /\ pendingActiveHolds({u}, {}) \in Nat
  BY LedgerType, LedgerNext
<1>5. binding[t].ms \in Nat /\ binding'[t].ms \in Nat BY DEF TypeOK, Binding
<1>6. ASSUME NEW b \in Attempt PROVE attemptChargedActiveMS(seg', u, b) <= AttemptMS[u]
  <2>1. attemptChargedActiveMS(seg, u, b) <= AttemptMS[u] BY KeptOf
  <2>2. CASE u = t /\ b = a
    <3>1. attemptChargedActiveMS(seg', u, b) <= attemptChargedActiveMS(seg, u, b) + ms BY <1>2, <2>2
    <3>2. ms <= AttemptMS[u] - attemptChargedActiveMS(seg, u, b) BY <1>1, <2>2
    <3> QED BY <1>3, <3>1, <3>2
  <2>3. CASE ~(u = t /\ b = a)
    <3>1. attemptChargedActiveMS(seg', u, b) <= attemptChargedActiveMS(seg, u, b) BY <1>2, <2>3
    <3> QED BY <1>3, <2>1, <3>1
  <2> QED BY <2>2, <2>3
<1>7. GroupCharge(seg', u) + pendingActiveHolds(Siblings(u), {})' <= GroupMS[u]
  <2>1. GroupCharge(seg, u) + pendingActiveHolds(Siblings(u), {}) <= GroupMS[u] BY KeptOf
  <2>2. Siblings(u) \subseteq Task /\ \A v \in Siblings(u) \ {t} : Keeps(v) BY <1>1, SiblingsFinite
  <2>3. /\ t \in Siblings(u) => pendingActiveHolds(Siblings(u), {})'
              <= pendingActiveHolds(Siblings(u), {}) + binding'[t].ms - binding[t].ms
        /\ t \notin Siblings(u) =>
             pendingActiveHolds(Siblings(u), {})' <= pendingActiveHolds(Siblings(u), {})
    BY <2>2, HoldsStep
  <2>4. CASE t \notin Siblings(u) BY <1>2, <1>3, <1>4, <2>1, <2>3, <2>4
  <2>5. CASE t \in Siblings(u)
    <3>1. /\ GroupCharge(seg, u) = GroupCharge(seg, t) /\ GroupMS[u] = GroupMS[t]
          /\ pendingActiveHolds(Siblings(u), {}) = pendingActiveHolds(Siblings(t), {})
      BY <2>5, SameLedger
    <3>2. \/ binding'[t].ms + ms <= binding[t].ms
          \/ ms <= GroupMS[u] - GroupCharge(seg, u) - pendingActiveHolds(Siblings(u), {})
      BY <1>1, <3>1 DEF Spends
    <3>3. /\ GroupCharge(seg', u) <= GroupCharge(seg, u) + ms
          /\ pendingActiveHolds(Siblings(u), {})'
               <= pendingActiveHolds(Siblings(u), {}) + binding'[t].ms - binding[t].ms
          /\ binding'[t].ms <= binding[t].ms
      BY <1>1, <1>2, <2>3, <2>5
    <3> QED BY <1>3, <1>4, <1>5, <2>1, <3>2, <3>3
  <2> QED BY <2>4, <2>5
<1>8. ASSUME u \in Policy
      PROVE  chargedTaskActiveMS(seg', u) + pendingActiveHolds({u}, {})' <= TaskMS[u]
  <2>1. chargedTaskActiveMS(seg, u) + pendingActiveHolds({u}, {}) <= TaskMS[u] BY <1>8, KeptOf
  <2>2. CASE u # t
    <3>1. \A v \in {u} : Keeps(v) BY <1>1, <2>2
    <3>2. pendingActiveHolds({u}, {})' <= pendingActiveHolds({u}, {}) BY <3>1, HoldsFall
    <3> QED BY <1>2, <1>3, <1>4, <2>1, <2>2, <3>2
  <2>3. CASE u = t
    <3>1. \A v \in {u} \ {t} : Keeps(v) BY <2>3
    <3>2. pendingActiveHolds({u}, {})'
            <= pendingActiveHolds({u}, {}) + binding'[t].ms - binding[t].ms
      BY <2>3, <3>1, HoldsStep
    <3>3. \/ binding'[t].ms + ms <= binding[t].ms
          \/ ms <= TaskMS[u] - chargedTaskActiveMS(seg, u) - pendingActiveHolds({u}, {})
      BY <1>1, <1>8, <2>3 DEF Spends
    <3>4. chargedTaskActiveMS(seg', u) <= chargedTaskActiveMS(seg, u) + ms
          /\ binding'[t].ms <= binding[t].ms
      BY <1>1, <1>2, <2>3
    <3> QED BY <1>3, <1>4, <1>5, <2>1, <3>2, <3>3, <3>4
  <2> QED BY <2>2, <2>3
<1> QED BY <1>6, <1>7, <1>8

LEMMA ClaimAttemptsKept ==
  ASSUME CoreInv, Shape, TypeOK', Kept, NEW t \in Task, NEW a \in Attempt, NEW n \in 1..MaxSegment,
         NEW ms \in Nat, Claims(t, a, n, ms), NEW u \in Task
  PROVE  /\ GroupAttemptsOf(u)' + Cardinality(Holding(u)') <= GroupAttempts[u]
         /\ u \in Policy => AttemptsOf(u)' + Cardinality(Holding(u)' \cap {u}) <= TaskAttempts[u]
<1> USE DEF CoreInv, SegmentInv
<1>1. \A v \in Task \ {t} : Keeps(v) BY ClaimTakes
<1>2. /\ GroupAttemptsOf(u) + Cardinality(Holding(u)) <= GroupAttempts[u]
      /\ u \in Policy => AttemptsOf(u) + Cardinality(Holding(u) \cap {u}) <= TaskAttempts[u]
  BY KeptOf
<1>3. /\ GroupAttemptsOf(u) \in Nat /\ GroupAttempts[u] \in Nat
      /\ Cardinality(Holding(u)') \in Nat /\ Cardinality(Holding(u)) \in Nat
  BY LedgerType, LedgerNext
<1>4. /\ AttemptsOf(u) \in Nat /\ TaskAttempts[u] \in Nat
      /\ Cardinality(Holding(u)' \cap {u}) \in Nat /\ Cardinality(Holding(u) \cap {u}) \in Nat
  BY LedgerType, LedgerNext
<1>5. /\ t \notin Siblings(u) \/ Keeps(t) => Cardinality(Holding(u)') <= Cardinality(Holding(u))
      /\ u # t \/ Keeps(t) =>
           Cardinality(Holding(u)' \cap {u}) <= Cardinality(Holding(u) \cap {u})
      /\ ~binding'[t].pending =>
           /\ Cardinality(Holding(u)') <= Cardinality(Holding(u) \ {t})
           /\ Cardinality(Holding(u)' \cap {u}) <= Cardinality((Holding(u) \ {t}) \cap {u})
  BY <1>1, HoldingCount
<1>6. CASE StartsResumed(t, a, n, ms)
  <2>1. Keeps(t) BY <1>6 DEF StartsResumed
  <2>2. Recorded BY <1>6, AttemptStarts
  <2>3. AttemptsOf(u)' = AttemptsOf(u) /\ GroupAttemptsOf(u)' = GroupAttemptsOf(u)
    BY <2>2, AttemptsRecorded
  <2> QED BY <1>2, <1>3, <1>4, <1>5, <2>1, <2>3
<1>7. CASE StartsAttempt(t, a, ms)
  <2>1. ~binding'[t].pending /\ executionCapacity(t, Own(t))
    BY <1>7 DEF StartsAttempt, NoBinding, AtAttemptLimit
  <2>2. /\ GroupAttemptsOf(t) + Cardinality(Holding(t) \ Own(t)) < GroupAttempts[t]
        /\ t \in Policy =>
             AttemptsOf(t) + Cardinality((Holding(t) \ Own(t)) \cap {t}) < TaskAttempts[t]
    BY <2>1, CapacityIs DEF Shape
  <2>3. /\ Cardinality(Holding(t) \ {t}) <= Cardinality(Holding(t) \ Own(t))
        /\ Cardinality((Holding(t) \ {t}) \cap {t}) <= Cardinality((Holding(t) \ Own(t)) \cap {t})
        /\ Cardinality(Holding(t) \ {t}) \in Nat /\ Cardinality(Holding(t) \ Own(t)) \in Nat
        /\ Cardinality((Holding(t) \ {t}) \cap {t}) \in Nat
        /\ Cardinality((Holding(t) \ Own(t)) \cap {t}) \in Nat
    <3>1. Own(t) \subseteq {t} BY DEF Own
    <3>2. /\ Holding(t) \ {t} \subseteq Holding(t) \ Own(t)
          /\ (Holding(t) \ {t}) \cap {t} \subseteq (Holding(t) \ Own(t)) \cap {t}
      BY <3>1
    <3>3. IsFiniteSet(Holding(t) \ Own(t)) BY HoldingFinite
    <3>4. IsFiniteSet((Holding(t) \ Own(t)) \cap {t}) BY <3>3, FS_Subset
    <3> QED BY <3>2, <3>3, <3>4, FS_Subset, FS_CardinalityType
  <2>4. /\ AttemptsOf(t)' = AttemptsOf(t) + 1
        /\ u # t => AttemptsOf(u)' = AttemptsOf(u)
        /\ t \in Siblings(u) => GroupAttemptsOf(u)' <= GroupAttemptsOf(u) + 1
        /\ t \notin Siblings(u) => GroupAttemptsOf(u)' <= GroupAttemptsOf(u)
    BY <1>7, AttemptsRise
  <2>5. GroupAttemptsOf(u)' \in Nat BY GroupAttemptsNext
  <2>6. GroupAttemptsOf(u)' + Cardinality(Holding(u)') <= GroupAttempts[u]
    <3>1. CASE t \notin Siblings(u) BY <1>2, <1>3, <1>5, <2>4, <2>5, <3>1
    <3>2. CASE t \in Siblings(u)
      <4>1. /\ GroupAttemptsOf(u) = GroupAttemptsOf(t) /\ Holding(u) = Holding(t)
            /\ GroupAttempts[u] = GroupAttempts[t]
        BY <3>2, SameLedger
      <4>2. /\ GroupAttemptsOf(u) + Cardinality(Holding(t) \ Own(t)) < GroupAttempts[u]
            /\ Cardinality(Holding(u)') <= Cardinality(Holding(t) \ {t})
            /\ GroupAttemptsOf(u)' <= GroupAttemptsOf(u) + 1
        BY <1>5, <2>1, <2>2, <2>4, <3>2, <4>1
      <4> QED BY <1>3, <2>3, <2>5, <4>2
    <3> QED BY <3>1, <3>2
  <2>7. ASSUME u \in Policy
        PROVE  AttemptsOf(u)' + Cardinality(Holding(u)' \cap {u}) <= TaskAttempts[u]
    <3>1. CASE u # t BY <1>2, <1>4, <1>5, <2>4, <2>7, <3>1
    <3>2. CASE u = t
      <4>1. /\ AttemptsOf(u) + Cardinality((Holding(t) \ Own(t)) \cap {t}) < TaskAttempts[u]
            /\ Cardinality(Holding(u)' \cap {u}) <= Cardinality((Holding(t) \ {t}) \cap {t})
            /\ AttemptsOf(u)' = AttemptsOf(u) + 1
        BY <1>5, <2>1, <2>2, <2>4, <2>7, <3>2
      <4> QED BY <1>4, <2>3, <4>1
    <3> QED BY <3>1, <3>2
  <2> QED BY <2>6, <2>7
<1> QED BY <1>6, <1>7 DEF Claims

\* A claim turns a promise, or what is free, into one charge.
LEMMA ClaimKept ==
  ASSUME CoreInv, Shape, TypeOK', Kept, NEW t \in Task, NEW a \in Attempt, NEW n \in 1..MaxSegment,
         NEW ms \in Nat, Claims(t, a, n, ms)
  PROVE  Kept'
<1>1. \A u \in Task : KeptNext(u) BY ClaimTimeKept, ClaimAttemptsKept DEF KeptNext
<1> QED BY <1>1, KeptFrom
-----------------------------------------------------------------------------
(* The concurrency caps. *)

LEMMA CapsFall ==
  ASSUME CapsRespected, ActiveSegments' \subseteq ActiveSegments PROVE CapsRespected'
<1>1. IsFiniteSet(ActiveSegments) BY SegmentsFinite, FS_Subset DEF ActiveSegments
<1>2. Cardinality(ActiveSegments') <= Cardinality(ActiveSegments)
      /\ Cardinality(ActiveSegments') \in Nat /\ Cardinality(ActiveSegments) \in Nat
  BY <1>1, FS_Subset, FS_CardinalityType
<1>3. Cardinality(ActiveSegments') <= Slots BY <1>2, BoundsAssumption DEF CapsRespected
<1>4. ASSUME NEW k \in DOMAIN KeyLimit PROVE Occupancy(k)' <= KeyLimit[k]
  <2> DEFINE S == {s \in ActiveSegments : k \in KeysOf[s[1]]}
             T == {s \in ActiveSegments' : k \in KeysOf[s[1]]}
  <2>1. T \subseteq S /\ IsFiniteSet(S) BY <1>1, FS_Subset
  <2>2. Cardinality(T) <= Cardinality(S) /\ Cardinality(T) \in Nat /\ Cardinality(S) \in Nat
    <3> HIDE DEF S, T
    <3> QED BY <2>1, FS_Subset, FS_CardinalityType
  <2>3. Cardinality(S) <= KeyLimit[k] BY DEF CapsRespected, Occupancy
  <2>4. Occupancy(k)' = Cardinality(T) BY DEF Occupancy
  <2> HIDE DEF S, T
  <2> QED BY <2>2, <2>3, <2>4, CapAssumption
<1> QED BY <1>3, <1>4 DEF CapsRespected

LEMMA CapsLaunch ==
  ASSUME TypeOK, CapsRespected, NEW t \in Task, NEW a \in Attempt, NEW n \in 1..MaxSegment,
         NEW ms, Starts(t, a, n, ms)
  PROVE  CapsRespected'
<1> DEFINE s == <<t, a, n>>
<1>1. /\ seg' = [seg EXCEPT ![s] = Granted(ms)]
      /\ Cardinality(ActiveSegments) < Slots /\ ~Deferred(t)
  BY DEF Starts, Launch
<1>2. s \in SegmentId /\ s[1] = t BY DEF SegmentId
<1>3. ActiveSegments' \subseteq ActiveSegments \cup {s}
  BY <1>1, <1>2 DEF ActiveSegments, TypeOK
<1> HIDE DEF s
<1>4. IsFiniteSet(ActiveSegments) BY SegmentsFinite, FS_Subset DEF ActiveSegments
<1>5. ASSUME NEW S, IsFiniteSet(S), NEW T, T \subseteq S \cup {s}
      PROVE  Cardinality(T) <= Cardinality(S) + 1 /\ Cardinality(T) \in Nat /\ Cardinality(S) \in Nat
  <2>0. Cardinality(S) \in Nat BY <1>5, FS_CardinalityType
  <2>1. IsFiniteSet(S \cup {s}) /\ Cardinality(S \cup {s}) <= Cardinality(S) + 1
    <3>1. /\ IsFiniteSet(S \cup {s})
          /\ Cardinality(S \cup {s}) = IF s \in S THEN Cardinality(S) ELSE Cardinality(S) + 1
      BY <1>5, FS_AddElement
    <3> QED BY <2>0, <3>1
  <2>2. Cardinality(T) <= Cardinality(S \cup {s}) /\ IsFiniteSet(T) BY <1>5, <2>1, FS_Subset
  <2> QED BY <2>0, <2>1, <2>2, FS_CardinalityType
<1>6. Cardinality(ActiveSegments') <= Slots
  <2>1. /\ Cardinality(ActiveSegments') <= Cardinality(ActiveSegments) + 1
        /\ Cardinality(ActiveSegments') \in Nat /\ Cardinality(ActiveSegments) \in Nat
    BY <1>3, <1>4, <1>5
  <2> QED BY <1>1, <2>1, BoundsAssumption
<1>7. ASSUME NEW k \in DOMAIN KeyLimit PROVE Occupancy(k)' <= KeyLimit[k]
  <2> DEFINE S == {r \in ActiveSegments : k \in KeysOf[r[1]]}
             T == {r \in ActiveSegments' : k \in KeysOf[r[1]]}
  <2>1. Occupancy(k) = Cardinality(S) /\ Occupancy(k)' = Cardinality(T) BY DEF Occupancy
  <2>2. IsFiniteSet(S) BY <1>4, FS_Subset
  <2>3. Cardinality(S) <= KeyLimit[k] BY <2>1 DEF CapsRespected
  <2>4. CASE k \in KeysOf[t]
    <3>1. T \subseteq S \cup {s} BY <1>3
    <3>2. Cardinality(T) <= Cardinality(S) + 1 /\ Cardinality(T) \in Nat /\ Cardinality(S) \in Nat
      <4> HIDE DEF S, T
      <4> QED BY <1>5, <2>2, <3>1
    <3>3. ~(Cardinality(S) >= KeyLimit[k]) BY <1>1, <2>1, <2>4 DEF Deferred
    <3> HIDE DEF S, T
    <3> QED BY <2>1, <3>2, <3>3, CapAssumption
  <2>5. CASE k \notin KeysOf[t]
    <3>1. T \subseteq S BY <1>2, <1>3, <2>5
    <3>2. Cardinality(T) <= Cardinality(S) /\ Cardinality(T) \in Nat /\ Cardinality(S) \in Nat
      <4> HIDE DEF S, T
      <4> QED BY <2>2, <3>1, FS_Subset, FS_CardinalityType
    <3> HIDE DEF S, T
    <3> QED BY <2>1, <2>3, <3>2, CapAssumption
  <2> QED BY <2>4, <2>5
<1> QED BY <1>6, <1>7 DEF CapsRespected

LEMMA CapsCosts == ASSUME CapsRespected, CostsFall({}) PROVE CapsRespected'
<1>1. ActiveSegments' \subseteq ActiveSegments BY DEF CostsFall, ActiveSegments, Act
<1> QED BY <1>1, CapsFall

-----------------------------------------------------------------------------
(* The invariant of the ledger. *)

LEMMA BudgetStep ==
  ASSUME CoreInv, TypeOK', Shape, Kept, CapsRespected, [Next]_vars
  PROVE  Shape' /\ Kept' /\ CapsRespected'
<1> USE DEF CoreInv, SegmentInv
<1>1. Shape' BY ShapeStep
<1>2. CASE Falls
  <2>1. Kept' BY <1>2, FallsKept
  <2> QED BY <1>1, <1>2, <2>1, CapsCosts DEF Falls
<1>3. ASSUME NEW t \in Task, NEW a \in Attempt, NEW ms \in Nat, Promising(t, a, ms)
      PROVE  Kept' /\ CapsRespected'
  <2>1. Kept' BY <1>3, PromisingKept
  <2> QED BY <1>3, <2>1, CapsCosts DEF Promising
<1>4. ASSUME NEW t \in Task, NEW a \in Attempt, NEW n \in 1..MaxSegment, NEW ms \in Nat,
             Claims(t, a, n, ms)
      PROVE  Kept' /\ CapsRespected'
  <2>1. Kept' BY <1>4, ClaimKept
  <2>2. Starts(t, a, n, ms) BY <1>4 DEF Claims, StartsAttempt, StartsResumed
  <2> QED BY <2>1, <2>2, CapsLaunch
<1>5. 1 \in 1..MaxSegment BY BoundsAssumption
<1> QED BY <1>1, <1>2, <1>3, <1>4, <1>5, LedgerStep DEF Claims, Shape

LEMMA BudgetInit == ASSUME Init PROVE Shape /\ Kept /\ CapsRespected
<1>1. TypeOK BY InitType
<1>2. Shape BY DEF Init, Shape, Contiguous, PromiseShape, Standing, Fresh, NoSegment, NoBinding
<1>3. \A A \in SUBSET SegmentId : Charged(seg, A) = 0
  <2>1. Cost(seg) \in [SegmentId -> Nat] BY <1>1, CostType DEF TypeOK
  <2>2. \A s \in SegmentId : Cost(seg)[s] = 0 BY DEF Init, Cost, Charge, NoSegment
  <2>3. ASSUME NEW A \in SUBSET SegmentId PROVE SumFunctionOnSet(Cost(seg), A) = 0
    <3>1. IsFiniteSet(A) BY SegmentsFinite, FS_Subset
    <3> HIDE DEF Cost
    <3> QED BY <2>1, <2>2, <3>1, SumZero
  <2> QED BY <2>3, ChargedIs
<1>4. \A S \in SUBSET Task : pendingActiveHolds(S, {}) = 0
  <2>1. Promised \in [Task -> Nat] BY <1>1, PromisedType
  <2>2. \A u \in Task : Promised[u] = 0 BY DEF Init, Promised, NoBinding
  <2>3. ASSUME NEW S \in SUBSET Task PROVE SumFunctionOnSet(Promised, S) = 0
    <3>1. IsFiniteSet(S) BY PlanAssumption, FS_Subset
    <3> HIDE DEF Promised
    <3> QED BY <2>1, <2>2, <3>1, SumZero
  <2> QED BY <2>3, NothingLeftOut
<1>5. \A t \in Task : AttemptsOf(t) = 0
  <2>1. ASSUME NEW t \in Task PROVE AttemptsOf(t) = 0
    <3>1. {a \in Attempt : attempt[t][a] # "none"} = {} BY DEF Init
    <3> QED BY <3>1, FS_EmptySet DEF AttemptsOf
  <2> QED BY <2>1
<1>6. \A t \in Task : GroupAttemptsOf(t) = 0
  <2>1. ASSUME NEW t \in Task PROVE GroupAttemptsOf(t) = 0
    <3>1. UsedUp \in [Task -> Nat] BY UsedUpType
    <3>2. \A u \in Siblings(t) : UsedUp[u] = 0 BY <1>5, SiblingsFinite DEF UsedUp
    <3>3. GroupAttemptsOf(t) = SumFunctionOnSet(UsedUp, Siblings(t)) BY DEF GroupAttemptsOf, UsedUp
    <3> HIDE DEF UsedUp
    <3> QED BY <3>1, <3>2, <3>3, SiblingsFinite, SumZero
  <2> QED BY <2>1
<1>7. \A t : Holding(t) = {} /\ Holding(t) \cap {t} = {} /\ Cardinality({}) = 0
  BY FS_EmptySet, SiblingsFinite DEF Init, Holding, NoBinding
<1>8. Kept
  <2>1. GroupTimeKept
    <3>1. \A t \in Task : GroupCharge(seg, t) = 0 BY <1>3 DEF GroupCharge
    <3>2. \A t \in Task : pendingActiveHolds(Siblings(t), {}) = 0 BY <1>4, SiblingsFinite
    <3> QED BY <3>1, <3>2, BudgetAssumption DEF GroupTimeKept
  <2>2. GroupAttemptsKept BY <1>6, <1>7, BudgetAssumption DEF GroupAttemptsKept
  <2>3. TaskTimeKept
    <3>1. \A t \in Task : chargedTaskActiveMS(seg, t) = 0 BY <1>3 DEF chargedTaskActiveMS
    <3>2. \A t \in Task : pendingActiveHolds({t}, {}) = 0 BY <1>4
    <3> QED BY <3>1, <3>2, BudgetAssumption, PlanAssumption DEF TaskTimeKept
  <2>4. TaskAttemptsKept
    <3>1. ASSUME NEW t \in Policy
          PROVE  AttemptsOf(t) + Cardinality(Holding(t) \cap {t}) <= TaskAttempts[t]
      <4>1. t \in Task /\ TaskAttempts[t] \in Nat BY PlanAssumption, BudgetAssumption
      <4>2. Cardinality(Holding(t) \cap {t}) = 0 BY <1>7
      <4> QED BY <1>5, <4>1, <4>2
    <3> QED BY <3>1 DEF TaskAttemptsKept
  <2>5. AttemptTimeKept
    <3>1. \A t \in Task, a \in Attempt : attemptChargedActiveMS(seg, t, a) = 0
      BY <1>3 DEF attemptChargedActiveMS
    <3> QED BY <3>1, BudgetAssumption DEF AttemptTimeKept
  <2> QED BY <2>1, <2>2, <2>3, <2>4, <2>5 DEF Kept
<1>9. CapsRespected
  <2>1. ActiveSegments = {} BY DEF Init, ActiveSegments, NoSegment, ActiveStatus
  <2>2. \A k : Occupancy(k) = 0 /\ Cardinality({}) = 0 BY <2>1, FS_EmptySet DEF Occupancy
  <2> QED BY <2>1, <2>2, BoundsAssumption, CapAssumption DEF CapsRespected
<1> QED BY <1>2, <1>8, <1>9

LEMMA BudgetInvariant == Spec => []BudgetInv
<1>1. Init => Shape /\ Kept /\ CapsRespected BY BudgetInit
<1>2. CoreInv /\ CoreInv' /\ (Shape /\ Kept /\ CapsRespected) /\ [Next]_vars
        => (Shape /\ Kept /\ CapsRespected)'
  <2>1. CoreInv' => TypeOK' BY DEF CoreInv, SegmentInv
  <2> QED BY <2>1, BudgetStep
<1> QED BY <1>1, <1>2, CoreInvariant, PTL DEF Spec, BudgetInv

\* The global, provider and workspace caps hold, and neither the active time
\* nor the attempts of a group, a task or an attempt, with what is promised to
\* pending retries, ever exceed their budget.
THEOREM LimitsAlwaysRespected == Spec => []LimitsRespected
<1>1. BudgetInv => LimitsRespected
  <2> SUFFICES ASSUME BudgetInv PROVE LimitsRespected OBVIOUS
  <2> USE DEF BudgetInv, CoreInv, SegmentInv
  <2>1. ASSUME NEW t \in Task PROVE GroupWithinBudget(t)
    <3>1. /\ GroupCharge(seg, t) + pendingActiveHolds(Siblings(t), {}) <= GroupMS[t]
          /\ GroupAttemptsOf(t) + Cardinality(Holding(t)) <= GroupAttempts[t]
      BY KeptOf
    <3>2. /\ GroupAttemptsOf(t) \in Nat /\ Cardinality(Holding(t)) \in Nat
          /\ GroupAttempts[t] \in Nat
      BY LedgerType
    <3> QED BY <3>1, <3>2 DEF GroupWithinBudget
  <2>2. ASSUME NEW t \in Policy PROVE TaskWithinBudget(t)
    <3>0. t \in Task BY PlanAssumption
    <3>1. /\ chargedTaskActiveMS(seg, t) + pendingActiveHolds({t}, {}) <= TaskMS[t]
          /\ AttemptsOf(t) + Cardinality(Holding(t) \cap {t}) <= TaskAttempts[t]
      BY <3>0, KeptOf
    <3>2. /\ AttemptsOf(t) \in Nat /\ Cardinality(Holding(t) \cap {t}) \in Nat
          /\ TaskAttempts[t] \in Nat
      BY <3>0, LedgerType
    <3> QED BY <3>1, <3>2 DEF TaskWithinBudget
  <2>3. \A t \in Task, a \in Attempt : attemptChargedActiveMS(seg, t, a) <= AttemptMS[t]
    BY DEF Kept, AttemptTimeKept
  <2> QED BY <2>1, <2>2, <2>3 DEF LimitsRespected
<1> QED BY <1>1, BudgetInvariant, PTL

\* Without the promise of t itself its group is promised that much less.
LEMMA OwnPromise ==
  ASSUME TypeOK, NEW t \in Task, NEW S, S \subseteq Task, t \in S
  PROVE  pendingActiveHolds(S, {}) = binding[t].ms + pendingActiveHolds(S, {t})
<1>1. Promised \in [Task -> Nat] /\ IsFiniteSet(S) BY PromisedType, PlanAssumption, FS_Subset
<1>2. Promised[t] = binding[t].ms BY DEF Promised
<1>3. SumFunctionOnSet(Promised, S) = Promised[t] + SumFunctionOnSet(Promised, S \ {t})
  <2> HIDE DEF Promised
  <2> QED BY <1>1, SumTake
<1> QED BY <1>2, <1>3, NothingLeftOut, HoldsIs

\* A pending retry of a policy task can be dispatched when it comes due: no
\* claim, retry or event since has used the attempt or the time it was promised.
THEOREM PromisesAlwaysKept == Spec => []PromiseKept
<1>1. BudgetInv => PromiseKept
  <2> SUFFICES ASSUME BudgetInv, NEW t \in Policy, binding[t].pending
               PROVE  /\ status[t] = "ready" /\ nextTaskAttemptOrdinal(t, binding[t].promise)
                      /\ ~AtAttemptLimit(t) /\ ~GrantConflict(t)
    BY DEF PromiseKept
  <2> USE DEF BudgetInv, CoreInv, SegmentInv, Shape
  <2>1. t \in Task BY PlanAssumption
  <2>2. /\ status[t] = "ready" /\ nextTaskAttemptOrdinal(t, binding[t].promise)
        /\ binding[t].ms \in 1..SegmentMS[t] /\ binding[t].ms <= AttemptMS[t]
    BY <2>1 DEF PromiseShape, Standing
  <2>3. Own(t) = {t} BY <2>2 DEF Own
  <2>4. /\ GroupCharge(seg, t) + pendingActiveHolds(Siblings(t), {}) <= GroupMS[t]
        /\ GroupAttemptsOf(t) + Cardinality(Holding(t)) <= GroupAttempts[t]
        /\ chargedTaskActiveMS(seg, t) + pendingActiveHolds({t}, {}) <= TaskMS[t]
        /\ AttemptsOf(t) + Cardinality(Holding(t) \cap {t}) <= TaskAttempts[t]
    BY <2>1, KeptOf
  <2>5. /\ GroupCharge(seg, t) \in Nat /\ chargedTaskActiveMS(seg, t) \in Nat
        /\ GroupAttemptsOf(t) \in Nat /\ AttemptsOf(t) \in Nat
        /\ binding[t].ms \in Nat
        /\ GroupMS[t] \in Nat /\ TaskMS[t] \in Nat /\ AttemptMS[t] \in Nat
        /\ GroupAttempts[t] \in Nat /\ TaskAttempts[t] \in Nat /\ SegmentMS[t] \in Nat
    BY <2>1, LedgerType, BudgetAssumption
  <2>6. executionCapacity(t, {t})
    <3>1. t \in Holding(t) BY <2>1 DEF Holding, Siblings
    <3>2. IsFiniteSet(Holding(t)) BY SiblingsFinite, FS_Subset DEF Holding
    <3>3. IsFiniteSet(Holding(t) \cap {t}) BY <3>2, FS_Subset
    <3>4. /\ Cardinality(Holding(t) \ {t}) = Cardinality(Holding(t)) - 1
          /\ Cardinality((Holding(t) \cap {t}) \ {t}) = Cardinality(Holding(t) \cap {t}) - 1
      BY <3>1, <3>2, <3>3, FS_RemoveElement
    <3>5. (Holding(t) \ {t}) \cap {t} = (Holding(t) \cap {t}) \ {t} OBVIOUS
    <3>6. Cardinality(Holding(t)) \in Nat /\ Cardinality(Holding(t) \cap {t}) \in Nat
      BY <3>2, <3>3, FS_CardinalityType
    <3>7. GroupAttemptsOf(t) + Cardinality(Holding(t) \ {t}) < GroupAttempts[t]
      BY <2>4, <2>5, <3>4, <3>6
    <3>8. AttemptsOf(t) + Cardinality((Holding(t) \ {t}) \cap {t}) < TaskAttempts[t]
      <4>1. Cardinality((Holding(t) \ {t}) \cap {t}) = Cardinality(Holding(t) \cap {t}) - 1
        BY <3>4, <3>5
      <4> QED BY <2>4, <2>5, <3>6, <4>1
    <3> QED BY <2>1, <3>7, <3>8, CapacityIs
  <2>7. binding[t].ms \in 1..Allowance(seg, t, {}, {t})
    <3>1. /\ pendingActiveHolds(Siblings(t), {}) = binding[t].ms + pendingActiveHolds(Siblings(t), {t})
          /\ pendingActiveHolds({t}, {}) = binding[t].ms + pendingActiveHolds({t}, {t})
      BY <2>1, OwnPromise, SiblingsFinite DEF Siblings
    <3>2. pendingActiveHolds(Siblings(t), {t}) \in Nat /\ pendingActiveHolds({t}, {t}) \in Nat
      BY <2>1, HoldsType, SiblingsFinite
    <3>3. seg \in [SegmentId -> SegmentRecord] BY DEF TypeOK
    <3>4. /\ binding[t].ms <= GroupMS[t] - GroupCharge(seg, t) - pendingActiveHolds(Siblings(t), {t})
          /\ binding[t].ms <= TaskMS[t] - chargedTaskActiveMS(seg, t) - pendingActiveHolds({t}, {t})
          /\ binding[t].ms <= SegmentMS[t] /\ binding[t].ms \in Int /\ 1 <= binding[t].ms
      BY <2>2, <2>4, <2>5, <3>1, <3>2
    <3>5. /\ binding[t].ms <= Allowance(seg, t, {}, {t}) /\ Allowance(seg, t, {}, {t}) \in Int
      BY <2>1, <2>2, <3>3, <3>4, AllowanceIs
    <3> QED BY <3>4, <3>5
  <2>8. ~AtAttemptLimit(t) BY <2>3, <2>6 DEF AtAttemptLimit
  <2>9. ~GrantConflict(t) BY <2>3, <2>7 DEF GrantConflict
  <2> QED BY <2>2, <2>8, <2>9
<1> QED BY <1>1, BudgetInvariant, PTL

-----------------------------------------------------------------------------
(***************************************************************************)
(* What is over stays as it is: a finished task, an ended segment and an   *)
(* attempt superseded by a retry, whatever events are still in the spools. *)
(* The argument rests on the order in which a host appends the events of a *)
(* segment and on the states a superseded attempt leaves its task in.      *)
(***************************************************************************)

\* A spool holds events of its own host's segments, and no outcome of a segment
\* follows the segment's exit.
SpoolOrder ==
  \A h \in Host : \A i \in 1..Len(spool[h]) :
    LET s == spool[h][i][1] IN
    /\ HostOf[s[1]] = h
    /\ spool[h][i][2] \in OutcomeKind =>
         "exited" \notin events[s] /\ \A j \in 1..(i - 1) : spool[h][j] # <<s, "exited">>
ExitRecorded == \A s \in SegmentId : seg[s].status = "exited" => "exited" \in events[s]
IdleStopped  == \A s \in SegmentId : ~Act(s) => seg[s].stop \in {"none", "completed"}
\* A superseded attempt is not running; while it is the latest one its task
\* waits for the retry or has been withdrawn.
Settled == {"ready", "cancelled", "blocked_dependency"}
Superseded ==
  \A t \in Task, a \in Attempt : <<t, a>> \in retried =>
    /\ attempt[t][a] # "none"
    /\ \A n \in 1..MaxSegment : ~Act(<<t, a, n>>)
    /\ LatestAttempt(t, a) => status[t] \in Settled
HistoryInv == BudgetInv /\ SpoolOrder /\ ExitRecorded /\ IdleStopped /\ Superseded

-----------------------------------------------------------------------------
(* The order of events. *)

\* A step appends one event to a spool, commits the head of one, or leaves the
\* spools and the committed events alone.
LEMMA SpoolSteps ==
  ASSUME [Next]_vars
  PROVE  \/ UNCHANGED spoolVars
         \/ \E s \in SegmentId, k \in EventKind : HostAppend(s, k)
         \/ \E s \in SegmentId : CommitHostEvent(s) /\ \E k : CommitEvent(s, k)
<1> USE DEF vars
<1>1. CASE HostNext
  BY <1>1 DEF HostNext, RegisterHost, BeginHostReconcile, HostReconciled, FinishHostReconcile,
              FinishStaleReconcile, MarkHostOffline, RetireHost, ClaimReady
<1>2. CASE SegmentNext BY <1>2, CommitsEvent DEF SegmentNext
<1>3. CASE OwnerNext
  BY <1>3 DEF OwnerNext, CancelTask, StopTask, QueueResume, BackoffElapses, AnswerQuestion,
              AcceptResult, RejectResult, QueueRetry, AckDecision
<1>4. CASE BeginCoordinatorEpoch BY <1>4 DEF BeginCoordinatorEpoch
<1>5. CASE MarkStoppingUnknown BY <1>5 DEF MarkStoppingUnknown
<1> QED BY <1>1, <1>2, <1>3, <1>4, <1>5 DEF Next

\* The spools keep their order: a host appends no outcome after an exit, and
\* commits take the events from the front.
LEMMA SpoolOrderStep ==
  ASSUME TypeOK, SpoolOrder, [Next]_vars PROVE SpoolOrder'
<1>0. /\ spool \in [Host -> Seq(SegmentId \X EventKind)]
      /\ events \in [SegmentId -> SUBSET EventKind]
  BY DEF TypeOK
<1>1. CASE UNCHANGED spoolVars BY <1>1 DEF spoolVars, SpoolOrder
<1>2. CASE \E s \in SegmentId, k \in EventKind : HostAppend(s, k)
  <2>1. PICK s \in SegmentId, k \in EventKind : HostAppend(s, k) BY <1>2
  <2> DEFINE g == HostOf[s[1]]
  <2>2. g \in Host BY SegmentParts
  <2>3. /\ spool' = [spool EXCEPT ![g] = Append(spool[g], <<s, k>>)] /\ events' = events
        /\ HostOrder(Emitted(s), k)
    BY <2>1 DEF HostAppend
  <2>4. k \in OutcomeKind => "exited" \notin Emitted(s)
    <3>1. k \in OutcomeKind => Emitted(s) = {"prepared", "spawned", "running"}
      BY <2>3 DEF HostOrder, OutcomeKind
    <3> QED BY <3>1
  <2>5. "exited" \in EventKind BY DEF EventKind
  <2>6. k \in OutcomeKind =>
          "exited" \notin events[s] /\ \A j \in 1..Len(spool[g]) : spool[g][j] # <<s, "exited">>
    BY <2>4, <2>5 DEF Emitted
  <2>7. SUFFICES ASSUME NEW h \in Host, NEW i \in 1..Len(spool'[h])
        PROVE  /\ HostOf[spool'[h][i][1][1]] = h
               /\ spool'[h][i][2] \in OutcomeKind =>
                    /\ "exited" \notin events'[spool'[h][i][1]]
                    /\ \A j \in 1..(i - 1) : spool'[h][j] # <<spool'[h][i][1], "exited">>
    BY DEF SpoolOrder
  <2>8. CASE h # g
    <3>1. spool'[h] = spool[h] BY <2>3, <2>8, <1>0
    <3>2. events' = events BY <2>3
    <3> QED BY <2>7, <3>1, <3>2 DEF SpoolOrder
  <2>9. CASE h = g
    <3>1. spool[g] \in Seq(SegmentId \X EventKind) BY <1>0, <2>2
    <3>2. spool'[h] = Append(spool[g], <<s, k>>) BY <1>0, <2>2, <2>3, <2>9
    <3>3. Len(spool'[h]) = Len(spool[g]) + 1 BY <3>1, <3>2
    <3>4. \A j \in 1..Len(spool[g]) : spool'[h][j] = spool[g][j] BY <3>1, <3>2
    <3>5. spool'[h][Len(spool[g]) + 1] = <<s, k>> BY <3>1, <3>2
    <3>6. CASE i \in 1..Len(spool[g])
      <4>1. \A j \in 1..i : spool'[h][j] = spool[g][j] BY <3>1, <3>4, <3>6
      <4>2. spool'[h][i] = spool[g][i] BY <3>4, <3>6
      <4>3. /\ HostOf[spool[g][i][1][1]] = g
            /\ spool[g][i][2] \in OutcomeKind =>
                 /\ "exited" \notin events[spool[g][i][1]]
                 /\ \A j \in 1..(i - 1) : spool[g][j] # <<spool[g][i][1], "exited">>
        BY <2>2, <3>6 DEF SpoolOrder
      <4>4. \A j \in 1..(i - 1) : j \in 1..i BY <3>6
      <4> QED BY <2>3, <2>9, <4>1, <4>2, <4>3, <4>4
    <3>7. CASE i = Len(spool[g]) + 1
      <4>1. spool'[h][i] = <<s, k>> BY <3>5, <3>7
      <4>2. spool'[h][i][1] = s /\ spool'[h][i][2] = k BY <4>1
      <4>3. \A j \in 1..(i - 1) : j \in 1..Len(spool[g]) BY <3>1, <3>7
      <4> QED BY <2>3, <2>6, <2>9, <3>4, <4>2, <4>3
    <3> QED BY <2>7, <3>1, <3>3, <3>6, <3>7
  <2> QED BY <2>8, <2>9
<1>3. CASE \E s \in SegmentId : \E k : CommitEvent(s, k)
  <2>0. PICK s \in SegmentId : \E k : CommitEvent(s, k) BY <1>3
  <2>1. PICK k : CommitEvent(s, k) BY <2>0
  <2> DEFINE g == HostOf[s[1]]
  <2>2. g \in Host BY SegmentParts
  <2>3. /\ spool' = [spool EXCEPT ![g] = Tail(spool[g])]
        /\ events' = [events EXCEPT ![s] = events[s] \cup {k}]
        /\ spool[g] # <<>> /\ Head(spool[g]) = <<s, k>>
    BY <2>1 DEF CommitEvent
  <2>4. spool[g] \in Seq(SegmentId \X EventKind) /\ spool[g][1] = <<s, k>> /\ 1 \in 1..Len(spool[g])
    BY <1>0, <2>2, <2>3
  <2>5. SUFFICES ASSUME NEW h \in Host, NEW i \in 1..Len(spool'[h])
        PROVE  /\ HostOf[spool'[h][i][1][1]] = h
               /\ spool'[h][i][2] \in OutcomeKind =>
                    /\ "exited" \notin events'[spool'[h][i][1]]
                    /\ \A j \in 1..(i - 1) : spool'[h][j] # <<spool'[h][i][1], "exited">>
    BY DEF SpoolOrder
  <2>6. spool[h] \in Seq(SegmentId \X EventKind) BY <1>0
  <2>7. CASE h # g
    <3>1. spool'[h] = spool[h] BY <1>0, <2>3, <2>7
    <3>2. spool[h][i] \in SegmentId \X EventKind /\ spool[h][i][1] \in SegmentId BY <2>5, <2>6, <3>1
    <3>3. HostOf[spool[h][i][1][1]] = h BY <2>5, <3>1 DEF SpoolOrder
    <3>4. spool[h][i][1] # s BY <2>7, <3>3
    <3>5. events'[spool[h][i][1]] = events[spool[h][i][1]] BY <1>0, <2>3, <3>2, <3>4
    <3> QED BY <2>5, <3>1, <3>5 DEF SpoolOrder
  <2>8. CASE h = g
    <3>1. spool'[h] = Tail(spool[g]) BY <1>0, <2>2, <2>3, <2>8
    <3>2. /\ Len(spool'[h]) = Len(spool[g]) - 1
          /\ \A j \in 1..(Len(spool[g]) - 1) : spool'[h][j] = spool[g][j + 1]
      <4>1. Len(Tail(spool[g])) = Len(spool[g]) - 1 BY <2>3, <2>4
      <4>2. ASSUME NEW j \in 1..(Len(spool[g]) - 1) PROVE Tail(spool[g])[j] = spool[g][j + 1]
        BY <2>3, <2>4, <4>2
      <4> QED BY <3>1, <4>1, <4>2
    <3>3. i + 1 \in 1..Len(spool[g]) /\ spool'[h][i] = spool[g][i + 1] BY <2>4, <2>5, <3>2
    <3>4. /\ HostOf[spool[g][i + 1][1][1]] = g
          /\ spool[g][i + 1][2] \in OutcomeKind =>
               /\ "exited" \notin events[spool[g][i + 1][1]]
               /\ \A j \in 1..((i + 1) - 1) : spool[g][j] # <<spool[g][i + 1][1], "exited">>
      BY <2>2, <3>3 DEF SpoolOrder
    <3>5. spool[g][i + 1][1] \in SegmentId
      <4>1. spool[g][i + 1] \in SegmentId \X EventKind BY <2>4, <3>3
      <4> QED BY <4>1
    <3>6. 1 \in 1..((i + 1) - 1) BY <2>5
    <3>7. spool[g][i + 1][2] \in OutcomeKind => "exited" \notin events'[spool[g][i + 1][1]]
      <4>1. SUFFICES ASSUME spool[g][i + 1][2] \in OutcomeKind
                     PROVE  "exited" \notin events'[spool[g][i + 1][1]]
        OBVIOUS
      <4>2. CASE spool[g][i + 1][1] # s
        <5>1. events'[spool[g][i + 1][1]] = events[spool[g][i + 1][1]] BY <1>0, <2>3, <3>5, <4>2
        <5> QED BY <3>4, <4>1, <5>1
      <4>3. CASE spool[g][i + 1][1] = s
        <5>1. spool[g][1] # <<s, "exited">> BY <3>4, <3>6, <4>1, <4>3
        <5>2. k # "exited" BY <2>4, <5>1
        <5>3. events'[s] = events[s] \cup {k} BY <1>0, <2>3
        <5> QED BY <3>4, <4>1, <4>3, <5>2, <5>3
      <4> QED BY <4>2, <4>3
    <3>8. \A j \in 1..(i - 1) : j + 1 \in 1..((i + 1) - 1) /\ spool'[h][j] = spool[g][j + 1]
      BY <2>4, <2>5, <3>2
    <3> QED BY <2>8, <3>3, <3>4, <3>7, <3>8
  <2> QED BY <2>7, <2>8
<1> QED BY <1>1, <1>2, <1>3, SpoolSteps

-----------------------------------------------------------------------------
(* Segments that have ended. *)

\* The spool still holds the outcome a host event reports, so the segment has not exited.
LEMMA OutcomeBeforeExit ==
  ASSUME TypeOK, SpoolOrder, ExitRecorded, NEW s \in SegmentId, NEW k, CommitOutcome(s, k)
  PROVE  seg[s].status # "exited"
<1>1. HostOf[s[1]] \in Host BY SegmentParts
<1>2. /\ spool[HostOf[s[1]]] \in Seq(SegmentId \X EventKind) /\ spool[HostOf[s[1]]] # <<>>
      /\ Head(spool[HostOf[s[1]]]) = <<s, k>> /\ k \in OutcomeKind
  BY <1>1 DEF TypeOK, CommitOutcome, CommitEvent, OutcomeKind
<1>3. 1 \in 1..Len(spool[HostOf[s[1]]]) /\ spool[HostOf[s[1]]][1] = <<s, k>> BY <1>2
<1>4. spool[HostOf[s[1]]][1][1] = s /\ spool[HostOf[s[1]]][1][2] = k BY <1>3
<1>5. "exited" \notin events[s] BY <1>1, <1>2, <1>3, <1>4 DEF SpoolOrder
<1> QED BY <1>5 DEF ExitRecorded

\* A host event changes its own segment and attempt only, and these only while
\* the segment is active and its attempt not superseded.
LEMMA EventTouches ==
  ASSUME TypeOK, SpoolKnown, SpoolOrder, ExitRecorded, NEW s \in SegmentId, CommitHostEvent(s)
  PROVE  /\ \A r \in SegmentId : r # s => seg'[r] = seg[r]
         /\ \A t \in Task, a \in Attempt : <<t, a>> # <<s[1], s[2]>> => attempt'[t][a] = attempt[t][a]
         /\ \/ UNCHANGED <<status, attempt, seg, retried>>
            \/ Act(s) /\ <<s[1], s[2]>> \notin retried
<1>0. /\ seg \in [SegmentId -> SegmentRecord] /\ attempt \in [Task -> [Attempt -> AttemptStatus]]
      /\ s[1] \in Task /\ s[2] \in Attempt
  BY SegmentParts DEF TypeOK
<1>1. ~Historical(s) => <<s[1], s[2]>> \notin retried BY DEF Historical
<1>2. CASE \E k \in EventKind : CommitHistory(s, k) BY <1>2 DEF CommitHistory, taskVars, workVars
<1>3. CASE \E k \in EventKind : CommitPhase(s, k)
  <2>1. PICK k \in EventKind : CommitPhase(s, k) BY <1>3
  <2>2. /\ UNCHANGED <<status, attempt, retried>> /\ ~Historical(s)
        /\ seg' = seg \/ seg' = [seg EXCEPT ![s] = Phase(seg[s], k)]
        /\ seg' = seg \/ seg[s].status \in PhaseFrom[k]
        /\ k \in {"prepared", "spawned", "running"}
    BY <2>1 DEF CommitPhase, taskVars
  <2>3. seg[s].status \in PhaseFrom[k] => Act(s) BY <2>2 DEF PhaseFrom, Act, ActiveStatus
  <2> QED BY <1>0, <1>1, <2>2, <2>3
<1>4. CASE \E k \in EventKind : CommitOutcome(s, k)
  <2>1. PICK k \in EventKind : CommitOutcome(s, k) BY <1>4
  <2>2. /\ UNCHANGED <<status, attempt, retried>> /\ ~Historical(s) /\ CommitEvent(s, k)
        /\ seg' = [seg EXCEPT ![s] = Reported(seg[s], k)]
    BY <2>1 DEF CommitOutcome, taskVars
  <2>3. Act(s) BY <2>1, <2>2, OutcomeBeforeExit, HeadKnown, NotEnded DEF Act
  <2> QED BY <1>0, <1>1, <2>2, <2>3
<1>5. CASE CommitQuestion(s)
  <2>1. /\ UNCHANGED <<status, attempt, retried>> /\ ~Historical(s) /\ CommitEvent(s, "question")
        /\ \/ seg' = seg
           \/ seg[s].status # "exited" /\ seg' = [seg EXCEPT ![s] = Asked(seg[s])]
    BY <1>5 DEF CommitQuestion, taskVars
  <2>2. seg[s].status # "exited" => Act(s) BY <2>1, HeadKnown, NotEnded DEF Act
  <2> QED BY <1>0, <1>1, <2>1, <2>2
<1>6. CASE CommitUnknown(s)
  <2>1. ~Historical(s) /\ CommitEvent(s, "unknown") BY <1>6 DEF CommitUnknown
  <2>2. CASE seg[s].status = "exited" BY <1>6, <2>2 DEF CommitUnknown, taskVars
  <2>3. CASE seg[s].status # "exited"
    <3>1. Act(s) BY <2>1, <2>3, HeadKnown, NotEnded DEF Act
    <3>2. /\ seg' = [seg EXCEPT ![s] = Phase(seg[s], "unknown")]
          /\ attempt' = [attempt EXCEPT ![s[1]][s[2]] = "unknown"]
      BY <1>6, <2>3 DEF CommitUnknown
    <3> QED BY <1>0, <1>1, <2>1, <3>1, <3>2
  <2> QED BY <2>2, <2>3
<1>7. CASE \E ms \in 0..(seg[s].granted + 1), match \in BOOLEAN : CommitExit(s, ms, match)
  <2>1. PICK ms, match : CommitExit(s, ms, match) BY <1>7
  <2>2. /\ CommitEvent(s, "exited") /\ ~Historical(s) /\ seg[s].status # "exited"
        /\ seg' = [seg EXCEPT ![s] = Exited(seg[s], ms)]
        /\ attempt' = [attempt EXCEPT ![s[1]][s[2]] = ExitStatus(s[1], seg[s].outcome, match)[1]]
    BY <2>1 DEF CommitExit
  <2>3. Act(s) BY <2>2, HeadKnown, NotEnded DEF Act
  <2> QED BY <1>0, <1>1, <2>2, <2>3
<1>8. CASE \E code \in BOOLEAN : CommitRejection(s, code)
  <2>1. PICK code : CommitRejection(s, code) BY <1>8
  <2>2. /\ ~Historical(s) /\ seg' = [seg EXCEPT ![s] = NotStarted(seg[s])]
        /\ attempt' = [attempt EXCEPT ![s[1]][s[2]] = "failed"]
    BY <2>1 DEF CommitRejection
  <2>3. Act(s) BY <2>1 DEF CommitRejection, RejectionProved, ActiveStatus, Act
  <2> QED BY <1>0, <1>1, <2>2, <2>3
<1> QED BY <1>2, <1>3, <1>4, <1>5, <1>6, <1>7, <1>8 DEF CommitHostEvent

\* A claim launches a segment that never ran, of an attempt no retry supersedes.
LEMMA ClaimFresh ==
  ASSUME CoreInv, Shape, Superseded, NEW h \in Host, NEW t \in Task, ClaimReady(h, t)
  PROVE  \E a \in Attempt, n \in 1..MaxSegment :
           /\ \E ms : Launch(<<t, a, n>>, ms)
           /\ seg[<<t, a, n>>].status = "none" /\ <<t, a>> \notin retried
           /\ attempt' = [attempt EXCEPT ![t][a] = "running"]
           /\ \A b \in Attempt : <<t, b>> \in retried => b # a /\ (LatestAttempt(t, b) => b < a)
<1> USE DEF CoreInv, SegmentInv
<1>1. PICK a \in Attempt : ClaimAttempt(h, t, a) \/ ClaimResume(h, t, a) BY DEF ClaimReady
<1>2. 1 \in 1..MaxSegment BY BoundsAssumption
<1>3. CASE ClaimAttempt(h, t, a)
  <2>1. nextTaskAttemptOrdinal(t, a)
    <3>1. CASE binding[t].promise > 0
      <4>1. a = binding[t].promise BY <1>3, <3>1 DEF ClaimAttempt
      <4>2. Standing(t) BY DEF Shape, PromiseShape
      <4>3. binding[t].pending
        <5>1. NoBinding.promise = 0 BY DEF NoBinding
        <5> QED BY <3>1, <4>2, <5>1 DEF Standing
      <4> QED BY <4>1, <4>2, <4>3 DEF Standing
    <3>2. CASE ~(binding[t].promise > 0) BY <1>3, <3>2 DEF ClaimAttempt
    <3> QED BY <3>1, <3>2
  <2>2. attempt[t][a] = "none" BY <2>1 DEF nextTaskAttemptOrdinal, Attempt
  <2>3. seg[<<t, a, 1>>].status = "none"
    <3>1. <<t, a, 1>> \in SegmentId BY <1>2 DEF SegmentId
    <3> QED BY <2>2, <3>1 DEF AttemptKnown
  <2>4. \A b \in Attempt : attempt[t][b] # "none" => b < a BY <2>1 DEF nextTaskAttemptOrdinal
  <2>5. \A b \in Attempt : <<t, b>> \in retried => attempt[t][b] # "none" BY DEF Superseded
  <2>6. /\ \E ms : Launch(<<t, a, 1>>, ms) /\ attempt' = [attempt EXCEPT ![t][a] = "running"]
    BY <1>3 DEF ClaimAttempt
  <2> QED BY <1>2, <2>2, <2>3, <2>4, <2>5, <2>6
<1>4. CASE ClaimResume(h, t, a)
  <2>0. PICK n \in 1..MaxSegment : NextSegment(t, a, n) /\ \E ms : Launch(<<t, a, n>>, ms)
    BY <1>4 DEF ClaimResume
  <2>1. PICK ms : NextSegment(t, a, n) /\ Launch(<<t, a, n>>, ms) BY <2>0
  <2>2. /\ LatestAttempt(t, a) /\ status[t] = "resume_queued"
        /\ attempt' = [attempt EXCEPT ![t][a] = "running"]
    BY <1>4 DEF ClaimResume
  <2>3. seg[<<t, a, n>>].status = "none" BY <2>1 DEF NextSegment
  <2>4. <<t, a>> \notin retried BY <2>2 DEF Superseded, Settled
  <2>5. \A b \in Attempt : LatestAttempt(t, b) => b = a BY <2>2 DEF LatestAttempt, Attempt
  <2> QED BY <2>1, <2>2, <2>3, <2>4, <2>5
<1> QED BY <1>1, <1>3, <1>4

\* No step changes a segment that has ended, and only a claim of a segment that
\* was never launched changes one that is not active.
LEMMA IdleStep ==
  ASSUME HistoryInv, [Next]_vars, NEW s \in SegmentId, ~Act(s)
  PROVE  \/ seg'[s] = seg[s]
         \/ /\ ~Known(s) /\ <<s[1], s[2]>> \notin retried
            /\ \E ms : seg'[s] = Granted(ms)
<1> USE DEF HistoryInv, BudgetInv, CoreInv, SegmentInv
<1>0. seg \in [SegmentId -> SegmentRecord] BY DEF TypeOK
<1>1. CASE seg' = seg BY <1>1
<1>2. CASE \E h \in Host, t \in Task : ClaimReady(h, t)
  <2>0. PICK t \in Task, a \in Attempt, n \in 1..MaxSegment :
          /\ \E ms : Launch(<<t, a, n>>, ms)
          /\ seg[<<t, a, n>>].status = "none" /\ <<t, a>> \notin retried
    BY <1>2, ClaimFresh
  <2>1. PICK ms : /\ Launch(<<t, a, n>>, ms)
                  /\ seg[<<t, a, n>>].status = "none" /\ <<t, a>> \notin retried
    BY <2>0
  <2>2. CASE s = <<t, a, n>>
    <3>1. s[1] = t /\ s[2] = a /\ seg'[s] = Granted(ms) BY <1>0, <2>1, <2>2 DEF Launch
    <3> QED BY <2>1, <2>2, <3>1 DEF Known
  <2>3. CASE s # <<t, a, n>> BY <1>0, <2>1, <2>3 DEF Launch
  <2> QED BY <2>2, <2>3
<1>3. CASE \E r \in SegmentId : CommitHostEvent(r)
  <2>1. PICK r \in SegmentId : CommitHostEvent(r) BY <1>3
  <2>2. \/ s # r \/ UNCHANGED seg \/ Act(r) BY <2>1, EventTouches
  <2> QED BY <2>1, <2>2, EventTouches
<1>4. CASE \E t \in Task : StopTask(t)
  <2>1. PICK r \in ActiveSegments : seg' = [seg EXCEPT ![r] = StopRequested(seg[r])]
    BY <1>4 DEF StopTask
  <2>2. r \in SegmentId /\ Act(r) BY DEF ActiveSegments, Act
  <2> QED BY <1>0, <2>1, <2>2
<1>5. CASE MarkStoppingUnknown
  <2>1. seg'[s] = Lost(seg[s]) BY <1>5 DEF MarkStoppingUnknown
  <2>2. seg[s].status # "stopping" /\ seg[s].stop \notin {"pending", "accepted"}
    BY DEF Act, ActiveStatus, IdleStopped
  <2>3. Lost(seg[s]) = seg[s]
    <3>1. seg[s] \in SegmentRecord BY <1>0
    <3> QED BY <2>2, <3>1 DEF Lost, SegmentRecord
  <2> QED BY <2>1, <2>3
<1>6. CASE \E t \in Task : Decide(t)
  BY <1>6 DEF Decide, CancelTask, QueueResume, AnswerQuestion, AcceptResult, RejectResult,
              QueueRetry, workVars
<1> QED BY <1>1, <1>2, <1>3, <1>4, <1>5, <1>6, OtherSteps

\* An exit is stored only with its event.
LEMMA ExitRecordedStep ==
  ASSUME TypeOK, SpoolKnown, ExitRecorded, [Next]_vars PROVE ExitRecorded'
<1>0. /\ seg \in [SegmentId -> SegmentRecord] /\ events \in [SegmentId -> SUBSET EventKind]
  BY DEF TypeOK
<1>1. SUFFICES ASSUME NEW s \in SegmentId, seg'[s].status = "exited" PROVE "exited" \in events'[s]
  BY DEF ExitRecorded
<1>2. events[s] \subseteq events'[s]
  <2>1. CASE UNCHANGED spoolVars BY <2>1 DEF spoolVars
  <2>2. CASE \E r \in SegmentId, k \in EventKind : HostAppend(r, k) BY <2>2 DEF HostAppend
  <2>3. CASE \E r \in SegmentId : \E k : CommitEvent(r, k) BY <1>0, <2>3 DEF CommitEvent
  <2> QED BY <2>1, <2>2, <2>3, SpoolSteps
<1>3. CASE seg[s].status = "exited" BY <1>2, <1>3 DEF ExitRecorded
<1>4. CASE seg[s].status # "exited"
  <2>0. seg[s] \in SegmentRecord BY <1>0
  <2>1. CASE \E h \in Host, t \in Task : ClaimReady(h, t)
    <3>1. PICK r, ms : Launch(r, ms) BY <2>1 DEF ClaimReady, ClaimAttempt, ClaimResume
    <3>2. seg'[s] = seg[s] \/ seg'[s] = Granted(ms) BY <1>0, <3>1 DEF Launch
    <3>3. Granted(ms).status = "launch_requested" BY DEF Granted, NoSegment
    <3> QED BY <1>1, <1>4, <3>2, <3>3
  <2>2. CASE \E r \in SegmentId : CommitHostEvent(r)
    <3>1. PICK r \in SegmentId : CommitHostEvent(r) BY <2>2
    <3>2. CASE \E k \in EventKind : CommitHistory(r, k)
      BY <1>1, <1>4, <3>2 DEF CommitHistory, workVars
    <3>3. CASE \E k \in EventKind : CommitPhase(r, k)
      <4>1. PICK k \in EventKind : CommitPhase(r, k) BY <3>3
      <4>2. seg'[s] = seg[s] \/ seg'[s] = Phase(seg[s], k) BY <1>0, <4>1 DEF CommitPhase
      <4>3. Phase(seg[s], k).status = k BY <2>0 DEF Phase, SegmentRecord
      <4> QED BY <1>1, <1>4, <4>1, <4>2, <4>3 DEF CommitPhase
    <3>4. CASE \E k \in EventKind : CommitOutcome(r, k)
      <4>1. PICK k \in EventKind : CommitOutcome(r, k) BY <3>4
      <4>2. seg'[s] = seg[s] \/ seg'[s] = Reported(seg[s], k) BY <1>0, <4>1 DEF CommitOutcome
      <4>3. Reported(seg[s], k).status = seg[s].status BY <2>0 DEF Reported, SegmentRecord
      <4> QED BY <1>1, <1>4, <4>2, <4>3
    <3>5. CASE CommitQuestion(r)
      <4>1. seg' = seg \/ seg' = [seg EXCEPT ![r] = Asked(seg[r])] BY <3>5 DEF CommitQuestion
      <4>2. seg'[s] = seg[s] \/ seg'[s] = Asked(seg[s]) BY <1>0, <4>1
      <4>3. Asked(seg[s]).status = seg[s].status BY <2>0 DEF Asked, SegmentRecord
      <4> QED BY <1>1, <1>4, <4>2, <4>3
    <3>6. CASE CommitUnknown(r)
      <4>1. seg'[s] = seg[s] \/ seg'[s] = Phase(seg[s], "unknown") BY <1>0, <3>6 DEF CommitUnknown
      <4>2. Phase(seg[s], "unknown").status = "unknown" BY <2>0 DEF Phase, SegmentRecord
      <4> QED BY <1>1, <1>4, <4>1, <4>2
    <3>7. CASE \E ms \in 0..(seg[r].granted + 1), match \in BOOLEAN : CommitExit(r, ms, match)
      <4>1. PICK ms, match : CommitExit(r, ms, match) BY <3>7
      <4>2. seg' = [seg EXCEPT ![r] = Exited(seg[r], ms)] /\ CommitEvent(r, "exited")
        BY <4>1 DEF CommitExit
      <4>3. r = s BY <1>0, <1>1, <1>4, <4>2
      <4> QED BY <1>0, <4>2, <4>3 DEF CommitEvent
    <3>8. CASE \E code \in BOOLEAN : CommitRejection(r, code)
      <4>1. PICK code : CommitRejection(r, code) BY <3>8
      <4>2. seg'[s] = seg[s] \/ seg'[s] = NotStarted(seg[s]) BY <1>0, <4>1 DEF CommitRejection
      <4>3. NotStarted(seg[s]).status = "not_started" BY <2>0 DEF NotStarted, SegmentRecord
      <4> QED BY <1>1, <1>4, <4>2, <4>3
    <3> QED BY <3>1, <3>2, <3>3, <3>4, <3>5, <3>6, <3>7, <3>8 DEF CommitHostEvent
  <2>3. CASE \E t \in Task : StopTask(t)
    <3>1. seg'[s] = seg[s] \/ seg'[s] = StopRequested(seg[s])
      BY <1>0, <2>3 DEF StopTask, ActiveSegments
    <3>2. StopRequested(seg[s]).status = "stopping" BY <2>0 DEF StopRequested, SegmentRecord
    <3> QED BY <1>1, <1>4, <3>1, <3>2
  <2>4. CASE MarkStoppingUnknown
    <3>1. seg'[s] = Lost(seg[s]) BY <2>4 DEF MarkStoppingUnknown
    <3>2. Lost(seg[s]).status # "exited" BY <1>4, <2>0 DEF Lost, SegmentRecord
    <3> QED BY <1>1, <3>1, <3>2
  <2>5. CASE \E t \in Task : Decide(t)
    BY <1>1, <1>4, <2>5 DEF Decide, CancelTask, QueueResume, AnswerQuestion, AcceptResult,
                            RejectResult, QueueRetry, workVars
  <2> QED BY <1>1, <1>4, <2>1, <2>2, <2>3, <2>4, <2>5, OtherSteps
<1> QED BY <1>3, <1>4

\* A segment ends with its stop settled.
LEMMA IdleStoppedStep ==
  ASSUME HistoryInv, [Next]_vars PROVE IdleStopped'
<1> USE DEF HistoryInv, BudgetInv, CoreInv, SegmentInv
<1>0. seg \in [SegmentId -> SegmentRecord] BY DEF TypeOK
<1>1. SUFFICES ASSUME NEW s \in SegmentId, ~Act(s)' PROVE seg'[s].stop \in {"none", "completed"}
  BY DEF IdleStopped
<1>2. seg[s] \in SegmentRecord BY <1>0
<1>3. CASE ~Act(s)
  <2>1. seg'[s] = seg[s] \/ \E ms : seg'[s] = Granted(ms) BY <1>3, IdleStep
  <2>2. \A ms : Granted(ms).status = "launch_requested" BY DEF Granted, NoSegment
  <2>3. seg'[s] = seg[s] BY <1>1, <2>1, <2>2 DEF Act, ActiveStatus
  <2> QED BY <1>3, <2>3 DEF IdleStopped
<1>4. CASE Act(s)
  <2>0. seg'[s] # seg[s] BY <1>1, <1>4 DEF Act
  <2>1. CASE \E h \in Host, t \in Task : ClaimReady(h, t)
    <3>1. PICK r, ms : Launch(r, ms) BY <2>1 DEF ClaimReady, ClaimAttempt, ClaimResume
    <3>2. seg'[s] = seg[s] \/ seg'[s] = Granted(ms) BY <1>0, <3>1 DEF Launch
    <3>3. Granted(ms).status = "launch_requested" BY DEF Granted, NoSegment
    <3> QED BY <1>1, <2>0, <3>2, <3>3 DEF Act, ActiveStatus
  <2>2. CASE \E r \in SegmentId : CommitHostEvent(r)
    <3>1. PICK r \in SegmentId : CommitHostEvent(r) BY <2>2
    <3>2. CASE \E k \in EventKind : CommitHistory(r, k) BY <2>0, <3>2 DEF CommitHistory, workVars
    <3>3. CASE \E k \in EventKind : CommitPhase(r, k)
      <4>1. PICK k \in EventKind : CommitPhase(r, k) BY <3>3
      <4>2. seg'[s] = Phase(seg[s], k) BY <1>0, <2>0, <4>1 DEF CommitPhase
      <4>3. Phase(seg[s], k).status = k BY <1>2 DEF Phase, SegmentRecord
      <4> QED BY <1>1, <4>1, <4>2, <4>3 DEF CommitPhase, Act, ActiveStatus
    <3>4. CASE \E k \in EventKind : CommitOutcome(r, k)
      <4>1. PICK k \in EventKind : CommitOutcome(r, k) BY <3>4
      <4>2. seg'[s] = Reported(seg[s], k) BY <1>0, <2>0, <4>1 DEF CommitOutcome
      <4>3. Reported(seg[s], k).status = seg[s].status BY <1>2 DEF Reported, SegmentRecord
      <4> QED BY <1>1, <1>4, <4>2, <4>3 DEF Act
    <3>5. CASE CommitQuestion(r)
      <4>1. seg' = seg \/ seg' = [seg EXCEPT ![r] = Asked(seg[r])] BY <3>5 DEF CommitQuestion
      <4>2. seg'[s] = Asked(seg[s]) BY <1>0, <2>0, <4>1
      <4>3. Asked(seg[s]).status = seg[s].status BY <1>2 DEF Asked, SegmentRecord
      <4> QED BY <1>1, <1>4, <4>2, <4>3 DEF Act
    <3>6. CASE CommitUnknown(r)
      <4>1. seg'[s] = Phase(seg[s], "unknown") BY <1>0, <2>0, <3>6 DEF CommitUnknown
      <4>2. Phase(seg[s], "unknown").status = "unknown" BY <1>2 DEF Phase, SegmentRecord
      <4> QED BY <1>1, <4>1, <4>2 DEF Act, ActiveStatus
    <3>7. CASE \E ms \in 0..(seg[r].granted + 1), match \in BOOLEAN : CommitExit(r, ms, match)
      <4>1. PICK ms, match : CommitExit(r, ms, match) BY <3>7
      <4>2. seg'[s] = Exited(seg[s], ms) BY <1>0, <2>0, <4>1 DEF CommitExit
      <4>3. Exited(seg[s], ms).stop \in {"none", "completed"} BY <1>2 DEF Exited, SegmentRecord
      <4> QED BY <4>2, <4>3
    <3>8. CASE \E code \in BOOLEAN : CommitRejection(r, code)
      <4>1. PICK code : CommitRejection(r, code) BY <3>8
      <4>2. r = s /\ seg'[s] = NotStarted(seg[s]) BY <1>0, <2>0, <4>1 DEF CommitRejection
      <4>3. seg[s].stop \in {"none", "pending"}
        <5>1. \/ seg[s].outcome = ""
              \/ seg[s].stop = "pending"
          BY <4>1, <4>2 DEF CommitRejection, RejectionProved
        <5> QED BY <5>1 DEF Sound
      <4>4. NotStarted(seg[s]).stop \in {"none", "completed"}
        BY <1>2, <4>3 DEF NotStarted, SegmentRecord
      <4> QED BY <4>2, <4>4
    <3> QED BY <3>1, <3>2, <3>3, <3>4, <3>5, <3>6, <3>7, <3>8 DEF CommitHostEvent
  <2>3. CASE \E t \in Task : StopTask(t)
    <3>1. seg'[s] = StopRequested(seg[s]) BY <1>0, <2>0, <2>3 DEF StopTask, ActiveSegments
    <3>2. StopRequested(seg[s]).status = "stopping" BY <1>2 DEF StopRequested, SegmentRecord
    <3> QED BY <1>1, <3>1, <3>2 DEF Act, ActiveStatus
  <2>4. CASE MarkStoppingUnknown
    <3>1. seg'[s] = Lost(seg[s]) BY <2>4 DEF MarkStoppingUnknown
    <3>2. Lost(seg[s]).status \in {seg[s].status, "unknown"} BY <1>2 DEF Lost, SegmentRecord
    <3> QED BY <1>1, <1>4, <3>1, <3>2 DEF Act, ActiveStatus
  <2>5. CASE \E t \in Task : Decide(t)
    BY <2>0, <2>5 DEF Decide, CancelTask, QueueResume, AnswerQuestion, AcceptResult, RejectResult,
                      QueueRetry, workVars
  <2> QED BY <2>0, <2>1, <2>2, <2>3, <2>4, <2>5, OtherSteps
<1> QED BY <1>3, <1>4

-----------------------------------------------------------------------------
(* Superseded attempts. *)

\* No step changes a superseded attempt or one of its segments.
LEMMA SupersededStays ==
  ASSUME HistoryInv, [Next]_vars, NEW t \in Task, NEW a \in Attempt, <<t, a>> \in retried
  PROVE  /\ attempt'[t][a] = attempt[t][a]
         /\ \A n \in 1..MaxSegment : seg'[<<t, a, n>>] = seg[<<t, a, n>>]
<1> USE DEF HistoryInv, BudgetInv, CoreInv, SegmentInv
<1>0. attempt \in [Task -> [Attempt -> AttemptStatus]] BY DEF TypeOK
<1>1. ASSUME NEW n \in 1..MaxSegment PROVE seg'[<<t, a, n>>] = seg[<<t, a, n>>]
  <2>1. <<t, a, n>> \in SegmentId BY DEF SegmentId
  <2>2. ~Act(<<t, a, n>>) BY DEF Superseded
  <2> QED BY <2>1, <2>2, IdleStep
<1>2. attempt'[t][a] = attempt[t][a]
  <2>1. CASE attempt' = attempt BY <2>1
  <2>2. CASE \E h \in Host, u \in Task : ClaimReady(h, u)
    <3>1. PICK u \in Task, b \in Attempt :
            <<u, b>> \notin retried /\ attempt' = [attempt EXCEPT ![u][b] = "running"]
      BY <2>2, ClaimFresh
    <3> QED BY <1>0, <3>1
  <2>3. CASE \E s \in SegmentId : CommitHostEvent(s)
    <3>1. PICK s \in SegmentId : CommitHostEvent(s) BY <2>3
    <3> QED BY <3>1, EventTouches
  <2>4. CASE \E u \in Task : StopTask(u) BY <2>4 DEF StopTask
  <2>5. CASE \E u \in Task : Decide(u)
    <3>1. CASE \E s \in SegmentId : RejectResult(s)
      <4>1. PICK s \in SegmentId : RejectResult(s) BY <3>1
      <4>2. /\ attempt' = [attempt EXCEPT ![s[1]][s[2]] = "failed"]
            /\ status[s[1]] = "result_ready" /\ LatestAttempt(s[1], s[2])
        BY <4>1 DEF RejectResult, Reviewable, LatestSegment
      <4>3. s[1] # t \/ s[2] # a BY <4>2 DEF Superseded, Settled
      <4>4. s[1] \in Task /\ s[2] \in Attempt BY SegmentParts
      <4> QED BY <1>0, <4>2, <4>3, <4>4
    <3> QED BY <2>1, <2>5, <3>1 DEF Decide, CancelTask, QueueResume, AnswerQuestion, AcceptResult,
                                   QueueRetry, workVars
  <2>6. CASE MarkStoppingUnknown
    <3>1. ASSUME NEW s \in SegmentId, seg[s].status \in {"stopping", "unknown"}, s[1] = t, s[2] = a
          PROVE  FALSE
      <4>1. s = <<t, a, s[3]>> /\ s[3] \in 1..MaxSegment BY <3>1, SegmentParts DEF SegmentId
      <4>2. Act(s) BY <3>1 DEF Act, ActiveStatus
      <4> QED BY <4>1, <4>2 DEF Superseded
    <3>2. attempt'[t][a] = IF \E s \in SegmentId : /\ seg[s].status \in {"stopping", "unknown"}
                                                   /\ s[1] = t /\ s[2] = a
                           THEN "unknown" ELSE attempt[t][a]
      BY <2>6 DEF MarkStoppingUnknown
    <3> QED BY <3>1, <3>2
  <2> QED BY <2>1, <2>2, <2>3, <2>4, <2>5, <2>6, OtherSteps
<1> QED BY <1>1, <1>2

\* A task that waits for a retry, or has been withdrawn, only moves by being
\* claimed, cancelled or blocked.
LEMMA SettledMoves ==
  ASSUME CoreInv, [Next]_vars, NEW u \in Task, status[u] \in Settled
  PROVE  status'[u] \in Settled \/ \E h \in Host : ClaimReady(h, u)
<1> USE DEF CoreInv, SegmentInv
<1>0. status[u] \notin Dispatched /\ status[u] \notin Parked /\ status[u] # "queued"
  BY DEF Settled, Dispatched, Parked
<1>1. ASSUME Ripples(u) PROVE status'[u] \in Settled BY <1>0, <1>1 DEF Ripples, Settled
<1>2. ASSUME NEW t \in Task, NEW from, NEW to, Moves(t, from, to), status[u] \notin from
      PROVE  status'[u] \in Settled
  BY <1>1, <1>2 DEF Moves
<1>3. CASE status' = status BY <1>3
<1>4. CASE \E h \in Host, t \in Task : ClaimReady(h, t)
  <2>1. PICK h \in Host, t \in Task : ClaimReady(h, t) BY <1>4
  <2>2. status' = [status EXCEPT ![t] = "running"]
    BY <2>1 DEF ClaimReady, ClaimAttempt, ClaimResume, SetStatus, Reschedule
  <2>3. CASE u = t BY <2>1, <2>3
  <2>4. CASE u # t BY <2>2, <2>4 DEF TypeOK
  <2> QED BY <2>3, <2>4
<1>5. CASE \E s \in SegmentId : CommitHostEvent(s)
  <2>1. PICK s \in SegmentId : CommitHostEvent(s) BY <1>5
  <2>2. CASE \E to : Moves(s[1], Dispatched, to) BY <1>0, <1>2, <2>2, SegmentParts
  <2> QED BY <1>3, <2>1, <2>2, EventStatus
<1>6. CASE \E t \in Task : StopTask(t)
  <2>1. PICK t \in Task : StopTask(t) BY <1>6
  <2>2. PICK s \in SegmentId : Act(s) /\ s[1] = t BY <2>1 DEF StopTask, ActiveSegments, Act
  <2>3. Moves(t, Dispatched, {"stopping"}) BY <2>1, <2>2, ActiveTask, MoveOne DEF StopTask
  <2> QED BY <1>0, <1>2, <2>3
<1>7. CASE \E t \in Task : Decide(t)
  <2>1. PICK t \in Task : Decide(t) BY <1>7
  <2>2. CASE Moves(t, Waiting, {"cancelled"}) BY <1>1, <2>2 DEF Moves, Settled
  <2>3. CASE Moves(t, Parked, Resumed) BY <1>0, <1>2, <2>3
  <2> QED BY <2>1, <2>2, <2>3, DecideMoves
<1>8. CASE MarkStoppingUnknown
  <2>1. \A s \in SegmentId : seg[s].status \in {"stopping", "unknown"} => s[1] # u
    BY <1>0, ActiveTask DEF Act, ActiveStatus
  <2>2. status'[u] = status[u] BY <1>8, <2>1 DEF MarkStoppingUnknown, Reschedule
  <2> QED BY <2>2
<1> QED BY <1>3, <1>4, <1>5, <1>6, <1>7, <1>8, OtherSteps

\* An attempt that exists keeps existing.
LEMMA AttemptsStay ==
  ASSUME CoreInv, Shape, [Next]_vars, NEW t \in Task, NEW a \in Attempt, attempt[t][a] # "none"
  PROVE  attempt'[t][a] # "none"
<1>1. CASE Recorded BY <1>1 DEF Recorded
<1>2. CASE \E u \in Task, b \in Attempt, n \in 1..MaxSegment, ms \in Nat :
             StartsAttempt(u, b, ms) \/ StartsResumed(u, b, n, ms)
  <2>1. PICK u \in Task, b \in Attempt, n \in 1..MaxSegment, ms \in Nat :
          StartsAttempt(u, b, ms) \/ StartsResumed(u, b, n, ms)
    BY <1>2
  <2> QED BY <2>1, AttemptStarts DEF CoreInv, SegmentInv
<1> QED BY <1>1, <1>2, LedgerStep DEF Shape, Falls, Promising

\* An attempt is newly superseded by the owner's retry or by the automatic one,
\* and its task waits for it.
LEMMA NewlyRetried ==
  ASSUME [Next]_vars, NEW p \in retried', p \notin retried
  PROVE  \E s \in SegmentId :
           /\ p = <<s[1], s[2]>>
           /\ \/ \E k : QueueRetry(s, k)
              \/ \E code : CommitRejection(s, code) /\ CommitHostEvent(s)
           /\ status' = [status EXCEPT ![s[1]] = "ready"]
<1>1. CASE retried' = retried BY <1>1
<1>2. CASE \E s \in SegmentId, k \in {"failed", "result"} : QueueRetry(s, k)
  BY <1>2 DEF QueueRetry, Enqueue, Reschedule
<1>3. CASE \E s \in SegmentId : CommitHostEvent(s)
  <2>1. PICK s \in SegmentId : CommitHostEvent(s) BY <1>3
  <2>2. CASE \E code \in BOOLEAN : CommitRejection(s, code)
    <3>1. PICK code \in BOOLEAN : CommitRejection(s, code) BY <2>2
    <3>2. AutoRetry(s, [seg EXCEPT ![s] = NotStarted(seg[s])], code) BY <3>1 DEF CommitRejection
    <3>3. retried' = retried \cup {<<s[1], s[2]>>} /\ status' = [status EXCEPT ![s[1]] = "ready"]
      BY <3>1, <3>2 DEF CommitRejection, Enqueue, Reschedule
    <3> QED BY <2>1, <3>1, <3>3
  <2> QED BY <1>1, <2>1, <2>2 DEF CommitHostEvent, CommitHistory, CommitPhase, CommitOutcome,
                              CommitQuestion, CommitUnknown, CommitExit
<1> USE DEF vars, ownerVars
<1>4. CASE HostNext
  BY <1>1, <1>4 DEF HostNext, RegisterHost, BeginHostReconcile, HostReconciled, FinishHostReconcile,
                    FinishStaleReconcile, MarkHostOffline, RetireHost, ClaimReady
<1>5. CASE SegmentNext BY <1>1, <1>3, <1>5 DEF SegmentNext, HostAppend
<1>6. CASE OwnerNext
  <2>1. CASE \E t \in Task : CancelTask(t) \/ StopTask(t) \/ QueueResume(t) \/ BackoffElapses(t)
    BY <1>1, <2>1 DEF CancelTask, StopTask, QueueResume, BackoffElapses
  <2>2. CASE \E s \in SegmentId : AnswerQuestion(s) \/ AcceptResult(s) \/ RejectResult(s)
    BY <1>1, <2>2 DEF AnswerQuestion, AcceptResult, RejectResult
  <2>3. CASE \E e \in pending : AckDecision(e) BY <1>1, <2>3 DEF AckDecision
  <2> QED BY <1>2, <1>6, <2>1, <2>2, <2>3 DEF OwnerNext
<1>7. CASE BeginCoordinatorEpoch BY <1>1, <1>7 DEF BeginCoordinatorEpoch
<1>8. CASE MarkStoppingUnknown BY <1>1, <1>8 DEF MarkStoppingUnknown
<1> QED BY <1>1, <1>4, <1>5, <1>6, <1>7, <1>8 DEF Next

LEMMA SupersededStep ==
  ASSUME HistoryInv, TypeOK', [Next]_vars PROVE Superseded'
<1> USE DEF HistoryInv, BudgetInv, CoreInv, SegmentInv
<1>1. SUFFICES ASSUME NEW t \in Task, NEW a \in Attempt, <<t, a>> \in retried'
               PROVE  /\ attempt'[t][a] # "none"
                      /\ \A n \in 1..MaxSegment : ~Act(<<t, a, n>>)'
                      /\ LatestAttempt(t, a)' => status'[t] \in Settled
  BY DEF Superseded
<1>2. CASE <<t, a>> \in retried
  <2>1. attempt'[t][a] = attempt[t][a] /\ attempt[t][a] # "none"
    BY <1>2, SupersededStays DEF Superseded
  <2>2. \A n \in 1..MaxSegment : ~Act(<<t, a, n>>)'
    BY <1>2, SupersededStays DEF Superseded, Act
  <2>3. ASSUME LatestAttempt(t, a)' PROVE status'[t] \in Settled
    <3>1. LatestAttempt(t, a) BY <2>1, <2>3, AttemptsStay DEF LatestAttempt
    <3>2. status[t] \in Settled BY <1>2, <3>1 DEF Superseded
    <3>3. ASSUME NEW h \in Host, ClaimReady(h, t) PROVE FALSE
      <4>1. PICK b \in Attempt : attempt' = [attempt EXCEPT ![t][b] = "running"] /\ a < b
        BY <1>2, <3>1, <3>3, ClaimFresh
      <4>2. attempt'[t][b] = "running" BY <4>1 DEF TypeOK
      <4>3. b <= a BY <2>3, <4>2 DEF LatestAttempt
      <4> QED BY <4>1, <4>3 DEF Attempt
    <3> QED BY <3>2, <3>3, SettledMoves
  <2> QED BY <2>1, <2>2, <2>3
<1>3. CASE <<t, a>> \notin retried
  <2>1. PICK s \in SegmentId :
          /\ <<t, a>> = <<s[1], s[2]>>
          /\ \/ \E k : QueueRetry(s, k)
             \/ \E code : CommitRejection(s, code) /\ CommitHostEvent(s)
          /\ status' = [status EXCEPT ![s[1]] = "ready"]
    BY <1>1, <1>3, NewlyRetried
  <2>2. s[1] = t /\ s[2] = a BY <2>1
  <2>3. status'[t] \in Settled BY <2>1, <2>2 DEF TypeOK, Settled
  <2>4. CASE \E k : QueueRetry(s, k)
    <3>1. /\ attempt' = attempt /\ seg' = seg /\ attempt[t][a] = "failed" /\ ~HasActive(t)
      BY <2>2, <2>4 DEF QueueRetry, workVars
    <3>2. \A n \in 1..MaxSegment : <<t, a, n>> \in SegmentId /\ <<t, a, n>>[1] = t
      BY DEF SegmentId
    <3>3. \A n \in 1..MaxSegment : ~Act(<<t, a, n>>)
      BY <3>1, <3>2 DEF HasActive, ActiveSegments, Act
    <3> QED BY <2>3, <3>1, <3>3 DEF Act
  <2>5. CASE \E code : CommitRejection(s, code) /\ CommitHostEvent(s)
    <3>1. PICK code : CommitRejection(s, code) BY <2>5
    <3>2. /\ attempt' = [attempt EXCEPT ![t][a] = "failed"]
          /\ seg' = [seg EXCEPT ![s] = NotStarted(seg[s])]
      BY <2>2, <3>1 DEF CommitRejection
    <3>3. Act(s) BY <3>1 DEF CommitRejection, RejectionProved, ActiveStatus, Act
    <3>4. attempt'[t][a] = "failed" BY <3>2 DEF TypeOK
    <3>5. ASSUME NEW n \in 1..MaxSegment PROVE ~Act(<<t, a, n>>)'
      <4> DEFINE r == <<t, a, n>>
      <4>1. r \in SegmentId /\ r[1] = s[1] BY <2>2 DEF SegmentId
      <4>2. CASE r = s
        <5>1. seg[s] \in SegmentRecord /\ seg'[s] = NotStarted(seg[s]) BY <3>2 DEF TypeOK
        <5>2. seg'[s].status = "not_started" BY <5>1 DEF NotStarted, SegmentRecord
        <5> QED BY <4>2, <5>2 DEF Act, ActiveStatus
      <4>3. CASE r # s
        <5>1. ~Act(r) BY <3>3, <4>1, <4>3, Unique
        <5>2. seg'[r] = seg[r] BY <3>2, <4>1, <4>3 DEF TypeOK
        <5> QED BY <5>1, <5>2 DEF Act
      <4> QED BY <4>2, <4>3
    <3> QED BY <2>3, <3>4, <3>5
  <2> QED BY <2>1, <2>4, <2>5
<1> QED BY <1>2, <1>3

-----------------------------------------------------------------------------
LEMMA HistoryInit == Init => SpoolOrder /\ ExitRecorded /\ IdleStopped /\ Superseded
<1> SUFFICES ASSUME Init PROVE SpoolOrder /\ ExitRecorded /\ IdleStopped /\ Superseded
  OBVIOUS
<1>1. \A s \in SegmentId : seg[s] = NoSegment BY DEF Init
<1>2. NoSegment.status = "none" /\ NoSegment.stop = "none" BY DEF NoSegment
<1>3. ExitRecorded /\ IdleStopped BY <1>1, <1>2 DEF ExitRecorded, IdleStopped
<1>4. SpoolOrder BY DEF Init, SpoolOrder
<1>5. Superseded BY DEF Init, Superseded
<1> QED BY <1>3, <1>4, <1>5

\* Spools keep their order and superseded attempts their place in every reachable state.
LEMMA HistoryInvariant == Spec => []HistoryInv
<1>1. BudgetInv /\ BudgetInv' /\ SpoolOrder /\ ExitRecorded /\ IdleStopped /\ Superseded /\ [Next]_vars
        => (SpoolOrder /\ ExitRecorded /\ IdleStopped /\ Superseded)'
  <2> SUFFICES ASSUME HistoryInv, BudgetInv', [Next]_vars
               PROVE  (SpoolOrder /\ ExitRecorded /\ IdleStopped /\ Superseded)'
    BY DEF HistoryInv
  <2> USE DEF HistoryInv, BudgetInv, CoreInv, SegmentInv
  <2>1. SpoolOrder' BY SpoolOrderStep
  <2>2. ExitRecorded' BY ExitRecordedStep
  <2>3. IdleStopped' BY IdleStoppedStep
  <2>4. Superseded' BY SupersededStep
  <2> QED BY <2>1, <2>2, <2>3, <2>4
<1> QED BY <1>1, HistoryInit, BudgetInvariant, PTL DEF Spec, HistoryInv

\* What is over stays as it is: a completed or cancelled task, a segment that
\* has ended, and an attempt superseded by a retry, with its segments, are not
\* changed by a replayed or late event, a resume, a claim or a second review.
THEOREM HistoryStaysFrozen == Spec => HistoryFrozen
<1> DEFINE Frozen ==
      /\ \A t \in Task : status[t] \in {"completed", "cancelled"} => status'[t] = status[t]
      /\ \A s \in SegmentId : seg[s].status \in TerminalStatus => seg'[s] = seg[s]
      /\ \A t \in Task, a \in Attempt : <<t, a>> \in retried =>
           /\ attempt'[t][a] = attempt[t][a]
           /\ \A n \in 1..MaxSegment : seg'[<<t, a, n>>] = seg[<<t, a, n>>]
<1>1. ASSUME HistoryInv, [Next]_vars PROVE Frozen
  <2>1. ASSUME NEW t \in Task, status[t] \in {"completed", "cancelled"} PROVE status'[t] = status[t]
    BY <1>1, <2>1, TaskStep
       DEF HistoryInv, BudgetInv, TaskMoves, Ripples, Waiting, Parked, Dispatched
  <2>2. ASSUME NEW s \in SegmentId, seg[s].status \in TerminalStatus PROVE seg'[s] = seg[s]
    <3>1. ~Act(s) /\ Known(s) BY <2>2 DEF Act, Known, ActiveStatus, TerminalStatus
    <3> QED BY <1>1, <3>1, IdleStep
  <2> QED BY <1>1, <2>1, <2>2, SupersededStays
<1>2. HistoryInv /\ [Next]_vars => [Frozen]_vars BY <1>1
<1> QED BY <1>2, HistoryInvariant, PTL DEF Spec, HistoryFrozen
=============================================================================

------------------------------ MODULE Folding ------------------------------
(***************************************************************************)
(* What a fold over a sequence computes: the last of the values it passes  *)
(* through.  The operator is a parameter of the module, so that the theorem*)
(* is about any; a module that needs it for one has an INSTANCE of this    *)
(* one.  c is whatever else the operator takes.  The libraries are LOCAL   *)
(* and what is needed of them is spelled out, so that an instance brings   *)
(* nothing along but what is stated here.                                  *)
(***************************************************************************)
EXTENDS Integers, Sequences
LOCAL INSTANCE FiniteSetTheorems
LOCAL INSTANCE TLAPS

CONSTANT Op(_, _, _)

\* As Max has it.
Largest(s) == CHOOSE x \in s : \A y \in s : x >= y

\* As FoldLeft has it.
Fold(c, base, seq) ==
  LET iter[s \in SUBSET DOMAIN seq] ==
        IF s = {} THEN base ELSE Op(c, iter[s \ {Largest(s)}], seq[Largest(s)])
  IN iter[DOMAIN seq]

\* The values that the fold passes through are g[0], g[1] and so on to g[n].
Trace(c, base, n, seq, g) ==
  /\ DOMAIN g = 0 .. n /\ g[0] = base
  /\ \A m \in 1 .. n : g[m] = Op(c, g[m - 1], seq[m])
  /\ Fold(c, base, seq) = g[n]

-----------------------------------------------------------------------------
(* Induction over 0 .. n: a set of numbers that a first one is not in, and *)
(* no later one unless the one before it is.                               *)

THEOREM Upwards ==
  ASSUME NEW n \in Nat, NEW P, 0 \in P, \A m \in 1 .. n : m - 1 \in P => m \in P
  PROVE  0 .. n \subseteq P
PROOF
<1> DEFINE Upto(k) == 0 .. k
           S == 0 .. n
           T == {Upto(k) : k \in S \ P}
<1> SUFFICES ASSUME S \ P # {} PROVE FALSE
  OBVIOUS
<1>1. FiniteSubsetsOf(S) = SUBSET S
  <2>1. IsFiniteSet(S)
    BY FS_Interval
  <2> QED
    BY <2>1, FS_FiniteSubsetsOfFinite
<1>2. T \subseteq SUBSET S /\ T # {}
  OBVIOUS
<1>3. IsWellFoundedOn(StrictSubsetOrdering(S), SUBSET S)
  BY <1>1, FS_StrictSubsetOrderingWellFounded
<1>4. PICK U \in T : \A V \in T : ~ (<<V, U>> \in StrictSubsetOrdering(S))
  <2> HIDE DEF T, S
  <2> QED
    BY <1>2, <1>3, WFMin
<1>5. PICK m \in S \ P : U = Upto(m)
  BY <1>4
<1>6. m \in 1 .. n /\ m - 1 \notin P
  BY <1>5
<1>7. Upto(m - 1) \subseteq Upto(m) /\ Upto(m - 1) # Upto(m)
  <2>1. m \in Upto(m) /\ m \notin Upto(m - 1)
    BY <1>6
  <2> QED
    BY <2>1, <1>6
<1>8. <<Upto(m - 1), Upto(m)>> \in StrictSubsetOrdering(S)
  BY <1>5, <1>6, <1>7 DEF StrictSubsetOrdering
<1>9. Upto(m - 1) \in T
  BY <1>6
<1> HIDE DEF T, Upto
<1> QED
  BY <1>4, <1>5, <1>8, <1>9

-----------------------------------------------------------------------------

\* The largest number of 1 .. m and its subsets that have m.
LEMMA LargestOfInterval ==
  ASSUME NEW m \in Nat, NEW s \in SUBSET (1 .. m), m \in s
  PROVE  Largest(s) = m
PROOF
<1>1. \A y \in s : m >= y
  OBVIOUS
<1>2. \A x \in s : (\A y \in s : x >= y) => x = m
  OBVIOUS
<1> QED
  BY <1>1, <1>2 DEF Largest

\* A fold passes through one value for each element it has taken, and ends
\* with the last of them.
THEOREM FoldTrace ==
  ASSUME NEW c, NEW base, NEW n \in Nat, NEW seq, DOMAIN seq = 1 .. n
  PROVE  \E g : Trace(c, base, n, seq, g)
PROOF
<1> DEFINE D == 1 .. n
           Step(h, s) == IF s = {} THEN base
                         ELSE Op(c, h[s \ {Largest(s)}], seq[Largest(s)])
           H == CHOOSE h : h = [s \in SUBSET D |-> Step(h, s)]
           Solves(h, m) == /\ h = [s \in SUBSET D |-> h[s]]
                           /\ \A s \in SUBSET (1 .. m) : h[s] = Step(h, s)
           P == {m \in 0 .. n : \E h : Solves(h, m)}
<1>1. Fold(c, base, seq) = H[D]
  BY DEF Fold
<1>2. 0 \in P
  <2> DEFINE h == [s \in SUBSET D |-> base]
  <2>1. \A s \in SUBSET (1 .. 0) : s = {} /\ s \in SUBSET D
    OBVIOUS
  <2>2. Solves(h, 0)
    BY <2>1
  <2> HIDE DEF Solves, h
  <2> QED
    BY <2>2
<1>3. ASSUME NEW m \in 1 .. n, m - 1 \in P PROVE m \in P
  <2>1. PICK h : Solves(h, m - 1)
    BY <1>3
  <2> DEFINE k == [s \in SUBSET D |-> IF m \in s THEN Op(c, h[s \ {m}], seq[m]) ELSE h[s]]
  <2>2. ASSUME NEW s \in SUBSET (1 .. m) PROVE k[s] = Step(k, s)
    <3>1. s \in SUBSET D
      OBVIOUS
    <3>2. CASE m \in s
      <4>1. Largest(s) = m
        BY <3>2, LargestOfInterval
      <4>2. s \ {m} \in SUBSET D /\ k[s \ {m}] = h[s \ {m}]
        BY <3>1
      <4>3. k[s] = Op(c, h[s \ {m}], seq[m])
        BY <3>1, <3>2
      <4> QED
        BY <3>2, <4>1, <4>2, <4>3
    <3>3. CASE m \notin s
      <4>1. s \in SUBSET (1 .. m - 1)
        BY <3>3
      <4>2. h[s] = Step(h, s)
        BY <2>1, <4>1
      <4>3. k[s] = h[s]
        BY <3>1, <3>3
      <4>4. k[s \ {Largest(s)}] = h[s \ {Largest(s)}]
        BY <3>1, <3>3
      <4> QED
        BY <4>2, <4>3, <4>4
    <3> QED
      BY <3>2, <3>3
  <2> HIDE DEF Step
  <2>3. Solves(k, m)
    BY <2>2
  <2> HIDE DEF k, Solves
  <2> QED
    BY <2>3
<1>4. PICK h : Solves(h, n)
  <2>1. 0 .. n \subseteq P
    <3> HIDE DEF P
    <3> QED
      BY <1>2, <1>3, Upwards
  <2>2. n \in P
    <3> HIDE DEF P
    <3> QED
      BY <2>1
  <2> HIDE DEF Solves
  <2> QED
    BY <2>2
<1> HIDE DEF P
<1>5. H = [s \in SUBSET D |-> Step(H, s)]
  <2> HIDE DEF Step
  <2>1. h = [s \in SUBSET D |-> Step(h, s)]
    BY <1>4
  <2> QED
    BY <2>1
<1> HIDE DEF H
<1> DEFINE g == [m \in 0 .. n |-> H[1 .. m]]
<1>6. g[0] = base
  <2>1. 1 .. 0 = {} /\ {} \in SUBSET D
    OBVIOUS
  <2>2. H[{}] = Step(H, {})
    BY <1>5, <2>1
  <2> QED
    BY <2>1, <2>2
<1>7. ASSUME NEW m \in 1 .. n PROVE g[m] = Op(c, g[m - 1], seq[m])
  <2>1. /\ 1 .. m \in SUBSET D /\ m \in 1 .. m
        /\ (1 .. m) \ {m} = 1 .. m - 1
        /\ m - 1 \in 0 .. n /\ m \in 0 .. n
    OBVIOUS
  <2>2. Largest(1 .. m) = m
    BY <2>1, LargestOfInterval
  <2>3. H[1 .. m] = Step(H, 1 .. m)
    <3> HIDE DEF Step
    <3> QED
      BY <1>5, <2>1
  <2>4. H[1 .. m] = Op(c, H[1 .. m - 1], seq[m])
    BY <2>1, <2>2, <2>3
  <2> QED
    BY <2>1, <2>4
<1>8. DOMAIN g = 0 .. n /\ g[n] = H[D]
  OBVIOUS
<1> HIDE DEF g
<1> QED
  BY <1>1, <1>6, <1>7, <1>8 DEF Trace

-----------------------------------------------------------------------------
(* Sums of numbers over finite sets.                                       *)

\* As SumFunctionOnSet and SumFunction have it.
SumOver(f, S) ==
  LET iter[s \in SUBSET S] ==
        IF s = {} THEN 0
        ELSE LET x == CHOOSE x \in s : TRUE IN f[x] + iter[s \ {x}]
  IN iter[S]
SumAll(f) == SumOver(f, DOMAIN f)

\* As IsFiniteSet has it.
Finite(S) == \E seq \in Seq(S) : \A s \in S : \E n \in 1 .. Len(seq) : seq[n] = s

\* The finite sets of this module are those of the library's theorems.
LEMMA FiniteIs == \A S : Finite(S) <=> IsFiniteSet(S)
  BY DEF Finite, IsFiniteSet

\* As many units as the members of S add up to: what a sum counts.
Units(f, S) == UNION {{e} \X (1..f[e]) : e \in S}

\* Taking a member out of S takes its units out.
LEMMA UnitsWithout ==
  ASSUME NEW S, NEW f, NEW x \in S, f[x] \in Nat,
         IsFiniteSet(Units(f, S \ {x}))
  PROVE  /\ IsFiniteSet(Units(f, S))
         /\ Cardinality(Units(f, S)) = f[x] + Cardinality(Units(f, S \ {x}))
PROOF
<1> DEFINE U == {x} \X (1..f[x])
<1>1. IsFiniteSet(1..f[x]) /\ Cardinality(1..f[x]) = f[x]
  <2>1. 1 \in Int /\ f[x] \in Int
    OBVIOUS
  <2>2. /\ IsFiniteSet(1..f[x])
        /\ Cardinality(1..f[x]) = IF 1 > f[x] THEN 0 ELSE f[x] - 1 + 1
    BY <2>1, FS_Interval, Zenon
  <2> QED
    BY <2>2
<1>2. IsFiniteSet({x}) /\ Cardinality({x}) = 1
  BY FS_Singleton
<1>3. IsFiniteSet(U) /\ Cardinality(U) = f[x]
  <2>1. IsFiniteSet(U) /\ Cardinality(U) = Cardinality({x}) * Cardinality(1..f[x])
    BY <1>1, <1>2, FS_Product, Zenon
  <2> HIDE DEF U
  <2> QED
    BY <1>1, <1>2, <2>1
<1>4. Units(f, S) = Units(f, S \ {x}) \cup U
  BY DEF Units
<1>5. Units(f, S \ {x}) \cap U = {}
  BY DEF Units
<1>6. IsFiniteSet({}) /\ Cardinality({}) = 0
  BY FS_EmptySet
<1>7. Cardinality(Units(f, S \ {x})) \in Nat
  BY FS_CardinalityType
<1> HIDE DEF U
<1>8. /\ IsFiniteSet(Units(f, S \ {x}) \cup U)
      /\ Cardinality(Units(f, S \ {x}) \cup U)
           = Cardinality(Units(f, S \ {x})) + Cardinality(U) - Cardinality(Units(f, S \ {x}) \cap U)
  BY <1>3, FS_Union
<1>9. Cardinality(Units(f, S)) = Cardinality(Units(f, S \ {x})) + f[x] - 0
  BY <1>3, <1>4, <1>5, <1>6, <1>8, Zenon
<1>10. IsFiniteSet(Units(f, S))
  BY <1>4, <1>8, Zenon
<1> QED
  BY <1>7, <1>9, <1>10

\* Among sets of members of a finite set there is a minimal one: an induction
\* over finite sets looks at a minimal counterexample.
LEMMA Minimal ==
  ASSUME NEW S, IsFiniteSet(S), NEW T, T \subseteq SUBSET S, T # {}
  PROVE  \E s \in T : \A r \in T : r \subseteq s => r = s
PROOF
<1>1. FiniteSubsetsOf(S) = SUBSET S
  BY FS_FiniteSubsetsOfFinite
<1>2. IsWellFoundedOn(StrictSubsetOrdering(S), SUBSET S)
  BY <1>1, FS_StrictSubsetOrderingWellFounded
<1>3. PICK s \in T : \A r \in T : ~ (<<r, s>> \in StrictSubsetOrdering(S))
  BY <1>2, WFMin
<1> QED
  BY <1>3 DEF StrictSubsetOrdering

\* Finitely many numbers have finitely many units.
LEMMA UnitsFinite ==
  ASSUME NEW S, IsFiniteSet(S), NEW f, \A e \in S : f[e] \in Nat
  PROVE  \A s \in SUBSET S : IsFiniteSet(Units(f, s))
PROOF
<1> DEFINE T == {s \in SUBSET S : ~IsFiniteSet(Units(f, s))}
<1> SUFFICES ASSUME T # {} PROVE FALSE
  OBVIOUS
<1>1. PICK s \in T : \A r \in T : r \subseteq s => r = s
  <2>1. T \subseteq SUBSET S
    OBVIOUS
  <2> HIDE DEF T
  <2> QED
    BY <2>1, Minimal
<1>2. s # {}
  BY <1>1, FS_EmptySet DEF Units
<1>3. PICK x \in s : TRUE
  BY <1>2
<1>4. s \ {x} \notin T
  BY <1>1, <1>3
<1>5. IsFiniteSet(Units(f, s \ {x}))
  BY <1>4
<1> QED
  BY <1>1, <1>3, <1>5, UnitsWithout

\* The fold of the definition adds up: it computes the number of units,
\* whatever the order in which it takes the members.
THEOREM SumIsUnits ==
  ASSUME NEW S, IsFiniteSet(S), NEW f, \A e \in S : f[e] \in Nat
  PROVE  SumOver(f, S) = Cardinality(Units(f, S))
PROOF
<1> DEFINE Step(g, s) == IF s = {} THEN 0 ELSE f[CHOOSE x \in s : TRUE] + g[s \ {CHOOSE x \in s : TRUE}]
           Sum == CHOOSE g : g = [s \in SUBSET S |-> Step(g, s)]
           count == [s \in SUBSET S |-> Cardinality(Units(f, s))]
<1>1. SumOver(f, S) = Sum[S]
  BY DEF SumOver
<1>2. ASSUME NEW s \in SUBSET S
      PROVE  Cardinality(Units(f, s)) = Step(count, s)
  <2>1. CASE s = {}
    BY <2>1, FS_EmptySet DEF Units
  <2>2. CASE s # {}
    <3> DEFINE x == CHOOSE x \in s : TRUE
    <3>1. x \in s
      BY <2>2
    <3> HIDE DEF x
    <3>2. Cardinality(Units(f, s)) = f[x] + Cardinality(Units(f, s \ {x}))
      BY <3>1, UnitsFinite, UnitsWithout
    <3>3. count[s \ {x}] = Cardinality(Units(f, s \ {x}))
      OBVIOUS
    <3> QED
      BY <2>2, <3>2, <3>3 DEF x
  <2> QED
    BY <2>1, <2>2
<1>3. count = [s \in SUBSET S |-> Step(count, s)]
  BY <1>2
<1>4. Sum = [s \in SUBSET S |-> Step(Sum, s)]
  <2> HIDE DEF Step, count
  <2> QED
    BY <1>3
<1> DEFINE T == {s \in SUBSET S : Sum[s] # Cardinality(Units(f, s))}
<1>5. SUFFICES ASSUME T # {} PROVE FALSE
  BY <1>1
<1>6. PICK s \in T : \A r \in T : r \subseteq s => r = s
  <2>1. T \subseteq SUBSET S
    OBVIOUS
  <2> HIDE DEF T
  <2> QED
    BY <1>5, <2>1, Minimal
<1> HIDE DEF Sum
<1>7. Sum[s] = Step(Sum, s)
  <2>1. s \in SUBSET S
    OBVIOUS
  <2> HIDE DEF Step
  <2> QED
    BY <1>4, <2>1
<1> DEFINE x == CHOOSE x \in s : TRUE
<1>8. s # {} => x \in s
  OBVIOUS
<1> HIDE DEF x
<1>9. s # {} => Sum[s \ {x}] = Cardinality(Units(f, s \ {x}))
  BY <1>6, <1>8
<1>10. Step(Sum, s) = Step(count, s)
  BY <1>9 DEF x
<1> QED
  BY <1>2, <1>6, <1>7, <1>10

\* A sum of numbers is one.
LEMMA SumType ==
  ASSUME NEW S, Finite(S), NEW f, \A e \in S : f[e] \in Nat
  PROVE  SumOver(f, S) \in Nat
PROOF
<1> IsFiniteSet(S)
  BY FiniteIs
<1>1. IsFiniteSet(Units(f, S))
  BY UnitsFinite
<1> QED
  BY <1>1, SumIsUnits, FS_CardinalityType

\* A part and the rest of a set add up to the whole.
LEMMA SumApart ==
  ASSUME NEW S, Finite(S), NEW f, \A e \in S : f[e] \in Nat,
         NEW R, R \subseteq S
  PROVE  SumOver(f, S) = SumOver(f, R) + SumOver(f, S \ R)
PROOF
<1> IsFiniteSet(S)
  BY FiniteIs
<1>1. IsFiniteSet(R) /\ IsFiniteSet(S \ R)
  BY FS_Subset
<1>2. /\ SumOver(f, S) = Cardinality(Units(f, S))
      /\ SumOver(f, R) = Cardinality(Units(f, R))
      /\ SumOver(f, S \ R) = Cardinality(Units(f, S \ R))
  BY <1>1, SumIsUnits
<1>3. IsFiniteSet(Units(f, R)) /\ IsFiniteSet(Units(f, S \ R))
  BY UnitsFinite
<1>4. /\ Units(f, S) = Units(f, R) \cup Units(f, S \ R)
      /\ Units(f, R) \cap Units(f, S \ R) = {}
  BY DEF Units
<1>5. Cardinality(Units(f, R) \cup Units(f, S \ R))
        = Cardinality(Units(f, R)) + Cardinality(Units(f, S \ R))
            - Cardinality(Units(f, R) \cap Units(f, S \ R))
  BY <1>3, FS_Union
<1>6. /\ Cardinality({}) = 0
      /\ Cardinality(Units(f, R)) \in Nat
      /\ Cardinality(Units(f, S \ R)) \in Nat
  BY <1>3, FS_EmptySet, FS_CardinalityType
<1>7. Cardinality(Units(f, S))
        = Cardinality(Units(f, R)) + Cardinality(Units(f, S \ R)) - 0
  BY <1>4, <1>5, <1>6, Zenon
<1> QED
  BY <1>2, <1>6, <1>7

\* A member of a set adds its own number.
LEMMA SumWithout ==
  ASSUME NEW S, Finite(S), NEW f, \A e \in S : f[e] \in Nat, NEW x \in S
  PROVE  SumOver(f, S) = f[x] + SumOver(f, S \ {x})
PROOF
<1> IsFiniteSet(S)
  BY FiniteIs
<1>1. IsFiniteSet(S \ {x}) /\ IsFiniteSet(Units(f, S \ {x}))
  BY FS_Subset, UnitsFinite
<1>2. /\ SumOver(f, S) = Cardinality(Units(f, S))
      /\ SumOver(f, S \ {x}) = Cardinality(Units(f, S \ {x}))
  BY <1>1, SumIsUnits
<1>3. Cardinality(Units(f, S)) = f[x] + Cardinality(Units(f, S \ {x}))
  BY <1>1, UnitsWithout
<1> QED
  BY <1>2, <1>3

\* Nothing adds up to nothing, and equal numbers add up to the same.
LEMMA SumEmpty == ASSUME NEW f PROVE SumOver(f, {}) = 0
PROOF
<1>1. IsFiniteSet({}) /\ \A e \in {} : f[e] \in Nat
  BY FS_EmptySet
<1>2. Units(f, {}) = {}
  BY DEF Units
<1>3. SumOver(f, {}) = Cardinality(Units(f, {}))
  BY <1>1, SumIsUnits
<1> QED
  BY <1>2, <1>3, FS_EmptySet

LEMMA SumSame ==
  ASSUME NEW S, Finite(S), NEW f, NEW g,
         \A e \in S : f[e] \in Nat /\ g[e] = f[e]
  PROVE  SumOver(g, S) = SumOver(f, S)
PROOF
<1> IsFiniteSet(S)
  BY FiniteIs
<1>1. Units(g, S) = Units(f, S)
  BY DEF Units
<1>2. SumOver(f, S) = Cardinality(Units(f, S))
  BY SumIsUnits
<1>3. SumOver(g, S) = Cardinality(Units(g, S))
  <2>1. \A e \in S : g[e] \in Nat
    OBVIOUS
  <2> QED
    BY <2>1, SumIsUnits
<1> QED
  BY <1>1, <1>2, <1>3

\* Sums add up.
LEMMA SumPlus ==
  ASSUME NEW S, Finite(S), NEW f, NEW g, NEW h,
         \A e \in S : f[e] \in Nat /\ g[e] \in Nat /\ h[e] = f[e] + g[e]
  PROVE  SumOver(h, S) = SumOver(f, S) + SumOver(g, S)
PROOF
<1> IsFiniteSet(S)
  BY FiniteIs
<1> DEFINE T == {s \in SUBSET S : SumOver(h, s)
                                    # SumOver(f, s) + SumOver(g, s)}
<1> SUFFICES ASSUME T # {} PROVE FALSE
  OBVIOUS
<1>1. PICK s \in T : \A r \in T : r \subseteq s => r = s
  <2>1. T \subseteq SUBSET S
    OBVIOUS
  <2> HIDE DEF T
  <2> QED
    BY <2>1, Minimal
<1>2. s # {}
  <2> SUFFICES ASSUME s = {} PROVE FALSE
    OBVIOUS
  <2>1. /\ SumOver(h, s) = 0 /\ SumOver(f, s) = 0
        /\ SumOver(g, s) = 0
    BY SumEmpty
  <2>2. SumOver(h, s) # SumOver(f, s) + SumOver(g, s)
    OBVIOUS
  <2> QED
    BY <2>1, <2>2
<1>3. PICK x \in s : TRUE
  BY <1>2
<1>4. s \ {x} \notin T
  BY <1>1, <1>3
<1>5. IsFiniteSet(s) /\ IsFiniteSet(s \ {x})
  BY FS_Subset
<1>6. \A e \in s : f[e] \in Nat /\ g[e] \in Nat /\ h[e] \in Nat
  OBVIOUS
<1>7. /\ SumOver(h, s) = h[x] + SumOver(h, s \ {x})
      /\ SumOver(f, s) = f[x] + SumOver(f, s \ {x})
      /\ SumOver(g, s) = g[x] + SumOver(g, s \ {x})
  BY <1>3, <1>5, <1>6, SumWithout, FiniteIs
<1>8. /\ SumOver(f, s \ {x}) \in Nat
      /\ SumOver(g, s \ {x}) \in Nat
  BY <1>5, <1>6, SumType, FiniteIs
<1>9. SumOver(h, s \ {x})
        = SumOver(f, s \ {x}) + SumOver(g, s \ {x})
  BY <1>4
<1>10. f[x] \in Nat /\ g[x] \in Nat /\ h[x] = f[x] + g[x]
  BY <1>3
<1>11. SumOver(h, s) = SumOver(f, s) + SumOver(g, s)
  BY <1>7, <1>8, <1>9, <1>10
<1> QED
  BY <1>11

\* P runs up the n numbers from place a on.
Running(a, n, f, P) ==
  /\ DOMAIN f = a .. a + n - 1
  /\ P[0] = 0
  /\ \A k \in 1 .. n : /\ f[a + k - 1] \in Nat /\ P[k] \in Nat
                        /\ P[k] = P[k - 1] + f[a + k - 1]

\* The numbers from place a on add up to the last of their running totals.
LEMMA SumRunning ==
  ASSUME NEW a \in Int, NEW n \in Nat, NEW f, NEW P, Running(a, n, f, P)
  PROVE  SumAll(f) = P[n]
PROOF
<1> USE DEF Running
<1> DEFINE S(k) == a .. a + k - 1
           Good == {k \in 0 .. n : SumOver(f, S(k)) = P[k]}
<1>1. 0 \in Good
  <2>1. S(0) = {}
    OBVIOUS
  <2>2. SumOver(f, S(0)) = P[0]
    BY <2>1, SumEmpty
  <2> HIDE DEF S
  <2> QED
    BY <2>2
<1>2. ASSUME NEW k \in 1 .. n, k - 1 \in Good PROVE k \in Good
  <2> DEFINE x == a + k - 1
  <2>1. x \in S(k) /\ S(k) \ {x} = S(k - 1)
    <3>1. a \in Int /\ x \in Int /\ a <= x /\ S(k) = a .. x /\ S(k - 1) = a .. x - 1
      OBVIOUS
    <3> HIDE DEF S, x
    <3>2. \A j : j \in (a .. x) \ {x} <=> j \in a .. x - 1
      BY <3>1
    <3> QED
      BY <3>1, <3>2
  <2>2. IsFiniteSet(S(k))
    <3>1. a \in Int /\ x \in Int
      OBVIOUS
    <3> QED
      BY <3>1, FS_Interval
  <2>3. \A e \in S(k) : f[e] \in Nat
    <3> SUFFICES ASSUME NEW e \in S(k) PROVE f[e] \in Nat
      OBVIOUS
    <3>1. e - a + 1 \in 1 .. n /\ a + (e - a + 1) - 1 = e
      OBVIOUS
    <3> QED
      BY <3>1
  <2>4. SumOver(f, S(k)) = f[x] + SumOver(f, S(k) \ {x})
    <3> HIDE DEF S, x
    <3> QED
      BY <2>1, <2>2, <2>3, SumWithout, FiniteIs
  <2>5. SumOver(f, S(k - 1)) = P[k - 1]
    <3> HIDE DEF S
    <3> QED
      BY <1>2
  <2>6. f[x] \in Nat /\ P[k] = P[k - 1] + f[x] /\ P[k] \in Nat /\ P[k - 1] \in Int
    <3>1. f[x] \in Nat /\ P[k] = P[k - 1] + f[x] /\ P[k] \in Nat
      OBVIOUS
    <3>2. k - 1 = 0 \/ k - 1 \in 1 .. n
      OBVIOUS
    <3>3. P[k - 1] \in Int
      <4> DEFINE j == k - 1
      <4>1. j = 0 \/ j \in 1 .. n
        BY <3>2
      <4> HIDE DEF j
      <4>2. P[j] \in Int
        BY <4>1
      <4> QED
        BY <4>2 DEF j
    <3> HIDE DEF x
    <3> QED
      BY <3>1, <3>3
  <2>7. SumOver(f, S(k)) = f[x] + P[k - 1]
    <3> HIDE DEF S, x
    <3> QED
      BY <2>1, <2>4, <2>5
  <2> HIDE DEF S, x
  <2> QED
    BY <2>6, <2>7
<1>3. 0 .. n \subseteq Good
  <2> HIDE DEF Good
  <2> QED
    BY <1>1, <1>2, Upwards
<1>4. SumOver(f, S(n)) = P[n]
  <2> HIDE DEF S
  <2> QED
    BY <1>3
<1> QED
  BY <1>4 DEF SumAll
=============================================================================

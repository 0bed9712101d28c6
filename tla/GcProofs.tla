------------------------------- MODULE GcProofs -----------------------------
(* Theorems about Gc, for every number of entries and every value of its   *)
(* other constants.                                                        *)
EXTENDS Gc, FiniteSetTheorems, TLAPS

-----------------------------------------------------------------------------
(* Sums of bytes.                                                          *)

Plus(c, x, y) == x + y
Sums == INSTANCE Folding WITH Op <- Plus

\* Bytes is the sum whose laws are proved there.
LEMMA BytesAreSums ==
  ASSUME NEW f, NEW S
  PROVE  /\ Bytes(f, S) = Sums!SumOver(f, S)
         /\ IsFiniteSet(S) => Sums!Finite(S)
PROOF
<1>1. Bytes(f, S) = Sums!SumOver(f, S)
  BY DEF Bytes, FoldFunctionOnSet, MapThenFoldSet,
         Sums!SumOver
<1>2. IsFiniteSet(S) => Sums!Finite(S)
  BY DEF IsFiniteSet, Sums!Finite
<1> QED
  BY <1>1, <1>2

\* Sums of bytes are numbers.
LEMMA BytesType ==
  ASSUME NEW S, IsFiniteSet(S), NEW f, \A e \in S : f[e] \in Nat
  PROVE  Bytes(f, S) \in Nat
PROOF
BY BytesAreSums, Sums!SumType

\* A part and the rest of a set add up to the whole.
LEMMA BytesApart ==
  ASSUME NEW S, IsFiniteSet(S), NEW f, \A e \in S : f[e] \in Nat,
         NEW R, R \subseteq S
  PROVE  Bytes(f, S) = Bytes(f, R) + Bytes(f, S \ R)
PROOF
BY BytesAreSums, Sums!SumApart

\* A member of a set adds its own bytes.
LEMMA BytesWithout ==
  ASSUME NEW S, IsFiniteSet(S), NEW f, \A e \in S : f[e] \in Nat, NEW x \in S
  PROVE  Bytes(f, S) = f[x] + Bytes(f, S \ {x})
PROOF
BY BytesAreSums, Sums!SumWithout

-----------------------------------------------------------------------------
(* The plan.                                                               *)

Older(e) == {f \in Removable : f < e}

\* The types of what the plan rests on, and what never changes.
PlanTypes ==
  /\ policy \in [max : Budgets, keep : Limits, dry : BOOLEAN]
  /\ size \in [Entries -> Nat]
  /\ linked \subseteq Entries /\ stuck \subseteq Entries
  /\ next \in 1..(N + 1)
  /\ removed \subseteq Entries
  /\ stopped \in BOOLEAN

\* Nothing removable has been left behind.
SeenGone == removed = Older(next)

\* While the pass goes on it has removed what is planned of the entries it has
\* seen and knows what the others occupy; while the store is over its budget
\* nothing removable has been left behind.  Once stopped it looks at no more.
OnPlan ==
  /\ removed \subseteq Plan
  /\ stopped => next \in Entries
  /\ ~stopped =>
       /\ removed = {e \in Plan : e < next}
       /\ total = Bytes(size, Entries \ removed)
       /\ OverSize => SeenGone

PlanInv == PlanTypes /\ OnPlan

-----------------------------------------------------------------------------

\* A pass lists finitely many entries.
LEMMA EntriesFinite ==
  /\ IsFiniteSet(Entries)
  /\ \A S : S \subseteq Entries => IsFiniteSet(S)
PROOF
<1>1. IsFiniteSet(Entries)
  BY GcAssumption, FS_Interval DEF Entries
<1> QED
  BY <1>1, FS_Subset

\* Any set of entries occupies a number of bytes, and leaves the rest.
LEMMA EntryBytes ==
  ASSUME PlanTypes, NEW R, R \subseteq Entries
  PROVE  /\ Bytes(size, R) \in Nat
         /\ Bytes(size, Entries \ R) \in Nat
         /\ Bytes(size, Entries) = Bytes(size, R) + Bytes(size, Entries \ R)
         /\ \A e \in Entries \ R :
              Bytes(size, Entries \ R) = size[e] + Bytes(size, Entries \ (R \cup {e}))
PROOF
<1>1. IsFiniteSet(Entries)
  BY EntriesFinite
<1>2. \A e \in Entries : size[e] \in Nat
  BY DEF PlanTypes
<1>3. /\ IsFiniteSet(R) /\ \A e \in R : size[e] \in Nat
      /\ IsFiniteSet(Entries \ R) /\ \A e \in Entries \ R : size[e] \in Nat
  BY <1>1, <1>2, FS_Subset
<1>4. Bytes(size, R) \in Nat /\ Bytes(size, Entries \ R) \in Nat
  BY <1>3, BytesType
<1>5. Bytes(size, Entries) = Bytes(size, R) + Bytes(size, Entries \ R)
  BY <1>1, <1>2, BytesApart
<1>6. ASSUME NEW e \in Entries \ R
      PROVE  Bytes(size, Entries \ R) = size[e] + Bytes(size, Entries \ (R \cup {e}))
  <2>1. (Entries \ R) \ {e} = Entries \ (R \cup {e})
    OBVIOUS
  <2>2. Bytes(size, Entries \ R) = size[e] + Bytes(size, (Entries \ R) \ {e})
    BY <1>3, BytesWithout
  <2> QED
    BY <2>1, <2>2
<1> QED
  BY <1>4, <1>5, <1>6

LEMMA PlanInit == Init => PlanInv
PROOF
<1> SUFFICES ASSUME Init PROVE PlanInv
  OBVIOUS
<1>1. PlanTypes
  <2>1. 1 \in 1..(N + 1)
    BY GcAssumption
  <2>2. size \in [Entries -> Nat]
    BY GcAssumption DEF Init
  <2> QED
    BY <2>1, <2>2 DEF Init, PlanTypes
<1>2. Plan \subseteq Entries /\ Removable \subseteq Entries
  BY DEF Plan, Removable
<1>3. {e \in Plan : e < next} = {} /\ Older(next) = {}
  <2>1. \A e \in Entries : ~(e < next)
    BY GcAssumption DEF Entries, Init
  <2> QED
    BY <1>2, <2>1 DEF Older
<1>4. Entries \ removed = Entries
  BY DEF Init
<1>5. SeenGone /\ removed = {e \in Plan : e < next}
  BY <1>3 DEF SeenGone, Init
<1>6. total = Bytes(size, Entries \ removed)
  BY <1>4 DEF Init
<1> QED
  BY <1>1, <1>5, <1>6 DEF PlanInv, OnPlan, Init

\* An entry the pass wants gone and can remove is planned, and no other.
LEMMA WantedIsPlanned ==
  ASSUME PlanInv, ~stopped, NEW e \in Entries, e = next
  PROVE  e \in Plan <=> Wanted(e) /\ e \in Removable
PROOF
<1>1. removed \subseteq Older(e) /\ Older(e) \subseteq Entries
  <2>1. Plan \subseteq Removable /\ Removable \subseteq Entries
    BY DEF Plan, Removable
  <2>2. removed = {f \in Plan : f < e}
    BY DEF PlanInv, OnPlan
  <2> QED
    BY <2>1, <2>2 DEF Older
<1>2. /\ Bytes(size, removed) \in Nat /\ Bytes(size, Older(e)) \in Nat
      /\ Bytes(size, Entries) \in Nat
      /\ Bytes(size, Entries) = Bytes(size, removed) + total
  BY <1>1, EntryBytes DEF PlanInv, OnPlan, PlanTypes
<1>3. Bytes(size, Older(e)) >= Bytes(size, removed)
  <2>1. IsFiniteSet(Older(e)) /\ \A f \in Older(e) : size[f] \in Nat
    BY <1>1, EntriesFinite DEF PlanInv, PlanTypes
  <2>2. Bytes(size, Older(e)) = Bytes(size, removed) + Bytes(size, Older(e) \ removed)
    BY <1>1, <2>1, BytesApart
  <2>3. IsFiniteSet(Older(e) \ removed) /\ \A f \in Older(e) \ removed : size[f] \in Nat
    BY <2>1, FS_Subset
  <2>4. Bytes(size, Older(e) \ removed) \in Nat
    BY <2>3, BytesType
  <2> QED
    BY <1>2, <2>2, <2>4
<1>4. policy.max # None => policy.max \in Nat
  BY GcAssumption DEF PlanInv, PlanTypes
<1>5. total \in Nat
  BY <1>1, EntryBytes DEF PlanInv, OnPlan, PlanTypes
<1>6. OverSize <=> /\ policy.max # None
                   /\ Bytes(size, Entries) - Bytes(size, Older(e)) > policy.max
  <2>1. CASE OverSize
    <3>1. removed = Older(e)
      BY <2>1 DEF PlanInv, OnPlan, SeenGone
    <3> QED
      BY <1>2, <1>4, <1>5, <2>1, <3>1 DEF OverSize
  <2>2. CASE ~OverSize
    BY <1>2, <1>3, <1>4, <1>5, <2>2 DEF OverSize
  <2> QED
    BY <2>1, <2>2
<1> QED
  BY <1>6 DEF Plan, Wanted, Older

\* Going on from entry e adds at most e to what has been seen.
LEMMA SeenNext ==
  ASSUME NEW e \in Entries
  PROVE  /\ {f \in Plan : f < e + 1} = {f \in Plan : f < e} \cup (Plan \cap {e})
         /\ Older(e + 1) = Older(e) \cup (Removable \cap {e})
PROOF
<1>1. \A f \in Entries : f < e + 1 <=> f < e \/ f = e
  BY GcAssumption DEF Entries
<1>2. Plan \subseteq Entries /\ Removable \subseteq Entries
  BY DEF Plan, Removable
<1> QED
  BY <1>1, <1>2 DEF Older

\* Nothing the plan is made from changes.
LEMMA PlanStays ==
  ASSUME UNCHANGED world
  PROVE  Plan' = Plan /\ Removable' = Removable /\ \A e : Older(e)' = Older(e)
  BY DEF world, Plan, Removable, Older, TooOld, Entries

LEMMA KeepOnPlan ==
  ASSUME PlanInv, NEW e \in Entries, Keep(e)
  PROVE  PlanInv'
PROOF
<1>1. /\ ~stopped /\ e = next /\ ~(Wanted(e) /\ e \in Removable)
      /\ next' = e + 1
      /\ UNCHANGED <<world, total, free, tides, lastFree, removed, stopped>>
  BY DEF Keep, Looking, Removable
<1>2. e \notin Plan
  BY <1>1, WantedIsPlanned
<1>3. UNCHANGED world /\ UNCHANGED <<policy, size, linked, stuck, total, removed, stopped>>
  BY <1>1 DEF world
<1>4. Plan' = Plan /\ Older(e + 1)' = Older(e + 1)
  BY <1>3, PlanStays
<1>5. next' \in 1..(N + 1) /\ e \in Int
  BY <1>1, GcAssumption DEF Entries
<1>7. {f \in Plan : f < e + 1} = {f \in Plan : f < e}
  BY <1>2, SeenNext
<1>8. OverSize' => SeenGone'
  <2>1. OverSize' => OverSize
    BY <1>3 DEF OverSize
  <2>2. OverSize => e \notin Removable
    BY <1>1 DEF Wanted
  <2>3. e \notin Removable => Older(e + 1) = Older(e)
    BY SeenNext
  <2>4. OverSize => removed = Older(e)
    BY <1>1 DEF PlanInv, OnPlan, SeenGone
  <2>5. OverSize => removed = Older(e + 1)
    BY <2>2, <2>3, <2>4
  <2>6. SeenGone' <=> removed' = Older(e + 1)
    BY <1>1, <1>3 DEF SeenGone, Older, Removable, Entries
  <2> QED
    BY <1>3, <2>1, <2>5, <2>6
<1>9. PlanTypes'
  BY <1>3, <1>5 DEF PlanInv, PlanTypes, Entries
<1>10. removed' = {f \in Plan' : f < next'}
  BY <1>1, <1>3, <1>4, <1>7 DEF PlanInv, OnPlan
<1>11. total' = Bytes(size', Entries \ removed')
  BY <1>1, <1>3 DEF PlanInv, OnPlan
<1> QED
  BY <1>1, <1>3, <1>4, <1>8, <1>9, <1>10, <1>11 DEF PlanInv, OnPlan, Entries

\* Removing a planned entry, really or in a dry run.
LEMMA AccountOnPlan ==
  ASSUME PlanInv, NEW e \in Entries, Looking(e), Wanted(e), e \in Removable,
         Account(e), UNCHANGED <<world, stopped>>
  PROVE  PlanInv'
PROOF
<1>1. /\ ~stopped /\ e = next
      /\ next' = e + 1 /\ removed' = removed \cup {e}
      /\ total' = IF total > size[e] THEN total - size[e] ELSE 0
      /\ UNCHANGED <<policy, size, linked, stuck, stopped>>
  BY DEF Looking, Account, world
<1>2. e \in Plan
  BY <1>1, WantedIsPlanned
<1>3. /\ removed = {f \in Plan : f < e}
      /\ total = Bytes(size, Entries \ removed)
      /\ OverSize => removed = Older(e)
      /\ removed \subseteq Entries
  BY <1>1 DEF PlanInv, OnPlan, SeenGone, PlanTypes
<1>4. Plan' = Plan
  BY PlanStays
<1>5. e \notin {f \in Plan : f < e}
  BY GcAssumption DEF Entries
<1>6. /\ total = size[e] + Bytes(size, Entries \ removed')
      /\ Bytes(size, Entries \ removed') \in Nat /\ size[e] \in Nat
  <2>1. e \in Entries \ removed /\ removed' \subseteq Entries
    BY <1>1, <1>3, <1>5
  <2>2. Bytes(size, Entries \ removed)
          = size[e] + Bytes(size, Entries \ (removed \cup {e}))
    BY <1>3, <2>1, EntryBytes DEF PlanInv
  <2>3. Bytes(size, Entries \ removed') \in Nat
    BY <2>1, EntryBytes DEF PlanInv
  <2> QED
    BY <1>1, <1>3, <2>2, <2>3 DEF PlanInv, PlanTypes
<1>7. total' = Bytes(size', Entries \ removed')
  BY <1>1, <1>6
<1>8. removed' = {f \in Plan' : f < next'}
  BY <1>1, <1>2, <1>3, <1>4, SeenNext
<1>9. OverSize' => SeenGone'
  <2>1. policy.max # None => policy.max \in Nat
    BY GcAssumption DEF PlanInv, PlanTypes
  <2>2. OverSize' => OverSize
    BY <1>1, <1>6, <1>7, <2>1 DEF OverSize
  <2>3. OverSize => removed' = Older(e + 1)
    BY <1>1, <1>3, SeenNext
  <2>4. SeenGone' <=> removed' = Older(e + 1)
    BY <1>1 DEF SeenGone, Older, Removable, Entries
  <2> QED
    BY <2>2, <2>3, <2>4
<1>10. next' \in 1..(N + 1)
  BY <1>1, GcAssumption DEF Entries
<1>11. PlanTypes'
  BY <1>1, <1>3, <1>10 DEF PlanInv, PlanTypes, Entries
<1>12. removed' \subseteq Plan'
  BY <1>8
<1> QED
  BY <1>1, <1>7, <1>8, <1>9, <1>11, <1>12 DEF PlanInv, OnPlan, Entries

\* Giving up at a planned entry.
LEMMA StopOnPlan ==
  ASSUME PlanInv, NEW e \in Entries, Looking(e), Wanted(e), e \in Removable,
         stopped' = TRUE, removed' = removed \cup {e},
         UNCHANGED <<world, next, total>>
  PROVE  PlanInv'
PROOF
<1>1. /\ ~stopped /\ e = next
      /\ UNCHANGED <<policy, size, linked, stuck>>
  BY DEF Looking, world
<1>2. e \in Plan
  BY <1>1, WantedIsPlanned
<1>3. Plan' = Plan
  BY PlanStays
<1>4. PlanTypes'
  BY <1>1 DEF PlanInv, PlanTypes, Entries
<1>5. removed' \subseteq Plan' /\ next' \in Entries'
  BY <1>1, <1>2, <1>3 DEF PlanInv, OnPlan, Entries
<1> QED
  BY <1>4, <1>5 DEF PlanInv, OnPlan

LEMMA PlanNext == PlanInv /\ [Next]_vars => PlanInv'
PROOF
<1> SUFFICES ASSUME PlanInv, [Next]_vars PROVE PlanInv'
  OBVIOUS
<1>1. ASSUME NEW e \in Entries, Keep(e) PROVE PlanInv'
  BY <1>1, KeepOnPlan
<1>2. ASSUME NEW e \in Entries, DryEvict(e) PROVE PlanInv'
  <2>1. /\ Looking(e) /\ Wanted(e) /\ e \in Removable
        /\ Account(e) /\ UNCHANGED <<world, stopped>>
    BY <1>2 DEF DryEvict, Removable
  <2> QED
    BY <2>1, AccountOnPlan
<1>3. ASSUME NEW e \in Entries, Evict(e) PROVE PlanInv'
  <2>1. Looking(e) /\ Wanted(e) /\ e \in Removable /\ UNCHANGED world
    BY <1>3 DEF Evict, Removable
  <2>2. CASE NoProgress(e)
    BY <1>3, <2>1, <2>2, StopOnPlan DEF Evict
  <2>3. CASE ~NoProgress(e)
    BY <1>3, <2>1, <2>3, AccountOnPlan DEF Evict
  <2> QED
    BY <2>2, <2>3
<1>4. CASE UNCHANGED vars
  <2>1. UNCHANGED <<policy, size, linked, stuck, next, total, removed, stopped>> /\ UNCHANGED world
    BY <1>4 DEF vars, world
  <2>2. Plan' = Plan
    BY <2>1, PlanStays
  <2>3. SeenGone' = SeenGone /\ OverSize' = OverSize /\ PlanTypes' = PlanTypes
    BY <2>1 DEF SeenGone, OverSize, PlanTypes, Older, Removable, Entries
  <2> QED
    BY <2>1, <2>2, <2>3 DEF PlanInv, OnPlan, Entries
<1> QED
  BY <1>1, <1>2, <1>3, <1>4 DEF Next

\* At the end everything removable and planned is gone.
LEMMA PlanDone == PlanInv => MatchesPlan /\ FitsBudget
PROOF
<1> SUFFICES ASSUME PlanInv PROVE MatchesPlan /\ FitsBudget
  OBVIOUS
<1>1. Done => ~stopped
  BY GcAssumption DEF Done, PlanInv, OnPlan, PlanTypes, Entries
<1>2. \A e \in Entries : Done => e < next
  BY GcAssumption DEF Done, Entries
<1>3. Plan \subseteq Entries /\ Removable \subseteq Entries
  BY DEF Plan, Removable
<1>4. MatchesPlan
  BY <1>1, <1>2, <1>3 DEF MatchesPlan, PlanInv, OnPlan
<1>5. ASSUME Done, policy.max # None, ~policy.dry,
             ~(Bytes(size, Entries \ removed) <= policy.max)
      PROVE  Entries \ removed \subseteq linked \cup stuck
  <2>1. OverSize
    <3>1. total = Bytes(size, Entries \ removed) /\ total \in Nat
      BY <1>1, <1>5, EntryBytes DEF PlanInv, OnPlan, PlanTypes
    <3>2. policy.max \in Nat
      BY <1>5, GcAssumption DEF PlanInv, PlanTypes
    <3> QED
      BY <1>5, <3>1, <3>2 DEF OverSize
  <2>2. removed = Older(next)
    BY <1>1, <1>5, <2>1 DEF PlanInv, OnPlan, SeenGone
  <2>3. removed = Removable
    BY <1>2, <1>3, <1>5, <2>2 DEF Older
  <2> QED
    BY <1>5, <2>3 DEF Removable
<1> QED
  BY <1>4, <1>5 DEF FitsBudget

-----------------------------------------------------------------------------

\* A pass removes only what is planned, and all of it unless it is stopped: the
\* oldest removable entries and no more than the policy needs, in a dry run as
\* in a real one, for every number of entries (store.rs 496-555).
THEOREM GcMatchesPlan == Spec => []MatchesPlan
PROOF
<1>1. Init => PlanInv
  BY PlanInit
<1>2. PlanInv /\ [Next]_vars => PlanInv'
  BY PlanNext
<1>3. PlanInv => MatchesPlan
  BY PlanDone
<1> QED
  BY <1>1, <1>2, <1>3, PTL DEF Spec

\* After a real pass the store fits its budget, unless all that is left is
\* linked or cannot be removed (store.rs 467).
THEOREM GcFitsBudget == Spec => []FitsBudget
PROOF
<1>1. Init => PlanInv
  BY PlanInit
<1>2. PlanInv /\ [Next]_vars => PlanInv'
  BY PlanNext
<1>3. PlanInv => FitsBudget
  BY PlanDone
<1> QED
  BY <1>1, <1>2, <1>3, PTL DEF Spec

-----------------------------------------------------------------------------
(* Giving up.                                                              *)

\* The types of what the measurements of the free space rest on.
MeasureTypes ==
  /\ policy \in [max : Budgets, keep : Limits, dry : BOOLEAN]
  /\ size \in [Entries -> Nat]
  /\ gain \in [Entries -> Nat]
  /\ free \in Int
  /\ lastFree \in Int \cup {None}
  /\ tides \subseteq Int
  /\ removed \subseteq Entries
  /\ stopped \in BOOLEAN

\* The last measurement still holds: between two of them the pass removes only
\* empty blobs.
Baseline ==
  /\ \A e \in Entries : gain[e] <= size[e]
  /\ policy.max # None /\ lastFree # None => lastFree = free

\* The blobs whose removal claimed bytes and freed none.
Futile == {e \in removed : size[e] > 0 /\ gain[e] = 0}

\* A futile removal either sets the baseline or, when there is one, ends the
\* pass.  (0 stands for no entry.)
FewFutile ==
  policy.max # None /\ ~policy.dry /\ (\A t \in tides : t <= 0) =>
    /\ lastFree = None => Futile = {}
    /\ ~stopped => \E e \in 0..N : Futile \subseteq {e}
    /\ \E e, f \in 0..N : Futile \subseteq {e, f}

MeasureInv == MeasureTypes /\ Baseline /\ GivesUpForCause /\ FewFutile

-----------------------------------------------------------------------------

LEMMA MeasureInit == Init => MeasureInv
PROOF
<1> SUFFICES ASSUME Init PROVE MeasureInv
  OBVIOUS
<1>1. /\ size \in [Entries -> Nat] /\ gain \in [Entries -> Nat]
      /\ \A e \in Entries : gain[e] <= size[e]
  <2>1. size \in [Entries -> Sizes] /\ gain \in [Entries -> Sizes \cup {0}]
    BY DEF Init
  <2>2. \A e \in Entries : gain[e] <= size[e]
    BY DEF Init
  <2>3. Sizes \subseteq Nat /\ Sizes \cup {0} \subseteq Nat
    BY GcAssumption
  <2> QED
    BY <2>1, <2>2, <2>3
<1>2. MeasureTypes /\ Baseline /\ GivesUpForCause
  <2>0. /\ policy \in [max : Budgets, keep : Limits, dry : BOOLEAN]
        /\ free = 0 /\ tides = {} /\ lastFree = None
        /\ removed = {} /\ stopped = FALSE
    BY DEF Init
  <2>1. MeasureTypes
    <3>1. free \in Int
      BY <2>0
    <3>2. lastFree \in Int \cup {None} /\ tides \subseteq Int /\ removed \subseteq Entries
      BY <2>0
    <3> QED
      BY <1>1, <2>0, <3>1, <3>2, Zenon DEF MeasureTypes
  <2>2. Baseline
    BY <1>1, <2>0 DEF Baseline
  <2>3. GivesUpForCause
    BY DEF Init, GivesUpForCause
  <2> QED
    BY <2>1, <2>2, <2>3
<1>3. Futile = {} /\ 0 \in 0..N
  BY GcAssumption DEF Init, Futile
<1>4. FewFutile
  BY <1>3 DEF FewFutile
<1> QED
  BY <1>2, <1>4 DEF MeasureInv

\* What one removal does to the measurements.
LEMMA EvictMeasures ==
  ASSUME MeasureInv, NEW e \in Entries, Evict(e)
  PROVE  /\ ~stopped /\ ~policy.dry
         /\ UNCHANGED <<policy, size, gain>>
         /\ removed' = removed \cup {e}
         /\ stopped' = NoProgress(e)
         /\ \E t \in Int : /\ free' = free + gain[e] + t
                           /\ tides' = tides \cup {t}
                           /\ Measures(e) \/ t = 0
         /\ lastFree' = IF Measures(e) THEN free' ELSE lastFree
PROOF
<1>1. /\ ~stopped /\ ~policy.dry /\ UNCHANGED <<policy, size, gain>>
      /\ lastFree' = IF Measures(e) THEN free' ELSE lastFree
  BY DEF Evict, Looking, world
<1>2. removed' = removed \cup {e} /\ stopped' = NoProgress(e)
  <2>1. CASE NoProgress(e)
    BY <2>1 DEF Evict
  <2>2. CASE ~NoProgress(e)
    <3>1. Account(e) /\ UNCHANGED stopped
      BY <2>2 DEF Evict
    <3>2. NoProgress(e) = FALSE
      BY <2>2 DEF NoProgress
    <3> QED
      BY <1>1, <3>1, <3>2 DEF Account, MeasureInv, MeasureTypes
  <2> QED
    BY <2>1, <2>2 DEF NoProgress
<1>3. \E t \in Int : /\ free' = free + gain[e] + t
                     /\ tides' = tides \cup {t}
                     /\ Measures(e) \/ t = 0
  BY GcAssumption DEF Evict
<1> QED
  BY <1>1, <1>2, <1>3

LEMMA EvictKeeps ==
  ASSUME MeasureInv, NEW e \in Entries, Evict(e)
  PROVE  MeasureInv'
PROOF
<1>1. /\ ~stopped /\ ~policy.dry
      /\ UNCHANGED <<policy, size, gain>>
      /\ removed' = removed \cup {e}
      /\ stopped' = NoProgress(e)
      /\ lastFree' = IF Measures(e) THEN free' ELSE lastFree
  BY EvictMeasures
<1>2. PICK t \in Int : /\ free' = free + gain[e] + t
                       /\ tides' = tides \cup {t}
                       /\ Measures(e) \/ t = 0
  BY EvictMeasures
<1>3. /\ size[e] \in Nat /\ gain[e] \in Nat /\ gain[e] <= size[e]
      /\ free \in Int /\ lastFree \in Int \cup {None} /\ None \notin Int
  BY GcAssumption DEF MeasureInv, MeasureTypes, Baseline
<1>4. free' \in Int
  BY <1>2, <1>3
<1>5. MeasureTypes'
  BY <1>1, <1>2, <1>3, <1>4 DEF MeasureInv, MeasureTypes, Entries, NoProgress
<1>6. Baseline'
  <2>1. policy.max # None /\ ~Measures(e) => free' = free
    BY <1>2, <1>3 DEF Measures
  <2> QED
    BY <1>1, <2>1 DEF MeasureInv, Baseline, Entries
<1>7. NoProgress(e) => /\ Measures(e) /\ lastFree = free
                       /\ (gain[e] + t) * 4 < size[e]
  <2>1. Measures(e) /\ lastFree # None => lastFree = free
    BY DEF MeasureInv, Baseline, Measures
  <2>2. lastFree = free => free' - lastFree = gain[e] + t
    BY <1>2, <1>3
  <2> QED
    BY <2>1, <2>2 DEF NoProgress
<1>8. GivesUpForCause'
  <2> SUFFICES ASSUME stopped', \A u \in tides' : u >= 0
               PROVE  gain[e] * 4 < size[e]
    BY <1>1 DEF GivesUpForCause
  <2>1. t >= 0
    BY <1>2
  <2> QED
    BY <1>1, <1>3, <1>7, <2>1
<1>9. FewFutile'
  <2> SUFFICES ASSUME policy.max # None, \A u \in tides' : u <= 0
               PROVE  /\ lastFree' = None => Futile' = {}
                      /\ ~stopped' => \E f \in 0..N : Futile' \subseteq {f}
                      /\ \E f, g \in 0..N : Futile' \subseteq {f, g}
    BY <1>1 DEF FewFutile
  <2>1. t <= 0 /\ \A u \in tides : u <= 0
    BY <1>2
  <2>2. /\ lastFree = None => Futile = {}
        /\ \E f \in 0..N : Futile \subseteq {f}
    BY <1>1, <2>1 DEF MeasureInv, FewFutile
  <2>3. Futile' \subseteq Futile \cup {e}
    BY <1>1 DEF Futile
  <2>4. e \in 0..N
    BY GcAssumption DEF Entries
  <2>5. CASE ~(size[e] > 0 /\ gain[e] = 0)
    <3>1. Futile' = Futile
      BY <1>1, <2>5 DEF Futile
    <3>2. lastFree' = None => lastFree = None
      BY <1>1, <1>3, <1>4
    <3> QED
      BY <2>2, <3>1, <3>2
  <2>6. CASE size[e] > 0 /\ gain[e] = 0
    <3>1. Measures(e) /\ lastFree' = free' /\ lastFree' # None
      BY <1>1, <1>3, <1>4, <2>6 DEF Measures
    <3>2. CASE lastFree = None
      BY <2>2, <2>3, <2>4, <3>1, <3>2
    <3>3. CASE lastFree # None
      <4>1. lastFree = free
        BY <3>3 DEF MeasureInv, Baseline
      <4>2. (free' - lastFree) * 4 < size[e]
        BY <1>2, <1>3, <2>1, <2>6, <4>1
      <4>3. stopped'
        BY <1>1, <3>1, <3>3, <4>2 DEF NoProgress
      <4> QED
        BY <2>2, <2>3, <2>4, <3>1, <4>3
    <3> QED
      BY <3>2, <3>3
  <2> QED
    BY <2>5, <2>6
<1> QED
  BY <1>5, <1>6, <1>8, <1>9 DEF MeasureInv

LEMMA MeasureNext == MeasureInv /\ [Next]_vars => MeasureInv'
PROOF
<1> SUFFICES ASSUME MeasureInv, [Next]_vars PROVE MeasureInv'
  OBVIOUS
<1>1. ASSUME UNCHANGED <<policy, size, gain, free, tides, lastFree, removed, stopped>>
      PROVE  MeasureInv'
  BY <1>1 DEF MeasureInv, MeasureTypes, Baseline, GivesUpForCause, FewFutile, Futile, Entries
<1>2. ASSUME NEW e \in Entries, Keep(e) PROVE MeasureInv'
  BY <1>1, <1>2 DEF Keep, world
<1>3. ASSUME NEW e \in Entries, DryEvict(e) PROVE MeasureInv'
  <2>1. /\ ~stopped /\ policy.dry /\ removed' = removed \cup {e}
        /\ UNCHANGED <<policy, size, gain, free, tides, lastFree, stopped>>
    BY <1>3 DEF DryEvict, Looking, Account, world
  <2>2. MeasureTypes' /\ Baseline'
    BY <2>1 DEF MeasureInv, MeasureTypes, Baseline, Entries
  <2>3. GivesUpForCause' /\ FewFutile'
    BY <2>1 DEF GivesUpForCause, FewFutile
  <2> QED
    BY <2>2, <2>3 DEF MeasureInv
<1>4. ASSUME NEW e \in Entries, Evict(e) PROVE MeasureInv'
  BY <1>4, EvictKeeps
<1>5. CASE UNCHANGED vars
  BY <1>1, <1>5 DEF vars, world
<1> QED
  BY <1>2, <1>3, <1>4, <1>5 DEF Next

\* A set of at most two members has at most two members.
LEMMA TwoAtMost ==
  ASSUME NEW e, NEW f, NEW S, S \subseteq {e, f}
  PROVE  Cardinality(S) <= 2
PROOF
<1>1. IsFiniteSet({e}) /\ Cardinality({e}) = 1
  BY FS_Singleton
<1>2. /\ IsFiniteSet({e} \cup {f})
      /\ Cardinality({e} \cup {f}) = IF f \in {e} THEN Cardinality({e}) ELSE Cardinality({e}) + 1
  BY <1>1, FS_AddElement
<1>3. S \subseteq {e} \cup {f}
  OBVIOUS
<1>4. IsFiniteSet(S) /\ Cardinality(S) <= Cardinality({e} \cup {f})
  BY <1>2, <1>3, FS_Subset
<1>5. Cardinality(S) \in Nat
  BY <1>4, FS_CardinalityType
<1> QED
  BY <1>1, <1>2, <1>4, <1>5

LEMMA FewAreTwo == MeasureInv => GivesUp
PROOF
<1> SUFFICES ASSUME MeasureInv, policy.max # None, ~policy.dry, \A t \in tides : t <= 0
             PROVE  Cardinality(Futile) <= 2
  BY DEF GivesUp, Futile
<1>1. PICK e, f \in 0..N : Futile \subseteq {e, f}
  BY DEF MeasureInv, FewFutile
<1> QED
  BY <1>1, TwoAtMost

-----------------------------------------------------------------------------

\* Where removing blobs frees nothing, a size budget does not empty the store:
\* at most two futile removals, whatever the sizes and however many entries
\* there are (store.rs 534-538).
THEOREM GcGivesUp == Spec => []GivesUp
PROOF
<1>1. Init => MeasureInv
  BY MeasureInit
<1>2. MeasureInv /\ [Next]_vars => MeasureInv'
  BY MeasureNext
<1>3. MeasureInv => GivesUp
  BY FewAreTwo
<1> QED
  BY <1>1, <1>2, <1>3, PTL DEF Spec

\* The pass gives up only when a removal freed less than a quarter of what it
\* claimed, or another process filled what it freed (store.rs 542).
THEOREM GcGivesUpForCause == Spec => []GivesUpForCause
PROOF
<1>1. Init => MeasureInv
  BY MeasureInit
<1>2. MeasureInv /\ [Next]_vars => MeasureInv'
  BY MeasureNext
<1>3. MeasureInv => GivesUpForCause
  BY DEF MeasureInv
<1> QED
  BY <1>1, <1>2, <1>3, PTL DEF Spec

=============================================================================

--------------------------------- MODULE Gc ---------------------------------
(***************************************************************************)
(* One eviction pass of gc (src/store.rs 473-568) over the entries it  *)
(* listed: the size budget, the age limit, what it keeps and when it gives *)
(* up.  Entries are numbered in the order the pass visits them, oldest     *)
(* first.  Module Store has the files and the other processes; here the    *)
(* bytes and the clock count.                                              *)
(***************************************************************************)
EXTENDS Integers, FiniteSets, Functions

CONSTANTS
  N,           (* the number of entries listed                             *)
  Sizes,       (* the sizes of a blob on disk                              *)
  Ages,        (* the last_used stamps                                     *)
  Now,         (* the time of the pass                                     *)
  Budgets,     (* the values of --max-mb, None if not given                *)
  Limits,      (* the values of --keep-days, None if not given             *)
  Tides,       (* what other processes free, or fill if negative, between  *)
               (* two measurements of the free space                       *)
  None

Entries == 1..N

ASSUME GcAssumption ==
  /\ N \in Nat
  /\ Sizes \subseteq Nat /\ Ages \subseteq Nat /\ Now \in Nat
  /\ Budgets \subseteq Nat \cup {None} /\ Limits \subseteq Nat \cup {None}
  /\ Tides \subseteq Int /\ 0 \in Tides
  /\ None \notin Int

VARIABLES
  policy,      (* GcPolicy                                                 *)
  size,        (* the bytes each blob occupies                             *)
  gain,        (* the bytes its removal really frees: fewer than size when *)
               (* it shares blocks, none when the blob is already gone     *)
  used,        (* last_used as the pass listed it                          *)
  linked,      (* the entries whose blob has st_nlink > 1                  *)
  stuck,       (* the entries whose blob cannot be removed                 *)
  next,        (* the entry the pass looks at next                         *)
  total,       (* the bytes the pass believes the store occupies           *)
  free,        (* the free bytes of the filesystem, from the start of the  *)
               (* pass                                                     *)
  tides,       (* the tides met so far                                     *)
  lastFree,    (* GcReport.last_free                                       *)
  removed,     (* GcReport.removed                                         *)
  stopped      (* GcReport.stopped_early                                   *)

world == <<policy, size, gain, used, linked, stuck>>
vars == <<world, next, total, free, tides, lastFree, removed, stopped>>

Bytes(f, S) == FoldFunctionOnSet(LAMBDA x, y : x + y, 0, f, S)

Init ==
  /\ policy \in [max : Budgets, keep : Limits, dry : BOOLEAN]
  /\ size \in [Entries -> Sizes]
  /\ gain \in {g \in [Entries -> Sizes \cup {0}] :
                 \A e \in Entries : g[e] <= size[e]}
  /\ used \in {u \in [Entries -> Ages] : \A e \in 2..N : u[e - 1] <= u[e]}
  /\ linked \in SUBSET Entries
  /\ stuck \in SUBSET (Entries \ linked)
  /\ next = 1
  /\ total = Bytes(size, Entries)
  /\ free = 0
  /\ tides = {}
  /\ lastFree = None
  /\ removed = {}
  /\ stopped = FALSE

TooOld(e) == policy.keep # None /\ Now - used[e] > policy.keep

\* Mutant of OverSize: a store that just fits is over its budget.
OverSizeAtBudget == policy.max # None /\ total >= policy.max

OverSize == policy.max # None /\ total > policy.max

Wanted(e) == OverSize \/ TooOld(e)

Looking(e) == ~stopped /\ e = next /\ e \in Entries

\* Within the policy, linked into a catalog, or not removable.
Keep(e) ==
  /\ Looking(e)
  /\ \/ ~Wanted(e)
     \/ e \in linked
     \/ e \in stuck /\ ~policy.dry
  /\ next' = e + 1
  /\ UNCHANGED <<world, total, free, tides, lastFree, removed, stopped>>

\* Mutant of Account: the bytes are taken off twice.
AccountTwice(e) ==
  /\ next' = e + 1
  /\ removed' = removed \cup {e}
  /\ total' = total - 2 * size[e]

Account(e) ==
  /\ next' = e + 1
  /\ removed' = removed \cup {e}
  /\ total' = IF total > size[e] THEN total - size[e] ELSE 0

DryEvict(e) ==
  /\ Looking(e) /\ Wanted(e) /\ e \notin linked
  /\ policy.dry
  /\ Account(e)
  /\ UNCHANGED <<world, free, tides, lastFree, stopped>>

\* Under a size budget the pass measures what removing a non-empty blob freed
\* since the measurement before; the first one only sets the baseline.
Measures(e) == policy.max # None /\ size[e] > 0

\* Mutant of NoProgress: only a shrinking filesystem counts.
NoProgressShrinks(e) == Measures(e) /\ lastFree # None /\ free' < lastFree

\* Mutant of NoProgress: a quarter is not enough.
NoProgressQuarter(e) ==
  Measures(e) /\ lastFree # None /\ (free' - lastFree) * 4 <= size[e]

NoProgress(e) ==
  Measures(e) /\ lastFree # None /\ (free' - lastFree) * 4 < size[e]

Evict(e) ==
  /\ Looking(e) /\ Wanted(e) /\ e \notin linked \cup stuck
  /\ ~policy.dry
  /\ \E t \in IF Measures(e) THEN Tides ELSE {0} :
       free' = free + gain[e] + t /\ tides' = tides \cup {t}
  /\ lastFree' = IF Measures(e) THEN free' ELSE lastFree
  /\ IF NoProgress(e)
       THEN /\ stopped' = TRUE
            /\ removed' = removed \cup {e}
            /\ UNCHANGED <<next, total>>
       ELSE Account(e) /\ UNCHANGED stopped
  /\ UNCHANGED world

Next == \E e \in Entries : Keep(e) \/ DryEvict(e) \/ Evict(e)

Spec == Init /\ [][Next]_vars

-----------------------------------------------------------------------------

Done == next = N + 1

\* What a pass should remove, said without the running total: a removable
\* entry that is too old, or with which, all removable older entries gone, the
\* store would still be over its budget.
Removable == Entries \ (linked \cup IF policy.dry THEN {} ELSE stuck)
Plan ==
  {e \in Removable :
     \/ TooOld(e)
     \/ /\ policy.max # None
        /\ Bytes(size, Entries) - Bytes(size, {f \in Removable : f < e}) > policy.max}

\* A pass removes only what is planned, and all of it unless it is stopped: the
\* oldest removable entries and no more than the policy needs, whatever other
\* processes do to the free space meanwhile.  A dry run reports the same
\* (store.rs 496-555).
MatchesPlan == removed \subseteq Plan /\ (Done => removed = Plan)

\* After a real pass the store fits its budget, unless all that is left is
\* linked or cannot be removed (store.rs 467).
FitsBudget ==
  Done /\ policy.max # None /\ ~policy.dry =>
    \/ Bytes(size, Entries \ removed) <= policy.max
    \/ Entries \ removed \subseteq linked \cup stuck

\* Where removing blobs frees nothing, a size budget does not empty the store:
\* the pass gives up at the second futile removal, unless another process frees
\* space and passes for progress (store.rs 534-538).
GivesUp ==
  policy.max # None /\ ~policy.dry /\ (\A t \in tides : t <= 0) =>
    Cardinality({e \in removed : size[e] > 0 /\ gain[e] = 0}) <= 2

\* The pass gives up only when a removal freed less than a quarter of what it
\* claimed, or another process filled what it freed (store.rs 542).
GivesUpForCause ==
  stopped /\ (\A t \in tides : t >= 0) => \E e \in removed : gain[e] * 4 < size[e]
=============================================================================

----------------------------- MODULE ImageCache -----------------------------
(***************************************************************************)
(* What vmbuild promises its callers, with no files in sight: a cache of   *)
(* images and a catalog of names.  A build is asked for a key and perhaps  *)
(* a catalog name; the image is supplied, from the cache or by building    *)
(* it; only then may the name change, at once, to that image; only then    *)
(* does the build return.  Images may be evicted at any time, names may be *)
(* withdrawn, builds may fail, but no name ever shows anything except an   *)
(* image some build supplied for it.                                       *)
(***************************************************************************)

CONSTANTS Keys, Dests, Builders, None

VARIABLES
  stored,      (* the keys whose image is in the cache                     *)
  catalog,     (* the image each name shows, None if there is no such name *)
  stage,       (* how far each build is                                    *)
  request      (* what each build was asked: <<key, name>>                 *)

vars == <<stored, catalog, stage, request>>

Requested == Keys \X (Dests \cup {None})
NoRequest == <<None, None>>

Init ==
  /\ stored = {}
  /\ catalog = [d \in Dests |-> None]
  /\ stage = [b \in Builders |-> "idle"]
  /\ request = [b \in Builders |-> NoRequest]

Ask(b) ==
  /\ stage[b] = "idle"
  /\ stage' = [stage EXCEPT ![b] = "asked"]
  /\ \E q \in Requested : request' = [request EXCEPT ![b] = q]
  /\ UNCHANGED <<stored, catalog>>

Supply(b) ==
  /\ stage[b] = "asked"
  /\ stage' = [stage EXCEPT ![b] = "supplied"]
  /\ stored' = stored \cup {request[b][1]}
  /\ UNCHANGED <<catalog, request>>

Install(b) ==
  /\ stage[b] = "supplied"
  /\ request[b][2] # None
  /\ stage' = [stage EXCEPT ![b] = "installed"]
  /\ catalog' = [catalog EXCEPT ![request[b][2]] = request[b][1]]
  /\ UNCHANGED <<stored, request>>

\* The builds of B end: they return, fail or are killed.
End(B) ==
  /\ stage' = [b \in Builders |-> IF b \in B THEN "idle" ELSE stage[b]]
  /\ request' = [b \in Builders |-> IF b \in B THEN NoRequest ELSE request[b]]
  /\ UNCHANGED <<stored, catalog>>

Return(b) ==
  /\ \/ stage[b] = "installed"
     \/ stage[b] = "supplied" /\ request[b][2] = None
  /\ End({b})

Fail == \E B \in SUBSET Builders : End(B)

Evict(k) ==
  /\ stored' = stored \ {k}
  /\ UNCHANGED <<catalog, stage, request>>

Withdraw(d) ==
  /\ catalog' = [catalog EXCEPT ![d] = None]
  /\ UNCHANGED <<stored, stage, request>>

Next ==
  \/ \E b \in Builders : Ask(b) \/ Supply(b) \/ Install(b) \/ Return(b)
  \/ Fail
  \/ \E k \in Keys : Evict(k)
  \/ \E d \in Dests : Withdraw(d)

Spec == Init /\ [][Next]_vars
=============================================================================

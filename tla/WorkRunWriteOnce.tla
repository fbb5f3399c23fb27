-------------------------- MODULE WorkRunWriteOnce --------------------------
(* WorkRun implements WriteOnce: the refinement mapping. *)
EXTENDS WorkRun

FateOf(k) ==
  IF k[1] \in landed[k[2]] THEN "landed"
  ELSE IF k \in tried THEN "sent"
  ELSE IF k \in cleared THEN "cleared"
  ELSE "undecided"

Fate == [k \in Keys |-> FateOf(k)]

Promise == INSTANCE WriteOnce WITH Places <- Idx, fate <- Fate, denied <- told, blind <- stale

\* Every step of the item, its runs, its manager and the sweeps is a step the
\* promise allows: a key is let through, then goes out once, and lands a place
\* again only after a denial (applySurfaceActions, claimApprovedActions,
\* approveActions, reconcileFailed, landedWritesOf).
KeepsWriteOnce == Promise!Spec
=============================================================================

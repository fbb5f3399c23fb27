----------------------------- MODULE WriteOnce -----------------------------
(***************************************************************************)
(* What the runs of one item promise about the writes they make for it,    *)
(* whatever dies, races or is stopped on the way: a write goes out only    *)
(* under a key somebody let through, each key goes out once, and a place   *)
(* of the plan lands a second time only where the manager answered that    *)
(* the first did not.  WorkRun is shown to implement it.                   *)
(***************************************************************************)
EXTENDS Integers

CONSTANTS Runs,   \* the runs an item may have, in their order
          Places  \* the writes of a run

VARIABLES fate,   \* of each key, a run and a place
          denied, \* the keys the manager answered not sent
          blind   \* the runs started without the last word on the run before

Keys == Runs \X Places
Fates == {"undecided", "cleared", "sent", "landed"}

TypeOK == fate \in [Keys -> Fates] /\ denied \subseteq Keys /\ blind \subseteq Runs

Init == fate = [k \in Keys |-> "undecided"] /\ denied = {} /\ blind = {}

\* A place has landed under one run, but where the first was denied, or a run
\* since was started blind.
LandsOnce(f) ==
  \A i \in Places : \A r, s \in Runs :
    r < s /\ f[<<r, i>>] = "landed" /\ f[<<s, i>>] = "landed" =>
      <<r, i>> \in denied \/ \E t \in blind : r < t /\ t <= s

\* Keys of one run are let through, by the gate or by the manager.
Clear ==
  /\ \E r \in Runs, S \in SUBSET Places :
       fate' = [k \in Keys |-> IF k \in {r} \X S /\ fate[k] = "undecided" THEN "cleared" ELSE fate[k]]
  /\ UNCHANGED <<denied, blind>>

\* A key goes out, and the provider takes it or not.
Send ==
  /\ \E k \in Keys, end \in {"sent", "landed"} :
       fate[k] = "cleared" /\ fate' = [fate EXCEPT ![k] = end]
  /\ LandsOnce(fate')
  /\ UNCHANGED <<denied, blind>>

Deny == denied' \in SUBSET Keys /\ denied \subseteq denied' /\ UNCHANGED <<fate, blind>>

\* A run is known to be blind before anything of it is let through.
StartBlind ==
  /\ \E r \in Runs :
       (\A i \in Places : fate[<<r, i>>] = "undecided") /\ blind' = blind \cup {r}
  /\ UNCHANGED <<fate, denied>>

Next == Clear \/ Send \/ Deny \/ StartBlind
Spec == Init /\ [][Next]_<<fate, denied, blind>>
=============================================================================

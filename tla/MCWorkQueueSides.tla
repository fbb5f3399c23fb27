-------------------------- MODULE MCWorkQueueSides --------------------------
(***************************************************************************)
(* WorkQueue, its states held to two sides of it, which meet: two items    *)
(* and two evaluations whose charter and surface answer and stay; and one  *)
(* item and one evaluation under the low cap, whose charter and surface    *)
(* change at any point.                                                    *)
(***************************************************************************)
EXTENDS MCWorkQueue

SlotsSide ==
  /\ charter = 0 /\ ~drafting /\ ~paused
  /\ (stored = "approved" /\ probed = 0) \/ (Live /\ probed = 1)
  /\ agedOut = {}
  /\ \A p \in Procs : decision[p] \notin ScopeAnswers
  /\ \A i \in Items : ~row[i].waived /\ row[i].verdict \notin {"outOfScope", "unavailable"}

WaitsSide ==
  /\ Cardinality({i \in Items : row[i].st # "absent"}) <= 1
  /\ Cardinality({p \in Procs : pc[p] # "idle"}) <= 1
  /\ cap = CapLow
  /\ resent = {}
  /\ \A i \in Items : row[i].st # "withdrawn"

Sides == SlotsSide \/ WaitsSide
=============================================================================

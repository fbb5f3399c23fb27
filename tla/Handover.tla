------------------------------ MODULE Handover ------------------------------
(***************************************************************************)
(* An employee handed to another manager: the request of                   *)
(* convex/managerTransfers.ts, its acceptance and move of                  *)
(* convex/transferAcceptance.ts, with the employee's work in flight as     *)
(* convex/transferInFlight.ts and the claims of convex/workRuns.ts gate    *)
(* it, and the decisions its managers give in the DM or on the dashboard   *)
(* (convex/decisionRequests.ts).                                           *)
(*                                                                         *)
(* The acceptance waits for runs to a deadline, so work goes on between    *)
(* the acceptance and the move: runs end, plans are approved, requests are *)
(* on their way, settles fail.  Connections, claims, notes, charter        *)
(* drafts and documentation, which the same transaction moves, are left    *)
(* out.                                                                    *)
(***************************************************************************)
EXTENDS Integers, FiniteSets

CONSTANTS Pieces,     \* the employee's work items, their plans drafted
          Managers,   \* who may own the employee
          FirstOwner,
          MaxHandovers,    \* bound: handovers asked
          EndAfter,   \* SETTLE_FAILURES_BEFORE_END
          MaxRetried, \* bound: retries
          MaxLost     \* bound: attempts that die before their failure is counted

ASSUME ManagerAssumption == FirstOwner \in Managers
ASSUME HandoverBounds == {MaxHandovers, MaxRetried, MaxLost} \subseteq Nat
ASSUME EndAfterAssumption == EndAfter \in Nat \ {0}

Nobody == "nobody"
PieceStates == {"planPending", "planApproved", "executing",
                "setPending", "setApproved", \* actions-pending, without and with approvedIndexes
                "applying",                  \* executing under an apply attempt
                "failed", "completed"}
InFlightStates == {"executing", "applying"}
Request == {"none", "claimed", "delivered", "failed"}

VARIABLES
  owner,     \* agent.userId
  transfer,  \* the newest request: its state
  toOwner,   \* toOwnerKey, once accepted
  overdue,   \* settleBy has passed
  dmOf,      \* whose DM the employee's chat surface holds, Nobody once it is cut
  settleJobs, \* attemptSettle jobs scheduled
  settleAsked, \* a settle that a run's end scheduled
  counting,  \* an attempt whose settle threw and whose failure is not counted yet
  settleFailures, lostAttempts, handovers,
  piece,     \* state
  saidBy,    \* the manager whose approval, or Retry, it stands or runs on
  ask,       \* the decision request it waits on
  askedOf,   \* whose DM that request went to
  retried

moveVars == <<owner, toOwner, dmOf>>
boundVars == <<lostAttempts, handovers>>
transferVars == <<moveVars, transfer, overdue, settleJobs, settleAsked, counting, settleFailures,
                  boundVars>>
pieceVars == <<piece, saidBy, ask, askedOf, retried>>
handVars == <<transferVars, pieceVars>>

HandTypeOK ==
  /\ owner \in Managers /\ toOwner \in Managers \cup {Nobody}
  /\ transfer \in {"none", "asked", "accepting", "accepted", "closed"}
  /\ dmOf \in Managers \cup {Nobody} /\ settleAsked \in BOOLEAN
  /\ overdue \in BOOLEAN /\ settleJobs \in 0..2 /\ counting \in BOOLEAN
  /\ settleFailures \in 0..EndAfter /\ lostAttempts \in 0..MaxLost /\ handovers \in 0..MaxHandovers
  /\ piece \in [Pieces -> PieceStates] /\ saidBy \in [Pieces -> Managers \cup {Nobody}]
  /\ ask \in [Pieces -> Request] /\ askedOf \in [Pieces -> Managers \cup {Nobody}]
  /\ retried \in 0..MaxRetried

HandInit ==
  /\ owner = FirstOwner /\ transfer = "none" /\ toOwner = Nobody /\ overdue = FALSE
  /\ dmOf = FirstOwner /\ settleAsked = FALSE
  /\ settleJobs = 0 /\ counting = FALSE /\ settleFailures = 0 /\ lostAttempts = 0 /\ handovers = 0
  /\ piece = [i \in Pieces |-> "planPending"] /\ saidBy = [i \in Pieces |-> Nobody]
  /\ ask = [i \in Pieces |-> "none"] /\ askedOf = [i \in Pieces |-> Nobody]
  /\ retried = 0

RunsInFlight == {i \in Pieces : piece[i] \in InFlightStates}
BeingHandedOver == transfer = "accepting"

-----------------------------------------------------------------------------
(***************************************************************************)
(* The work, under whoever owns the employee.                              *)
(***************************************************************************)

Parked(i) == piece[i] \in {"planPending", "setPending"}
Approved(st) == IF st = "planPending" THEN "planApproved" ELSE "setApproved"

\* requestDecision: the request is claimed for the DM of the chat surface,
\* posted, and recorded, unless the row carries another by then or none.
ClaimRequest(i) ==
  /\ Parked(i) /\ ask[i] \in {"none", "failed"} /\ dmOf # Nobody
  /\ ask' = [ask EXCEPT ![i] = "claimed"] /\ askedOf' = [askedOf EXCEPT ![i] = dmOf]
  /\ UNCHANGED <<transferVars, piece, saidBy, retried>>
RecordPost(i) ==
  /\ Parked(i) /\ ask[i] = "claimed"
  /\ ask' = [ask EXCEPT ![i] = "delivered"]
  /\ UNCHANGED <<transferVars, piece, saidBy, askedOf, retried>>

\* decidedPatch: the decision is the row's, and its request is answered.
Decide(i, m) ==
  /\ piece' = [piece EXCEPT ![i] = Approved(@)] /\ saidBy' = [saidBy EXCEPT ![i] = m]
  /\ ask' = [ask EXCEPT ![i] = "none"] /\ askedOf' = [askedOf EXCEPT ![i] = Nobody]
  /\ UNCHANGED <<transferVars, retried>>

\* A reply to the code the row carries, failed or not: it decides where the
\* DM it was asked in is the surface's own (resolveManagerReply).  Or the
\* owner's click.
ReplyApproves(i) ==
  /\ Parked(i) /\ ask[i] # "none" /\ askedOf[i] = dmOf
  /\ Decide(i, askedOf[i])
ClickApproves(i) == Parked(i) /\ Decide(i, owner)

\* claimForExecution and the approved phase of claimApprovedActions.
StartRun(i) ==
  /\ piece[i] = "planApproved" /\ ~BeingHandedOver
  /\ piece' = [piece EXCEPT ![i] = "executing"]
  /\ UNCHANGED <<transferVars, saidBy, ask, askedOf, retried>>
StartApply(i) ==
  /\ piece[i] = "setApproved" /\ ~BeingHandedOver
  /\ piece' = [piece EXCEPT ![i] = "applying"]
  /\ UNCHANGED <<transferVars, saidBy, ask, askedOf, retried>>

\* settleHandoverAfterRun: a path out of a run asks a finishing handover to
\* settle.
AskSettle == settleAsked' = (settleAsked \/ BeingHandedOver)

\* holdForApproval and parkHeldActions: the run, or its apply, leaves actions
\* for the manager, with the decision gone.
HoldSet(i) ==
  /\ piece[i] \in InFlightStates
  /\ piece' = [piece EXCEPT ![i] = "setPending"] /\ saidBy' = [saidBy EXCEPT ![i] = Nobody]
  /\ AskSettle
  /\ UNCHANGED <<moveVars, transfer, overdue, settleJobs, counting, settleFailures, boundVars,
                 ask, askedOf, retried>>
\* setCompleted, or setFailed and the recoveries.
EndPiece(i, st) ==
  /\ piece[i] \in InFlightStates
  /\ piece' = [piece EXCEPT ![i] = st] /\ saidBy' = [saidBy EXCEPT ![i] = Nobody]
  /\ AskSettle
  /\ UNCHANGED <<moveVars, transfer, overdue, settleJobs, counting, settleFailures, boundVars,
                 ask, askedOf, retried>>

\* resumeExecution: a model outage sends the run back to its approved plan.
RunGoesBack(i) ==
  /\ piece[i] = "executing"
  /\ piece' = [piece EXCEPT ![i] = "planApproved"]
  /\ AskSettle
  /\ UNCHANGED <<moveVars, transfer, overdue, settleJobs, counting, settleFailures, boundVars,
                 saidBy, ask, askedOf, retried>>

\* retryFailed: the owner sends the plan to run again.
RetryPiece(i) ==
  /\ piece[i] = "failed" /\ retried < MaxRetried /\ retried' = retried + 1
  /\ piece' = [piece EXCEPT ![i] = "planApproved"] /\ saidBy' = [saidBy EXCEPT ![i] = owner]
  /\ UNCHANGED <<transferVars, ask, askedOf>>

-----------------------------------------------------------------------------
(***************************************************************************)
(* The request, and the move.                                              *)
(***************************************************************************)

AskHandover ==
  /\ transfer \in {"none", "accepted", "closed"} /\ handovers < MaxHandovers
  /\ handovers' = handovers + 1 /\ transfer' = "asked" /\ toOwner' = Nobody
  /\ overdue' = FALSE /\ settleFailures' = 0
  /\ UNCHANGED <<owner, dmOf, settleJobs, settleAsked, counting, lostAttempts, pieceVars>>

\* cancel, decline and expireInTransaction.
CloseAsked ==
  /\ transfer = "asked" /\ transfer' = "closed"
  /\ UNCHANGED <<moveVars, overdue, settleJobs, settleAsked, counting, settleFailures, boundVars,
                 pieceVars>>

\* The owner's chat surface connects: a message in another's DM is asked again.
ConnectChat ==
  /\ dmOf = Nobody /\ dmOf' = owner
  /\ ask' = [i \in Pieces |-> IF Parked(i) /\ ask[i] = "delivered" /\ askedOf[i] # owner
                             THEN "failed" ELSE ask[i]]
  /\ UNCHANGED <<owner, toOwner, transfer, overdue, settleJobs, settleAsked, counting,
                 settleFailures, boundVars, piece, saidBy, askedOf, retried>>

\* voidDecisionRequestsForHandover: a delivered request keeps its code, marked
\* failed; one on its way is taken off the row.
\* Mutant: only a delivered request is looked for.
VoidedDelivered(i) == IF Parked(i) /\ ask[i] = "delivered" THEN "failed" ELSE ask[i]
Voided(i) ==
  CASE Parked(i) /\ ask[i] = "claimed" -> "none"
    [] Parked(i) /\ ask[i] = "delivered" -> "failed"
    [] OTHER -> ask[i]

\* returnApprovalsForHandover, of the states st the stop of the runs left.
\* Mutant: the held sets whose apply was kept from starting are forgotten.
ReturnedPlans(st) ==
  [i \in Pieces |-> IF st[i] = "planApproved" THEN "planPending" ELSE st[i]]
Returned(st) ==
  [i \in Pieces |-> CASE st[i] = "planApproved" -> "planPending"
                      [] st[i] = "setApproved" -> "setPending"
                      [] OTHER -> st[i]]

\* stopRunsForHandover.
Stopped == [i \in Pieces |-> IF i \in RunsInFlight THEN "failed" ELSE piece[i]]

\* moveEmployeeInTransaction, which cuts the old owner's connections.
Move(to) ==
  /\ owner' = to /\ transfer' = "accepted" /\ toOwner' = to /\ dmOf' = Nobody
  /\ piece' = Returned(Stopped)
  /\ saidBy' = [i \in Pieces |-> IF piece'[i] = piece[i] THEN saidBy[i] ELSE Nobody]
  /\ ask' = [i \in Pieces |-> Voided(i)]
  /\ askedOf' = [i \in Pieces |-> IF ask'[i] = "none" THEN Nobody ELSE askedOf[i]]
  /\ UNCHANGED <<overdue, settleFailures, boundVars, retried>>

\* accept: the move, or with runs in flight the wait for them.
AcceptMoves(m) ==
  /\ transfer = "asked" /\ m # owner /\ RunsInFlight = {}
  /\ Move(m) /\ UNCHANGED <<settleJobs, settleAsked, counting>>
AcceptWaits(m) ==
  /\ transfer = "asked" /\ m # owner /\ RunsInFlight # {}
  /\ transfer' = "accepting" /\ toOwner' = m
  /\ UNCHANGED <<owner, dmOf, overdue, settleJobs, settleAsked, counting, settleFailures, boundVars,
                 pieceVars>>

\* The deadline: its own scheduled attempt, whatever the crons do.
DeadlinePasses ==
  /\ BeingHandedOver /\ ~overdue /\ overdue' = TRUE
  /\ settleJobs' = IF settleJobs < 2 THEN settleJobs + 1 ELSE settleJobs
  /\ UNCHANGED <<moveVars, transfer, settleAsked, counting, settleFailures, boundVars, pieceVars>>
\* settleDue: every minute, those past their deadline or with no run left.
SweepSettles ==
  /\ BeingHandedOver /\ (overdue \/ RunsInFlight = {}) /\ settleJobs = 0 /\ ~counting
  /\ settleJobs' = 1
  /\ UNCHANGED <<moveVars, transfer, overdue, settleAsked, counting, settleFailures, boundVars,
                 pieceVars>>

\* endUnmovable: the employee stays its old manager's.
EndHandover ==
  /\ transfer' = "closed"
  /\ UNCHANGED <<moveVars, overdue, boundVars, pieceVars>>

\* settleInTransaction, where it does not throw.
MayMove == overdue \/ RunsInFlight = {}
SettleReturns ==
  \/ /\ ~BeingHandedOver \/ ~MayMove                 \* not-accepting, or waiting
     /\ UNCHANGED <<moveVars, transfer, overdue, settleFailures, boundVars, pieceVars>>
  \/ BeingHandedOver /\ MayMove /\ Move(toOwner)
  \/ BeingHandedOver /\ EndHandover /\ UNCHANGED settleFailures  \* moveRefusal

\* A settle that throws writes nothing; its attempt has the failure to count.
SettleThrows ==
  /\ BeingHandedOver /\ MayMove
  /\ UNCHANGED <<moveVars, transfer, overdue, settleFailures, boundVars, pieceVars>>

Settle ==
  /\ settleJobs > 0 /\ settleJobs' = settleJobs - 1
  /\ \/ SettleReturns /\ UNCHANGED counting
     \/ SettleThrows /\ ~counting /\ counting' = TRUE
  /\ UNCHANGED settleAsked
\* The settle a run's end asked for is not an attempt: its throw is not counted.
SettleAfterRun ==
  /\ settleAsked /\ settleAsked' = FALSE
  /\ SettleReturns \/ SettleThrows
  /\ UNCHANGED <<settleJobs, counting>>

\* recordSettleFailure, in a transaction of its own.
\* Mutant: the count goes back with the settle that failed.
CountedNever == settleFailures
Counted == settleFailures + 1
RecordSettleFailure ==
  /\ counting /\ counting' = FALSE
  /\ IF ~BeingHandedOver
     THEN UNCHANGED <<moveVars, transfer, overdue, settleFailures, boundVars, pieceVars>>
     ELSE /\ settleFailures' = Counted
          /\ IF Counted >= EndAfter THEN EndHandover
             ELSE UNCHANGED <<moveVars, transfer, overdue, boundVars, pieceVars>>
  /\ UNCHANGED <<settleJobs, settleAsked>>
\* The attempt dies before it counts.
SettleLost ==
  /\ counting /\ lostAttempts < MaxLost /\ lostAttempts' = lostAttempts + 1 /\ counting' = FALSE
  /\ UNCHANGED <<moveVars, transfer, overdue, settleJobs, settleAsked, settleFailures, handovers,
                 pieceVars>>

\* endStuckHandover, the operator's.
OperatorEnds ==
  /\ BeingHandedOver /\ EndHandover
  /\ UNCHANGED <<settleJobs, settleAsked, counting, settleFailures>>

HandNext ==
  \/ \E i \in Pieces :
       \/ ClaimRequest(i) \/ RecordPost(i) \/ ReplyApproves(i) \/ ClickApproves(i)
       \/ StartRun(i) \/ StartApply(i) \/ HoldSet(i) \/ RunGoesBack(i)
       \/ EndPiece(i, "completed") \/ EndPiece(i, "failed") \/ RetryPiece(i)
  \/ AskHandover \/ CloseAsked \/ \E m \in Managers : AcceptMoves(m) \/ AcceptWaits(m)
  \/ ConnectChat \/ DeadlinePasses \/ SweepSettles \/ Settle \/ SettleAfterRun
  \/ RecordSettleFailure \/ SettleLost \/ OperatorEnds

HandSpec == HandInit /\ [][HandNext]_handVars

-----------------------------------------------------------------------------
(***************************************************************************)
(* Properties.                                                             *)
(***************************************************************************)

\* Nothing runs, or is about to, on the word of a manager the employee no
\* longer reports to: approvals given before the acceptance, or while it waited
\* for runs, and those of a run a model outage sent back, do not outlive the
\* move (returnApprovalsForHandover, the stop of the runs, the DM's check).
RunsOnItsOwnersWord ==
  \A i \in Pieces : piece[i] \in InFlightStates \cup {"planApproved", "setApproved"} =>
    saidBy[i] = owner

\* A parked row that counts as asked was asked of the manager it now has: a
\* request delivered before the move, or on its way during it, would keep the
\* new manager from ever being asked (voidDecisionRequestsForHandover).
AskedOfItsOwner ==
  \A i \in Pieces : Parked(i) /\ ask[i] \in {"claimed", "delivered"} => askedOf[i] = owner

\* An accepted handover ends: however long a run takes, and whatever fails,
\* the employee is moved or stays (attemptSettle, recordSettleFailure).
HandoverEnds == transfer = "accepting" ~> transfer # "accepting"
=============================================================================

------------------------------ MODULE WorkQueue ------------------------------
(***************************************************************************)
(* How one employee's work items are judged and take its slots: the        *)
(* evaluation half of convex/workLoop.ts, the verdicts of                  *)
(* convex/workVerdicts.ts and src/work/evaluate.ts, and the re-evaluation  *)
(* of parked work of convex/workReevaluation.ts, with the surface the      *)
(* items need, the employee's charter, its autonomy switch and its pause.  *)
(*                                                                         *)
(* An evaluation is a Node action: it claims the row, reads the charter,   *)
(* reads the surfaces and judges, and writes its verdict, each in a        *)
(* transaction of its own, and may die in between.  A connection, an       *)
(* amendment or a sweep may come at any of these points.                   *)
(***************************************************************************)
EXTENDS Integers, FiniteSets

CONSTANTS Items,       \* the employee's work items
          Procs,       \* the evaluations that may be under way at once
          CapLow,      \* COLD_START_WIP_LIMIT
          CapHigh,     \* AUTONOMOUS_WIP_LIMIT
          MaxAttempts, \* MAX_EVALUATION_ATTEMPTS
          MaxCharter,  \* bound: charter versions approved after the first
          MaxProbes,   \* bound: successful probes of the surface
          MaxCopies,   \* bound: copies of one queued evaluation
          Events,      \* bound: of pauses, tickets withdrawn and surfaces that fail, what happens
          ScopeAnswers,\* bound: what a scope judgement may say but yes
          NoItem       \* what an idle process evaluates

ASSUME CapAssumption == CapLow \in Nat \ {0} /\ CapHigh \in Nat /\ CapLow <= CapHigh
ASSUME AttemptAssumption == MaxAttempts \in Nat \ {0}
ASSUME BoundAssumption == MaxCharter \in Nat /\ MaxProbes \in Nat /\ MaxCopies \in Nat \ {0}
ASSUME EventAssumption ==
  /\ Events \subseteq {"pause", "withdraw", "fail"}
  /\ ScopeAnswers \subseteq {"outOfScope", "unavailable"}
ASSUME ItemAssumption == IsFiniteSet(Items) /\ NoItem \notin Items
ASSUME ProcAssumption == Procs \cap {"none", "lapsed"} = {}

Charters == 0..MaxCharter
Probes == 0..MaxProbes  \* 0: never verified
\* What sends a parked row back, at most once each: an approved charter, and
\* a verification of the surface.
Keys == [by : {"charter"}, of : Charters] \cup [by : {"surface"}, of : Probes]
CharterKey(c) == [by |-> "charter", of |-> c]
SurfaceKey(v) == [by |-> "surface", of |-> v]

States == {"absent", "discovered", "open", "deferred", "skipped", "ended", "withdrawn"}
Reasons == {"none", "claim", "outOfScope", "connection", "charter",
            "unavailable", "spent"}
Row == [st : States,                       \* OPEN_WORK_STATES are "open"
        claim : Procs \cup {"none", "lapsed"}, \* evaluationClaimedAt and whose it is
        attempts : 0..MaxAttempts,         \* evaluationAttempts, which only its limit is read of
        unavail : BOOLEAN,                 \* evaluationUnavailableAt is of the last claim
        verdict : Reasons,                 \* while it waits, only whether it was claimed
        waived : BOOLEAN,                  \* scopeWaivedAt
        spent : SUBSET Keys]               \* reevaluation.spent
NewRow == [st |-> "absent", claim |-> "none", attempts |-> 0, unavail |-> FALSE,
           verdict |-> "none", waived |-> FALSE, spent |-> {}]

VARIABLES
  row,      \* the work items
  queued,   \* scheduled evaluations of each item
  \* the employee
  cap,      \* its work-in-progress limit, by the autonomy switch
  paused,   \* it, or the deployment, is paused
  charter,  \* the newest approved charter
  drafting, \* a charter draft above it awaits approval
  requeues, \* scheduled re-evaluations, by the charter that is their key
  \* the surface the items need
  stored,   \* its stored verdict
  fresh,    \* it was verified within LIVENESS_HOURS
  probed,   \* the last successful probe: lastVerifiedAt
  \* the evaluations
  pc, item, readCharter, decision,
  \* history, for the properties
  since,    \* the probe of the surface's last transition to connected
  under,    \* the charter an item's last skip was read under
  agedOut,  \* items deferred while the surface was connected and not verified lately
  resent    \* withdrawn items sent back while their evaluation was still under way

employeeVars == <<cap, paused, charter, drafting, requeues>>
surfaceVars == <<stored, fresh, probed, since>>
procVars == <<pc, item, readCharter, decision>>
wordVars == <<under, agedOut, resent>>
vars == <<row, queued, employeeVars, surfaceVars, procVars, wordVars>>

TypeOK ==
  /\ row \in [Items -> Row] /\ queued \in [Items -> 0..MaxCopies]
  /\ cap \in {CapLow, CapHigh} /\ paused \in BOOLEAN /\ charter \in Charters
  /\ drafting \in BOOLEAN /\ requeues \subseteq Charters
  /\ stored \in {"approved", "connected", "listed-dead"} /\ fresh \in BOOLEAN
  /\ probed \in Probes /\ since \in Probes
  /\ pc \in [Procs -> {"idle", "claimed", "read", "judged"}]
  /\ item \in [Procs -> Items \cup {NoItem}] /\ readCharter \in [Procs -> Charters]
  /\ decision \in [Procs -> {"none", "outOfScope", "connection", "queue", "claim", "unavailable"}]
  /\ under \in [Items -> Charters] /\ agedOut \subseteq Items /\ resent \subseteq Items

Init ==
  /\ row = [i \in Items |-> NewRow] /\ queued = [i \in Items |-> 0]
  /\ cap = CapLow /\ paused = FALSE /\ charter = 0 /\ drafting = FALSE /\ requeues = {}
  /\ stored = "approved" /\ fresh = FALSE /\ probed = 0 /\ since = 0
  /\ pc = [p \in Procs |-> "idle"] /\ item = [p \in Procs |-> NoItem]
  /\ readCharter = [p \in Procs |-> 0] /\ decision = [p \in Procs |-> "none"]
  /\ under = [i \in Items |-> 0] /\ agedOut = {} /\ resent = {}

-----------------------------------------------------------------------------
(***************************************************************************)
(* Slots and the queue.                                                    *)
(***************************************************************************)

\* verdictFor: what an evaluation and a verdict write read of the surface.
Live == stored = "connected" /\ fresh

\* holdsLiveStepClaim.
Evaluating(r, i) == r[i].st = "discovered" /\ r[i].claim \in Procs
Waiting(r) == {i \in Items : r[i].st = "discovered" /\ r[i].claim \notin Procs}
Open(r) == {i \in Items : r[i].st = "open"}
InFlight(r) == {i \in Items : Evaluating(r, i)}
OpenCount(r) == Cardinality(Open(r))

\* queueState: an evaluation in flight holds a slot, but not against itself.
\* Mutant: only the open rows are counted.
HasOpenSlot(r, limit, except) == OpenCount(r) < limit
HasSlot(r, limit, except) == Cardinality(Open(r) \cup (InFlight(r) \ except)) < limit

Park(r, S, why(_)) ==
  [i \in Items |-> IF i \in S
                   THEN [r[i] EXCEPT !.st = "deferred", !.verdict = why(i), !.claim = "none"]
                   ELSE r[i]]

\* parkForCharter: every waiting row, its attempts kept.
ParkForCharter(r) == Park(r, Waiting(r), LAMBDA i : "charter")

\* parkSpentEvaluations: the last attempt decides the reason.
\* Mutant: a row out of attempts keeps its place.
ParkNone(r) == r
SpentRows(r) == {i \in Waiting(r) : r[i].attempts >= MaxAttempts}
ParkSpent(r) ==
  Park(r, SpentRows(r), LAMBDA i : IF r[i].unavail THEN "unavailable" ELSE "spent")

\* nextWaitingRow: a row no evaluation began on goes first; urgency and age
\* then decide, which is any of them here.
NextRows(r) ==
  LET unattempted == {i \in Waiting(r) : r[i].attempts = 0}
  IN IF unattempted # {} THEN unattempted ELSE Waiting(r)

\* evaluateNext, run once, or once for each of several rows sent back: the
\* rows it leaves and the evaluations it schedules.
EvaluateNext(r, limit, several) ==
  IF drafting THEN {[rows |-> ParkForCharter(r), jobs |-> {}]}
  ELSE IF ~HasSlot(r, limit, {}) THEN {[rows |-> r, jobs |-> {}]}
  ELSE LET left == ParkSpent(r)
       IN IF Waiting(left) = {} THEN {[rows |-> left, jobs |-> {}]}
          ELSE {[rows |-> left, jobs |-> J] :
                  J \in {S \in SUBSET NextRows(left) :
                           S # {} /\ (several \/ Cardinality(S) = 1)}}

Schedule(r, limit, several) ==
  \E o \in EvaluateNext(r, limit, several) :
    /\ row' = o.rows
    /\ queued' = [i \in Items |-> IF i \in o.jobs /\ queued[i] < MaxCopies
                                 THEN queued[i] + 1 ELSE queued[i]]

\* wakeQueuedWork, for the rows r a transition leaves.
Wake(r, several) ==
  IF paused THEN row' = r /\ UNCHANGED queued ELSE Schedule(r, cap, several)

\* Intake files an item.
Seed(i) ==
  /\ row[i].st = "absent"
  /\ Wake([row EXCEPT ![i].st = "discovered"], FALSE)
  /\ UNCHANGED <<employeeVars, surfaceVars, procVars, wordVars>>

-----------------------------------------------------------------------------
(***************************************************************************)
(* An evaluation.                                                          *)
(***************************************************************************)

Held(i) == \E p \in Procs : pc[p] # "idle" /\ item[p] = i

\* Mutant: the claim does not look for a live one.
ReadyUnheld(i) == row[i].st = "discovered" /\ ~paused /\ HasSlot(row, cap, {i})
Ready(i) == row[i].st = "discovered" /\ row[i].claim \notin Procs /\ ~paused /\ HasSlot(row, cap, {i})

\* claimLoopStep of an evaluation.  A run of this reads and writes nothing else.
StartEvaluation(p, i) ==
  /\ queued[i] > 0 /\ pc[p] = "idle" /\ Ready(i)
  /\ row' = [row EXCEPT ![i].claim = p, ![i].unavail = FALSE,
                        ![i].attempts = IF @ < MaxAttempts THEN @ + 1 ELSE @]
  /\ queued' = [queued EXCEPT ![i] = @ - 1]
  /\ pc' = [pc EXCEPT ![p] = "claimed"] /\ item' = [item EXCEPT ![p] = i]
  /\ resent' = IF Held(i) THEN resent ELSE resent \ {i}
  /\ UNCHANGED <<readCharter, decision, employeeVars, surfaceVars, under, agedOut>>

StartRefused(i) ==
  /\ queued[i] > 0 /\ ~Ready(i)
  /\ queued' = [queued EXCEPT ![i] = @ - 1]
  /\ UNCHANGED <<row, employeeVars, surfaceVars, procVars, wordVars>>

Ends(p) ==
  /\ pc' = [pc EXCEPT ![p] = "idle"] /\ item' = [item EXCEPT ![p] = NoItem]
  /\ readCharter' = [readCharter EXCEPT ![p] = 0] /\ decision' = [decision EXCEPT ![p] = "none"]

\* The newest charter is read; a draft is refused with a throw, which leaves
\* the claim to lapse.
ReadCharter(p) ==
  /\ pc[p] = "claimed"
  /\ IF drafting THEN Ends(p)
     ELSE /\ pc' = [pc EXCEPT ![p] = "read"]
          /\ readCharter' = [readCharter EXCEPT ![p] = charter]
          /\ UNCHANGED <<item, decision>>
  /\ UNCHANGED <<row, queued, employeeVars, surfaceVars, wordVars>>

\* evaluateCandidate: scope first, unless the manager waived it, then the
\* connection, then the cap.
Judgements(i) ==
  (IF row[i].waived THEN ScopeAnswers \ {"outOfScope"} ELSE ScopeAnswers)
  \cup (IF ~Live THEN {"connection"} ELSE IF OpenCount(row) >= cap THEN {"queue"} ELSE {"claim"})
Judge(p) ==
  /\ pc[p] = "read"
  /\ \E d \in Judgements(item[p]) : decision' = [decision EXCEPT ![p] = d]
  /\ pc' = [pc EXCEPT ![p] = "judged"]
  /\ UNCHANGED <<row, queued, item, readCharter, employeeVars, surfaceVars, wordVars>>

\* waitSatisfiedBy: the connection a deferral waits on landed meanwhile, and
\* has not sent the row back before.
WaitSatisfied(r) == Live /\ SurfaceKey(probed) \notin r.spent

Judged(r, st, verdict) ==
  [r EXCEPT !.st = st, !.verdict = verdict, !.claim = "none", !.attempts = 0, !.unavail = FALSE]

\* applyVerdict's row: the cap and the connection are read again.
\* Mutants: a claim is taken as it was judged; a deferral is.
VerdictUncapped(r, d) ==
  IF d = "claim" THEN Judged(r, "open", "claim")
  ELSE IF d = "queue" THEN Judged(r, "discovered", "none")
  ELSE IF d = "outOfScope" THEN Judged(r, "skipped", d)
  ELSE IF WaitSatisfied(r)
  THEN [Judged(r, "discovered", "none") EXCEPT !.spent = @ \cup {SurfaceKey(probed)}]
  ELSE Judged(r, "deferred", d)
VerdictUnread(r, d) ==
  IF d = "connection" THEN Judged(r, "deferred", d)
  ELSE VerdictUncapped(r, IF d = "claim" /\ OpenCount(row) >= cap THEN "queue" ELSE d)
Verdict(r, d) == VerdictUncapped(r, IF d = "claim" /\ OpenCount(row) >= cap THEN "queue" ELSE d)

\* setVerdict: a row that has moved on keeps what it has.  Whose claim the row
\* holds is not asked.
SetVerdict(p) ==
  LET i == item[p]
      judged == Verdict(row[i], decision[p])
  IN /\ pc[p] = "judged" /\ decision[p] # "unavailable"
     /\ Ends(p)
     /\ IF row[i].st # "discovered" THEN UNCHANGED <<row, queued, wordVars>>
        ELSE /\ Wake([row EXCEPT ![i] = judged], FALSE)
             /\ under' = [under EXCEPT ![i] = IF judged.st = "skipped" THEN readCharter[p] ELSE 0]
             /\ agedOut' = IF judged.st = "deferred" /\ stored = "connected" /\ ~fresh
                           THEN agedOut \cup {i} ELSE agedOut \ {i}
             /\ UNCHANGED resent
     /\ UNCHANGED <<employeeVars, surfaceVars>>

\* recordScopeJudgementUnavailable: marked under the claim, which is kept.
RecordScopeUnavailable(p) ==
  LET i == item[p]
  IN /\ pc[p] = "judged" /\ decision[p] = "unavailable"
     /\ Ends(p)
     /\ row' = [row EXCEPT ![i].unavail =
                  @ \/ (row[i].st = "discovered" /\ row[i].claim = p)]
     /\ UNCHANGED <<queued, employeeVars, surfaceVars, wordVars>>

Crash(p) ==
  /\ pc[p] # "idle"
  /\ Ends(p)
  /\ UNCHANGED <<row, queued, employeeVars, surfaceVars, wordVars>>

\* The lease passes.  A Node action is killed no later than its claim's lease.
LapseClaim(i) ==
  /\ Evaluating(row, i)
  /\ LET p == row[i].claim IN pc[p] = "idle" \/ item[p] # i
  /\ row' = [row EXCEPT ![i].claim = "lapsed"]
  /\ UNCHANGED <<queued, employeeVars, surfaceVars, procVars, wordVars>>

\* The stalled-step sweep, and a resume's pass, for waiting work.
Sweep ==
  /\ Wake(row, FALSE)
  /\ UNCHANGED <<employeeVars, surfaceVars, procVars, wordVars>>

-----------------------------------------------------------------------------
(***************************************************************************)
(* Work that is let go, and sent back.                                     *)
(***************************************************************************)

\* A run completes, fails, is stopped, or its plan is rejected.
RunEnds(i) ==
  /\ row[i].st = "open"
  /\ Wake([row EXCEPT ![i].st = "ended"], FALSE)
  /\ UNCHANGED <<employeeVars, surfaceVars, procVars, wordVars>>

\* parkOnConnection: an approved set whose surface is not connected yet.
ParkOnConnection(i) ==
  /\ row[i].st = "open" /\ stored = "approved"
  /\ Wake([row EXCEPT ![i].st = "deferred", ![i].verdict = "connection"], FALSE)
  /\ agedOut' = agedOut \ {i}
  /\ UNCHANGED <<under, resent, employeeVars, surfaceVars, procVars>>

\* What a retry reads of a verdict.
Claimed(r) == IF r.verdict = "claim" THEN "claim" ELSE "none"
Resends(i) == resent' = IF row[i].st = "withdrawn" /\ Held(i) THEN resent \cup {i} ELSE resent

\* refreshListedItem: the ticket leaves the queue on the tracker; of the open
\* rows, only one whose plan is not stored yet is withdrawn.
Withdraw(i) ==
  /\ "withdraw" \in Events /\ row[i].st \in {"discovered", "deferred", "open"}
  /\ Wake([row EXCEPT ![i].st = "withdrawn", ![i].verdict = Claimed(row[i])], FALSE)
  /\ UNCHANGED <<employeeVars, surfaceVars, procVars, wordVars>>

\* It is listed again: its claim goes, its attempts stay.
ListedAgain(i) ==
  /\ row[i].st = "withdrawn"
  /\ Wake([row EXCEPT ![i].st = "discovered", ![i].claim = "none", ![i].unavail = FALSE], FALSE)
  /\ Resends(i)
  /\ UNCHANGED <<under, agedOut, employeeVars, surfaceVars, procVars>>

\* retryFailed: an item that was claimed goes back to its slot whatever the cap says.
RetriedRow(r) ==
  [Judged(r, IF r.verdict = "claim" THEN "open" ELSE "discovered", Claimed(r))
     EXCEPT !.waived = @ \/ (r.st = "skipped" /\ r.verdict = "outOfScope")]
RetryFailed(i) ==
  LET back == [row EXCEPT ![i] = RetriedRow(@)]
  IN /\ \/ row[i].st \in {"ended", "skipped", "withdrawn"}
        \/ row[i].st = "deferred" /\ row[i].verdict = "spent"
     /\ \/ Wake(back, FALSE)
        \* An approved plan is executed, and nothing is woken.
        \/ row[i].st = "ended" /\ row' = back /\ UNCHANGED queued
     /\ Resends(i)
     /\ UNCHANGED <<under, agedOut, employeeVars, surfaceVars, procVars>>

\* The rows of S go back; those of K are stamped with the key that sent them.
Readmitted(S, K, key) ==
  [i \in Items |-> IF i \in S
                   THEN [row[i] EXCEPT !.st = "discovered", !.verdict = "none", !.attempts = 0,
                                       !.unavail = FALSE,
                                       !.spent = IF i \in K THEN @ \cup {key} ELSE @]
                   ELSE row[i]]

\* verdictReturnsOn, for each trigger.
ReturnsOn(i, trigger) ==
  \/ row[i].st = "skipped" /\ row[i].verdict = "outOfScope"
  \/ row[i].st = "deferred" /\ row[i].verdict \in
       (IF trigger = "charter" THEN {"charter", "unavailable"} ELSE {"connection"})

\* reevaluatePendingInTransaction.
Reevaluate(trigger, key) ==
  LET back == {i \in Items : ReturnsOn(i, trigger) /\ key \notin row[i].spent}
  IN IF back = {} THEN UNCHANGED <<row, queued>> ELSE Wake(Readmitted(back, back, key), TRUE)

\* The scheduled re-evaluation of an amended or approved charter.
ReevaluatePending(c) ==
  /\ c \in requeues
  /\ requeues' = requeues \ {c}
  /\ Reevaluate("charter", CharterKey(c))
  /\ UNCHANGED <<cap, paused, charter, drafting, surfaceVars, procVars, wordVars>>

\* readmitSatisfiedInTransaction, which "Check for new work" schedules: the
\* satisfied waits, and the scope judgements U not asked in this lease window,
\* whose key, a new one for each window, is left out.
ReadmitSatisfied ==
  LET satisfied == {i \in Items : /\ row[i].st = "deferred" /\ row[i].verdict = "connection"
                                  /\ WaitSatisfied(row[i])}
      unread == {i \in Items : row[i].st = "deferred" /\ row[i].verdict = "unavailable"}
  IN \E U \in SUBSET unread :
       /\ satisfied \cup U # {}
       /\ Wake(Readmitted(satisfied \cup U, satisfied, SurfaceKey(probed)), TRUE)
       /\ UNCHANGED <<employeeVars, surfaceVars, procVars, wordVars>>

-----------------------------------------------------------------------------
(***************************************************************************)
(* The employee and its surface.                                           *)
(***************************************************************************)

\* amendCharter: a new approved version.
\* Mutant: an amendment goes past the draft that awaits approval.
AmendOverDraft ==
  /\ charter < MaxCharter
  /\ charter' = charter + 1 /\ requeues' = requeues \cup {charter + 1}
  /\ UNCHANGED <<row, queued, cap, paused, drafting, surfaceVars, procVars, wordVars>>
AmendCharter ==
  /\ ~drafting /\ charter < MaxCharter
  /\ charter' = charter + 1 /\ requeues' = requeues \cup {charter + 1}
  /\ UNCHANGED <<row, queued, cap, paused, drafting, surfaceVars, procVars, wordVars>>

DraftCharter ==
  /\ ~drafting /\ charter < MaxCharter
  /\ drafting' = TRUE
  /\ UNCHANGED <<row, queued, cap, paused, charter, requeues, surfaceVars, procVars, wordVars>>

\* Mutant: the approval schedules no re-evaluation.
ApproveQuietly ==
  /\ drafting /\ drafting' = FALSE /\ charter' = charter + 1
  /\ UNCHANGED <<row, queued, cap, paused, requeues, surfaceVars, procVars, wordVars>>
ApproveCharter ==
  /\ drafting
  /\ drafting' = FALSE /\ charter' = charter + 1 /\ requeues' = requeues \cup {charter + 1}
  /\ UNCHANGED <<row, queued, cap, paused, surfaceVars, procVars, wordVars>>

\* setAutonomousActions: on raises the cap and wakes the queue.
SetAutonomousActions ==
  /\ cap' = IF cap = CapLow THEN CapHigh ELSE CapLow
  /\ IF cap = CapLow /\ ~paused
     THEN Schedule(row, CapHigh, FALSE)
     ELSE UNCHANGED <<row, queued>>
  /\ UNCHANGED <<paused, charter, drafting, requeues, surfaceVars, procVars, wordVars>>

Pause ==
  /\ "pause" \in Events /\ ~paused /\ paused' = TRUE
  /\ UNCHANGED <<row, queued, cap, charter, drafting, requeues, surfaceVars, procVars, wordVars>>

\* The employee's resume runs its pass at once; a deployment's leaves it to the sweep.
Resume ==
  /\ paused /\ paused' = FALSE
  /\ \/ UNCHANGED <<row, queued>>
     \/ Schedule(row, cap, FALSE)
  /\ UNCHANGED <<cap, charter, drafting, requeues, surfaceVars, procVars, wordVars>>

\* recordConnected: only a surface stored as something else is a new connection.
RecordConnected ==
  /\ probed < MaxProbes
  /\ probed' = probed + 1 /\ stored' = "connected" /\ fresh' = TRUE
  /\ IF stored = "connected" THEN UNCHANGED <<row, queued, since>>
     ELSE /\ since' = probed + 1
          /\ Reevaluate("surface", SurfaceKey(probed + 1))
  /\ UNCHANGED <<employeeVars, procVars, wordVars>>

\* recordProbeFailure, and the demotion to the next route of the approval.
RecordProbeFailure ==
  /\ "fail" \in Events
  /\ stored' \in {"listed-dead", "approved"} /\ stored' # stored
  /\ fresh' = FALSE
  /\ UNCHANGED <<row, queued, probed, since, employeeVars, procVars, wordVars>>

\* LIVENESS_HOURS pass without a probe that answers.
GoStale ==
  /\ "fail" \in Events /\ Live /\ fresh' = FALSE
  /\ UNCHANGED <<row, queued, stored, probed, since, employeeVars, procVars, wordVars>>

-----------------------------------------------------------------------------
Evaluation(p) ==
  \/ \E i \in Items : StartEvaluation(p, i)
  \/ ReadCharter(p) \/ Judge(p) \/ SetVerdict(p) \/ RecordScopeUnavailable(p) \/ Crash(p)

Manager ==
  \/ AmendCharter \/ DraftCharter \/ ApproveCharter \/ SetAutonomousActions
  \/ Pause \/ Resume \/ ReadmitSatisfied
  \/ \E i \in Items : RetryFailed(i)

Surface == RecordConnected \/ RecordProbeFailure \/ GoStale

Scheduler ==
  \/ \E i \in Items : StartRefused(i) \/ LapseClaim(i)
  \/ Sweep
  \/ \E c \in Charters : ReevaluatePending(c)

Work ==
  \E i \in Items : Seed(i) \/ RunEnds(i) \/ ParkOnConnection(i) \/ Withdraw(i) \/ ListedAgain(i)

Next == (\E p \in Procs : Evaluation(p)) \/ Manager \/ Surface \/ Scheduler \/ Work

Spec == Init /\ [][Next]_vars

\* A Node action under way moves or is killed, a queued job runs, leases pass
\* and the crons run.  Nothing is assumed of the manager, the surface, the
\* verdicts or the runs.
UnderWay(p) == pc[p] # "idle" /\ Evaluation(p)
RunJob(i) == StartRefused(i) \/ \E p \in Procs : StartEvaluation(p, i)

Fairness ==
  /\ \A p \in Procs : WF_vars(UnderWay(p))
  /\ \A i \in Items : WF_vars(RunJob(i)) /\ WF_vars(LapseClaim(i))
  /\ \A c \in Charters : WF_vars(ReevaluatePending(c))
  /\ WF_vars(Sweep)

FairSpec == Spec /\ Fairness

-----------------------------------------------------------------------------
(***************************************************************************)
(* Properties.                                                             *)
(***************************************************************************)

\* A row has one evaluation at a time, and the one it has holds its claim:
\* however often it is queued, woken, swept or sent back, the scope judgement
\* is paid once (claimLoopStepInTransaction).  The exception is a row withdrawn
\* under its evaluation and sent back before that one ends, whose claim
\* refreshListedItem and retryFailed clear.
OneEvaluation ==
  \A p \in Procs : pc[p] # "idle" /\ item[p] \notin resent =>
    row[item[p]].claim = p /\ row[item[p]].st \in {"discovered", "withdrawn"}

\* No verdict takes a slot past the cap, though its evaluation read the open
\* rows before a Retry filled them or the switch lowered the cap (applyVerdict).
VerdictsKeepCap ==
  [][\A i \in Items : row[i].st = "discovered" /\ row'[i].st = "open"
       => OpenCount(row') <= cap]_vars

\* No evaluation starts for a slot another may still take: what is open and
\* what is being judged fit the cap together (queueState).
CallsKeepCap ==
  [][\A i \in Items : Evaluating(row, i)' /\ ~Evaluating(row, i)
       => Cardinality(Open(row') \cup InFlight(row')) <= cap]_vars

\* A row deferred on the surface has not missed its connection: while the
\* surface is live, it was sent back once for this connection already, or was
\* judged while the stored connection had gone unverified (applyVerdict,
\* recordConnected).
ConnectionNotMissed ==
  \A i \in Items : row[i].st = "deferred" /\ row[i].verdict = "connection" /\ Live =>
    i \in agedOut \/ \E v \in since..probed : SurfaceKey(v) \in row[i].spent

\* The doc of verdictReturnsOn: a deferral returns when its surface connects,
\* one that had gone unverified included.
DeferralReturns ==
  \A i \in Items : row[i].st = "deferred" /\ row[i].verdict = "connection" /\ Live =>
    \E v \in since..probed : SurfaceKey(v) \in row[i].spent

\* A row parked for its charter is sent back by the approval: the draft still
\* waits, or a re-evaluation the row has not spent is scheduled
\* (parkForCharter, approve).
CharterNotMissed ==
  \A i \in Items : row[i].st = "deferred" /\ row[i].verdict = "charter" =>
    drafting \/ \E c \in requeues : CharterKey(c) \notin row[i].spent

\* The doc of verdictReturnsOn: an out-of-scope skip read under an older
\* charter is sent back for the newer one.
SkipsReadTheCharter ==
  \A i \in Items : row[i].st = "skipped" /\ row[i].verdict = "outOfScope" =>
    under[i] = charter \/ \E c \in requeues : c > under[i] /\ CharterKey(c) \notin row[i].spent

\* Once pauses end and nothing sends rows back any more, by hand or from the
\* tracker, a waiting row is judged or parked, unless the slots are taken: a
\* died evaluation, a lost wake-up or a queue of failing rows does not strand
\* it (evaluateNext, parkSpentEvaluations).
SentBack == ReadmitSatisfied \/ \E i \in Items : RetryFailed(i) \/ ListedAgain(i)
WaitingMoves ==
  <>[]~paused /\ <>[][~SentBack]_vars => \A i \in Items :
    row[i].st = "discovered" ~> row[i].st # "discovered" \/ OpenCount(row) >= cap
=============================================================================

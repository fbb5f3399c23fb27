------------------------------ MODULE PlanDesk ------------------------------
(***************************************************************************)
(* One claimed item from its drafting to the manager's decision on its     *)
(* plan: the draft's claim and the sweep that restarts a dead one (convex/ *)
(* workLoop.ts, planApproval.ts), the plan sent back to drafting when its  *)
(* system connects (planRedraft.ts), and the request for a decision that   *)
(* is claimed, sent and answered in the manager's DM (workManagerChannel   *)
(* .ts, managerChannelActions.ts, managerReplies.ts, decisionRequests.ts)  *)
(* while the dashboard may decide at any time.                             *)
(*                                                                         *)
(* A claim is the number of the draft that took it, and a plan that of the *)
(* draft that wrote it.  A request is known by its six-character code.     *)
(***************************************************************************)
EXTENDS Integers, FiniteSets

CONSTANTS Drafters,    \* the draft actions that may be under way
          Senders,     \* the request actions that may be under way
          MaxResumes,  \* MAX_DRAFT_RESUMES
          MaxChanges,  \* bound: what the manager and the connections change
          MaxSlips     \* bound: lost jobs, killed senders, answers lost or late

ASSUME ResumesAssumption == MaxResumes \in Nat
ASSUME ChangesAssumption == MaxChanges \in Nat /\ MaxSlips \in Nat

Claims == 0..((MaxChanges + 2) * (MaxResumes + 1))  \* 0 for none
Codes == 1..(MaxChanges + MaxSlips + 2)
Requests == [id : Codes, ts : BOOLEAN, failed : BOOLEAN, decided : {"no", "channel", "dashboard"}]
NoRequest == [id |-> 0, ts |-> FALSE, failed |-> FALSE, decided |-> "no"]

VARIABLES
  \* the item's row
  itemState, \* "claimed", "plan-pending", "plan-approved", "cancelled", "failed"
  claim,     \* draftClaimedAt
  plan,      \* plan
  without,   \* planDraftedWithout: "no", "not-connected", "unread"
  rejected,  \* planRejectedAt is set
  request,   \* decision
  resumes,   \* the dead drafts restarted since the last Retry
  \* the scheduler
  draftJob,  \* a draft waits to start
  stopDue,   \* the dead claim a queued stop of the row carries, 0 for none
  recheck,   \* a recovery's decidePlan is queued
  asks,      \* the requests queued, each the code it supersedes or 0
  timer,     \* the recovery of the row's request is still to fire; a former code's is inert
  \* the surroundings
  connected, \* the item's own system is connected
  channel,   \* the manager can be asked in a DM
  dm,        \* the plan each code's message showed, 0 if none arrived
  replaced,  \* replacedDecisionRequests
  \* the actions
  draft,     \* where each draft is, with its claim and what it read
  send,      \* where each sender is, with its code and the plan it showed
  \* bounds, and what the properties read
  claims, codes, changes, slips,
  resetAt,   \* the claims taken before the last Retry or re-draft
  failedFor  \* the claim in whose name the row failed, 0 if another stopped it

itemVars == <<itemState, claim, plan, without, rejected, resumes, resetAt, failedFor>>
askVars == <<request, replaced, asks, timer, dm, codes>>
aroundVars == <<connected, channel, changes>>
deskVars == <<itemVars, askVars, aroundVars, draftJob, stopDue, recheck, draft, send, claims, slips>>

IdleDraft == [at |-> "idle", claim |-> 0, without |-> "no"]
IdleSend == [at |-> "idle", code |-> 0, plan |-> 0]

DeskTypeOK ==
  /\ itemState \in {"claimed", "plan-pending", "plan-approved", "cancelled", "failed"}
  /\ claim \in Claims /\ plan \in Claims /\ without \in {"no", "not-connected", "unread"}
  /\ rejected \in BOOLEAN /\ request \in Requests \cup {NoRequest}
  /\ resumes \in 0..MaxResumes /\ stopDue \in Claims
  /\ draftJob \in BOOLEAN /\ recheck \in BOOLEAN
  /\ asks \subseteq {0} \cup Codes /\ timer \in BOOLEAN /\ replaced \subseteq Codes
  /\ connected \in BOOLEAN /\ channel \in BOOLEAN
  /\ dm \in [Codes -> Claims]
  /\ draft \in [Drafters -> [at : {"idle", "drafting", "deciding"}, claim : Claims,
                             without : {"no", "not-connected", "unread"}]]
  /\ send \in [Senders -> [at : {"idle", "prepared", "cleared", "posted", "refused"},
                           code : {0} \cup Codes, plan : Claims]]
  /\ claims \in Claims /\ codes \in {0} \cup Codes
  /\ changes \in 0..MaxChanges /\ slips \in 0..MaxSlips
  /\ resetAt \in Claims /\ failedFor \in Claims

\* The verdict claimed the item and queued its draft.
DeskInit ==
  /\ itemState = "claimed" /\ claim = 0 /\ plan = 0 /\ without = "no" /\ rejected = FALSE
  /\ request = NoRequest /\ resumes = 0 /\ draftJob = TRUE /\ stopDue = 0 /\ recheck = FALSE
  /\ asks = {} /\ timer = FALSE /\ connected \in BOOLEAN /\ channel \in BOOLEAN
  /\ dm = [c \in Codes |-> 0] /\ replaced = {}
  /\ draft = [d \in Drafters |-> IdleDraft] /\ send = [s \in Senders |-> IdleSend]
  /\ claims = 0 /\ codes = 0 /\ changes = 0 /\ slips = 0 /\ resetAt = 0 /\ failedFor = 0

Slip == slips < MaxSlips /\ slips' = slips + 1
Change == changes < MaxChanges /\ changes' = changes + 1

-----------------------------------------------------------------------------
\* Mutant: a claim holds whoever took it.
LiveClaimForGood == claim # 0
\* holdsLiveStepClaim: the lease is an action's longest life.
LiveClaim == claim # 0 /\ \E d \in Drafters : draft[d].claim = claim

\* rememberReplacedRequest: an undecided request, before it goes.
Undecided(r) == r # NoRequest /\ r.decided = "no"
\* Mutant: a request that is taken back is forgotten.
RememberedNot(r) == replaced
Remembered(r) == replaced \cup (IF Undecided(r) THEN {r.id} ELSE {})

\* Mutant: the plan goes, and its request stays on the row.
RequestKept == request
RequestTakenBack == NoRequest

\* sendBackToDrafting: no plan, no request, no claim, and the draft queued.
SendBack ==
  /\ itemState' = "claimed" /\ plan' = 0 /\ without' = "no" /\ claim' = 0
  /\ replaced' = Remembered(request) /\ request' = RequestTakenBack /\ timer' = FALSE
  /\ draftJob' = TRUE /\ resetAt' = claims
  /\ UNCHANGED <<rejected, resumes, failedFor, asks, dm, codes>>

\* claimLoopStep, at the head of the queued draft, which then reads the
\* item's record, if its system answers.
ClaimDraft(d) ==
  /\ draftJob /\ draft[d].at = "idle" /\ draftJob' = FALSE
  /\ IF itemState = "claimed" /\ ~LiveClaim
     THEN /\ claims' = claims + 1 /\ claim' = claims + 1
          /\ \E read \in IF connected THEN {"no", "unread"} ELSE {"not-connected"} :
               draft' = [draft EXCEPT ![d] = [at |-> "drafting", claim |-> claims + 1, without |-> read]]
     ELSE UNCHANGED <<claims, claim, draft>>
  /\ UNCHANGED <<itemState, plan, without, rejected, resumes, resetAt, failedFor, askVars,
                 aroundVars, stopDue, recheck, send, slips>>

\* Mutant: the state alone fences a plan.
MayStorePlanUnclaimed(d) == itemState = "claimed"
MayStorePlan(d) == itemState = "claimed" /\ claim = draft[d].claim

\* setPlan: a plan whose system connected while it was drafted is not stored.
StorePlan(d) ==
  /\ draft[d].at = "drafting"
  /\ IF ~MayStorePlan(d)
     THEN draft' = [draft EXCEPT ![d] = IdleDraft] /\ UNCHANGED <<itemVars, askVars, draftJob>>
     ELSE IF draft[d].without = "not-connected" /\ connected
     THEN draft' = [draft EXCEPT ![d] = IdleDraft] /\ SendBack
     ELSE /\ plan' = draft[d].claim /\ itemState' = "plan-pending"
          /\ without' = draft[d].without /\ claim' = 0
          /\ draft' = [draft EXCEPT ![d].at = "deciding"]
          /\ UNCHANGED <<rejected, resumes, resetAt, failedFor, askVars, draftJob>>
  /\ UNCHANGED <<aroundVars, stopDue, recheck, send, claims, slips>>

\* setFailed in a draft's name: the row that still carries its claim.
FailFor(c) ==
  IF claim = c /\ itemState \notin {"failed", "cancelled"}
  THEN itemState' = "failed" /\ failedFor' = c
  ELSE UNCHANGED <<itemState, failedFor>>

\* draftOrFail: the model's failure is about this item.
DraftFails(d) ==
  /\ draft[d].at = "drafting" /\ FailFor(draft[d].claim)
  /\ draft' = [draft EXCEPT ![d] = IdleDraft]
  /\ UNCHANGED <<claim, plan, without, rejected, resumes, resetAt, askVars, aroundVars, draftJob,
                 stopDue, recheck, send, claims, slips>>

\* scheduleDecisionRequest
Ask == asks' = IF channel THEN asks \cup {0} ELSE asks

\* decidePlan: the switch runs a plan nothing holds; any other waits.
DecidePlan ==
  \/ itemState # "plan-pending" /\ UNCHANGED <<itemState, asks>>
  \/ /\ itemState = "plan-pending" /\ without = "no" /\ ~rejected
     /\ itemState' = "plan-approved" /\ UNCHANGED asks
  \/ itemState = "plan-pending" /\ Ask /\ UNCHANGED itemState

DraftDecides(d) ==
  /\ draft[d].at = "deciding" /\ DecidePlan
  /\ draft' = [draft EXCEPT ![d] = IdleDraft]
  /\ UNCHANGED <<claim, plan, without, rejected, resumes, resetAt, failedFor, request, replaced,
                 timer, dm, codes, aroundVars, draftJob, stopDue, recheck, send, claims, slips>>

\* The action is killed, or the model's outage is thrown: the claim lapses.
DraftDies(d) ==
  /\ draft[d].at # "idle"
  /\ draft' = [draft EXCEPT ![d] = IdleDraft]
  /\ UNCHANGED <<itemVars, askVars, aroundVars, draftJob, stopDue, recheck, send, claims, slips>>

\* A queued draft never starts.
DraftJobLost ==
  /\ draftJob /\ draftJob' = FALSE /\ Slip
  /\ UNCHANGED <<itemVars, askVars, aroundVars, stopDue, recheck, draft, send, claims>>

-----------------------------------------------------------------------------
\* resumeDraft, by the stalled-step sweep.
SweepDraft ==
  /\ itemState = "claimed" /\ plan = 0 /\ ~LiveClaim
  /\ IF claim # 0 /\ resumes >= MaxResumes
     THEN stopDue' = claim /\ UNCHANGED <<resumes, draftJob>>
     ELSE /\ draftJob' = TRUE /\ UNCHANGED stopDue
          /\ resumes' = IF claim = 0 THEN resumes ELSE resumes + 1
  /\ UNCHANGED <<itemState, claim, plan, without, rejected, resetAt, failedFor, askVars, aroundVars,
                 recheck, draft, send, claims, slips>>

StopDead ==
  /\ stopDue # 0 /\ stopDue' = 0 /\ FailFor(stopDue)
  /\ UNCHANGED <<claim, plan, without, rejected, resumes, resetAt, askVars, aroundVars, draftJob,
                 recheck, draft, send, claims, slips>>

\* The sweep's look at a plan nobody was asked about, past the lease.
SweepPending ==
  /\ itemState = "plan-pending" /\ request = NoRequest
  /\ ~\E d \in Drafters : draft[d].at = "deciding"
  /\ recheck' = TRUE
  /\ UNCHANGED <<itemVars, askVars, aroundVars, draftJob, stopDue, draft, send, claims, slips>>

Recheck ==
  /\ recheck /\ recheck' = FALSE /\ DecidePlan
  /\ UNCHANGED <<claim, plan, without, rejected, resumes, resetAt, failedFor, request, replaced,
                 timer, dm, codes, aroundVars, draftJob, stopDue, draft, send, claims, slips>>

-----------------------------------------------------------------------------
\* Mutant: a claim is not followed up.
ArmedNever == FALSE
\* The claim's dead-man's switch, armed in its transaction.
Armed == TRUE

\* prepareDecisionRequest: the one message of a parked plan is claimed; a
\* code is replaced by the resend that names it.
Prepare(s) ==
  /\ send[s].at = "idle"
  /\ \E a \in asks :
       /\ asks' = asks \ {a}
       /\ IF \/ itemState # "plan-pending" \/ ~channel
             \/ Undecided(request) /\ request.id # a
             \/ Undecided(request) /\ request.ts /\ ~request.failed
          THEN UNCHANGED <<request, replaced, timer, codes, send>>
          ELSE /\ codes' = codes + 1
               /\ request' = [NoRequest EXCEPT !.id = codes + 1]
               /\ replaced' = Remembered(request) /\ timer' = Armed
               /\ send' = [send EXCEPT ![s] = [at |-> "prepared", code |-> codes + 1, plan |-> plan]]
  /\ UNCHANGED <<itemVars, dm, aroundVars, draftJob, stopDue, recheck, draft, claims, slips>>

\* beforeManagerTransport: the request is still the row's, open and unsent.
BeforeTransport(s) ==
  /\ send[s].at = "prepared"
  /\ LET current == /\ request.id = send[s].code /\ Undecided(request)
                    /\ ~request.failed /\ ~request.ts /\ itemState = "plan-pending"
     IN send' = [send EXCEPT ![s].at = IF current THEN "cleared" ELSE "refused"]
  /\ UNCHANGED <<itemVars, askVars, aroundVars, draftJob, stopDue, recheck, draft, claims, slips>>

\* The message arrives, or fails, or arrives and is not acknowledged.
Post(s) ==
  /\ send[s].at = "cleared"
  /\ \/ /\ dm' = [dm EXCEPT ![send[s].code] = send[s].plan]
        /\ \/ send' = [send EXCEPT ![s].at = "posted"] /\ UNCHANGED slips
           \/ send' = [send EXCEPT ![s].at = "refused"] /\ Slip
     \/ send' = [send EXCEPT ![s].at = "refused"] /\ Slip /\ UNCHANGED dm
  /\ UNCHANGED <<itemVars, request, replaced, asks, timer, codes, aroundVars, draftJob, stopDue,
                 recheck, draft, claims>>

\* recordDecisionRequest: on the row while it carries the code.
RecordRequest(s) ==
  /\ send[s].at \in {"posted", "refused"}
  /\ request' = IF request.id # send[s].code THEN request
                ELSE IF send[s].at = "posted" THEN [request EXCEPT !.ts = TRUE]
                ELSE [request EXCEPT !.failed = TRUE]
  /\ send' = [send EXCEPT ![s] = IdleSend]
  /\ UNCHANGED <<itemVars, replaced, asks, timer, dm, codes, aroundVars, draftJob, stopDue,
                 recheck, draft, claims, slips>>

SenderDies(s) ==
  /\ send[s].at # "idle" /\ Slip /\ send' = [send EXCEPT ![s] = IdleSend]
  /\ UNCHANGED <<itemVars, askVars, aroundVars, draftJob, stopDue, recheck, draft, claims>>

AskLost ==
  /\ Slip /\ \E a \in asks : asks' = asks \ {a}
  /\ UNCHANGED <<itemVars, request, replaced, timer, dm, codes, aroundVars, draftJob, stopDue,
                 recheck, draft, send, claims>>

\* supersedeDecisionRequest: marked failed, and asked again under a new code.
Supersede ==
  /\ request' = [request EXCEPT !.failed = TRUE] /\ asks' = asks \cup {request.id}

\* recoverUndeliveredDecisionRequest, three minutes after the claim; a send
\* that is still under way by then is a slow one.
RecoverRequest ==
  /\ timer /\ timer' = FALSE
  /\ IF \E s \in Senders : send[s].code = request.id THEN Slip ELSE UNCHANGED slips
  /\ IF /\ Undecided(request) /\ itemState = "plan-pending"
        /\ ~request.ts /\ ~request.failed
     THEN Supersede ELSE UNCHANGED <<request, asks>>
  /\ UNCHANGED <<itemVars, replaced, dm, codes, aroundVars, draftJob, stopDue, recheck, draft, send,
                 claims>>

\* resendDecisionRequest, from the card: a request that was never delivered.
Resend ==
  /\ itemState = "plan-pending" /\ Undecided(request) /\ ~request.ts /\ request.failed
  /\ Change /\ Supersede
  /\ UNCHANGED <<itemVars, replaced, timer, dm, codes, connected, channel, draftJob, stopDue,
                 recheck, draft, send, claims, slips>>

-----------------------------------------------------------------------------
\* approvePlanInTransaction, cancelPlanInTransaction
DecideBy(via) ==
  /\ itemState = "plan-pending"
  /\ request' = IF Undecided(request) THEN [request EXCEPT !.decided = via] ELSE request
  /\ \/ itemState' = "plan-approved" /\ UNCHANGED rejected
     \/ itemState' = "cancelled" /\ rejected' = TRUE
  /\ UNCHANGED <<claim, plan, without, resumes, resetAt, failedFor, replaced, asks, timer, dm,
                 codes, aroundVars, draftJob, stopDue, recheck, draft, send, claims, slips>>

DecideOnDashboard == DecideBy("dashboard")

\* resolveManagerReply: a code the row carries, undecided; any other is
\* answered (already decided, or replaced) and changes nothing here.
DecideInChannel == request.id \in Codes /\ dm[request.id] # 0 /\ Undecided(request) /\ DecideBy("channel")

\* stopRun of a row being drafted: its queued step is cancelled.
StopItem ==
  /\ itemState = "claimed"
  /\ itemState' = "failed" /\ draftJob' = FALSE
  /\ UNCHANGED <<claim, plan, without, rejected, resumes, resetAt, failedFor, askVars, aroundVars,
                 stopDue, recheck, draft, send, claims, slips>>

\* retryFailed: a plan the manager turned down is drafted again.
Retry ==
  /\ itemState \in {"failed", "cancelled"} /\ Change
  /\ itemState' = "claimed" /\ claim' = 0 /\ resumes' = 0 /\ draftJob' = TRUE
  /\ plan' = 0 /\ request' = NoRequest /\ timer' = FALSE
  /\ replaced' = IF request = NoRequest THEN replaced ELSE replaced \cup {request.id}
  /\ resetAt' = claims /\ failedFor' = 0
  /\ UNCHANGED <<without, rejected, asks, dm, codes, connected, channel, stopDue, recheck,
                 draft, send, claims, slips>>

\* The item's system connects: a plan drafted without it goes back.
Connect ==
  /\ ~connected /\ connected' = TRUE
  /\ IF itemState = "plan-pending" /\ without = "not-connected" /\ request.decided = "no"
     THEN SendBack
     ELSE UNCHANGED <<itemVars, askVars, draftJob>>
  /\ UNCHANGED <<channel, changes, stopDue, recheck, draft, send, claims, slips>>

Disconnect ==
  /\ connected /\ Change /\ connected' = FALSE
  /\ UNCHANGED <<itemVars, askVars, channel, draftJob, stopDue, recheck, draft, send, claims, slips>>

ChannelChanges ==
  /\ Change /\ channel' = ~channel
  /\ UNCHANGED <<itemVars, askVars, connected, draftJob, stopDue, recheck, draft, send, claims, slips>>

DraftStep(d) ==
  \/ ClaimDraft(d) \/ StorePlan(d) \/ DraftFails(d) \/ DraftDecides(d) \/ DraftDies(d)

SendStep(s) == Prepare(s) \/ BeforeTransport(s) \/ Post(s) \/ RecordRequest(s)

DeskNext ==
  \/ \E d \in Drafters : DraftStep(d)
  \/ \E s \in Senders : SendStep(s) \/ SenderDies(s)
  \/ DraftJobLost \/ AskLost \/ SweepDraft \/ StopDead \/ SweepPending \/ Recheck
  \/ RecoverRequest \/ Resend \/ DecideOnDashboard \/ DecideInChannel \/ StopItem \/ Retry
  \/ Connect \/ Disconnect \/ ChannelChanges

DeskSpec == DeskInit /\ [][DeskNext]_deskVars

-----------------------------------------------------------------------------
\* What the row holds was written by the draft under way: neither a plan nor a
\* failure of a draft that a Retry or a re-draft left behind lands on its
\* successor's row, however late it answers (setPlan, setFailed, D 12-J).
OnlyTheLastDraft ==
  /\ plan # 0 => plan > resetAt
  /\ failedFor # 0 => failedFor > resetAt

\* A reply decides the plan its message showed, never one drafted since.
DecidedAsShown ==
  request.decided = "channel" => plan = dm[request.id]

\* Every code the manager was sent is answered by name for good: it is the
\* row's request, or remembered as replaced, also when its message arrived
\* after it was taken back (rememberReplacedRequest, rememberRetriedRequest).
CodesStayKnown ==
  \A c \in Codes : dm[c] # 0 => request.id = c \/ c \in replaced

\* A plan that waits on the manager does not wait unsaid: it is decided, sent
\* back, delivered to the DM, or marked as not delivered on its card.
AskedOrTold ==
  itemState = "plan-pending" ~>
    itemState # "plan-pending" \/ request.ts \/ request.failed \/ ~channel

\* A draft that dies is drafted again and at last stopped: no claimed item
\* holds its slot for ever.
DraftsEnd == itemState = "claimed" ~> itemState # "claimed"
=============================================================================

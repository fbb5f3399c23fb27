# Formal verification of day0's work engine

day0 runs "digital employees": agents that find work on a team's systems, judge
whether it is in their scope, draft a plan, and, once the manager approves,
write to trackers, chat and documents on the team's behalf. Its core is a set of
Convex mutations (transactions over one database) and Node actions (long, killable
processes that call models and providers and only touch the database through
those mutations). This directory holds TLA+ models of that core, their TLC
configurations, and theorems checked by TLAPS.

Paths below are relative to the repository; the repository's own `src/` directory
appears as `src/src/` in `PROJECT.json`, next to `src/convex/`.

## 1. What the system is made of

### 1.1 Who acts

| actor | what it is | what can go wrong with it |
|---|---|---|
| mutation | a serialisable transaction | nothing in between: one action of a model |
| Node action | a process that runs up to ten minutes: evaluate, draft, execute, author a closing phase, apply | killed between any two of its steps; what it read is old by the time it writes |
| scheduled job | `runAfter(0, ...)` of one of these, at-least-run-once, never retried for an action | queued twice, refused at its claim, cancelled by a Stop |
| timers | dead-man switch of an apply (`recoverInterruptedApply`), retries of a parked question | fires after the thing it watches has moved on |
| crons | stalled-step sweep (5 min), lapsed manager claims (5 min), decision poll (60 s), handover expiry (15 min) and settlement (1 min), documentation sync (15 min), surface re-probe (1 h), intake poll (5 min), revocation close (1 h) | they race everything else |
| manager | dashboard, the channel in chat, batch cards | answers a card that is stale; answers wrongly |
| provider | Jira, Linear, Slack, Drive, ... | takes a write and loses the answer; refuses |

### 1.2 Components, their state, and what makes them right

The state of most components is one row of `workItems`; everyone below reads and
writes it, which is why the hard behaviours are almost all *stale reads across
transactions* and *claims that outlive their holder*.

| component | source | state | operations | correct when |
|---|---|---|---|---|
| **Run lifecycle** | `convex/work.ts` (2608 lines), `convex/workRuns.ts` (1352) | `state`, `executionRunId`, `pendingRunId`, `approvedIndexes`, `actionVerdicts`, `applyPhase`, `applyAttemptId`, `output` | claim an execution, gate its actions, claim and report an apply, complete, fail, stop, retry, reconcile | nothing undecided is sent; a key is sent once; what landed is never forgotten |
| **Apply engine** | `convex/workActions.ts` (`applyApprovedActionsHandler`, `finishRun`), `convex/workApply.ts` | the ledger of the list, the attempt id | refuse, authorise, send, report each row in order; finish; recover | two applies never overlap on one row; the ledger agrees with the provider |
| **Write carrying and reconciliation** | `src/work/landed-writes.ts`, `reconciliation.ts`, `apply-progress.ts`, `stop.ts` | `output.landedWrites`, `unsentWrites`, `providerReconciliation` | what a retry carries, reuses, sends again | a carried write is on the provider; a denied one is not carried |
| **Work loop** | `convex/workLoop.ts` | `evaluationClaimedAt`, `draftClaimedAt`, attempts, jobs recorded on the row | queue a step, claim it under a lease, sweep, park, pause | every item moves or is parked; the work-in-progress cap holds; a live step is never doubled |
| **Evaluation and verdicts** | `convex/workVerdicts.ts`, `workReevaluation.ts`, `workSeeding.ts` | `verdict`, `deferredOn`, `reevaluationKey` | judge, defer, re-open on a connection, a grant or a charter | an item that waits for something is woken when it arrives |
| **Planning** | `convex/planApproval.ts`, `planRedraft.ts` | `plan`, plan decision | store a draft, redraft, approve, reject | the stored plan is the current draft's |
| **Closing phase** | `src/work/closing-resume.ts`, `held-close.ts`, `convex/work.ts` (`prepareDependentPhase`, `claimDependentAuthoring`, `recoverDependentAuthoring`) | the output's phase, the authoring turn (`applyAttemptId`) | author the closing set after its prerequisites landed; apply it; resume at it | what landed in either phase of any run is not sent again; no authoring that dies holds the run |
| **Manager channel** | `convex/workManagerChannel.ts`, `managerDecisions.ts`, `managerReplies.ts`, `decisionRequests.ts` | decision requests, their claims, replies | ask, remind, read the answer, apply it, retire | a decision is applied once, to what was shown; no request is lost or sent twice |
| **External work claims** | `convex/workClaims.ts`, `src/work/claim-key.ts` | claim rows keyed by ticket | claim, pend, release, transfer | one employee of an owner holds a ticket |
| **Handover** | `convex/managerTransfers.ts`, `transferAcceptance.ts`, `transferInFlight.ts`, `handoverFence.ts` | transfer row and its deadline | offer, accept, expire, settle | no run starts behind the fence; a handover always settles |
| **Leases** | `convex/refreshLease.ts`, `sandboxLease.ts`, `skillAuthoringClaim.ts` | holder and expiry | take, steal after expiry, commit, release | a stale holder writes nothing |
| **Skills** | `convex/skills.ts`, `skillControls.ts`, `skillVersions.ts`, `skillRegistration.ts`, `skillAuthoringRun.ts`, `skillSandboxCheck.ts` | skill and version rows | author, check, register, revise, withdraw, retire | only a checked version is live |
| **Surfaces and connections** | `convex/surfaces.ts`, `surfaceActions.ts`, `credentials.ts`, `organisationConnections.ts`, `src/surfaces/registry.ts` | surface state, `verifiedAt`, tokens | request, approve, probe, connect, disconnect | a probe of an older connection never revives a newer state |
| **Documentation sync** | `convex/docSources.ts`, `docSyncActions.ts` | generation, cursor, pages | start, page, finish, supersede | only pages of the live generation are served |
| **Source revocation** | `convex/sourceRevocation.ts`, `sourceRevocationActions.ts` | the attempt, the value held for the vendor call | end access, attempt, finish, expire | the vendor is told, and the value is deleted within a day whatever dies |
| **Slack socket, intake** | `convex/slackSocket.ts`, `slack-socket/bridge.js`, `convex/intakeActions.ts` | owner lease, dedup keys | take the socket, poll, deliver | a message is taken once |
| **Charters, agents, metrics, reset** | `convex/charters.ts`, `agents.ts`, `metrics.ts`, `reset.ts`, `corrections.ts`, `managerNotes.ts` | rows | amend, approve, record | (single transactions) |
| **Web application, migrations, crons** | `app/`, `convex/migrations.ts`, `crons.ts` | none of its own | - | - |

How they meet: the work loop *schedules* the Node actions; these *claim* through
run-lifecycle mutations and write back through them under a fence
(`executionRunId`, `pendingRunId`, `applyAttemptId`, `draftClaimedAt`). The
manager channel *calls* the same mutations the dashboard does. Surfaces and
skills *wake* parked work through the re-evaluation functions. The handover fence
and the pause flag are *read* by every claim.

### 1.3 What is hard here

`PROJECT.json` lists each hazard at its line under `hazards`. They fall in five
groups: an actor that writes on the strength of an old read (executor, apply,
evaluation, draft, approval card); a process that dies holding a claim, whose
recovery must neither repeat nor forget its work; a provider whose answer is
lost; the *memory* across runs of one item (which write landed, which the manager
denied), which passes through four representations and three actors; and the
loop's promise that nothing waits forever.

## 2. What is modelled

| module | models | checked by | theorems |
|---|---|---|---|
| `WorkRun` | run lifecycle, apply engine, write carrying and reconciliation, the loop's part in an apply, for one item | `MCWorkRun`, `MCWorkLive` | `WorkRun_proofs`, `WorkRunRecord_proofs`, `WorkRunLanded_proofs` |
| `WriteOnce` | the abstract promise of an item's runs about their writes | through `WorkRunWriteOnce` | through `WorkRunWriteOnce` |
| `WorkRunWriteOnce` | the refinement mapping of `WorkRun` to `WriteOnce` | `MCWorkRun` | `WorkRunLanded_proofs` |
| `ClosingPhase` | the runs of one item that close in a second phase, and what their retries carry | `MCServices`, by itself | `RunEffects_proofs` |
| `WorkQueue` | an employee's evaluation queue, verdicts, slots and waits, for a few items and one surface | `MCWorkQueue`, `MCWorkQueueSides`, `MCWorkLive` | `WorkQueue_proofs` |
| `PlanDesk` | an item from its draft to the manager's decision on its plan | `MCServices` | `ManagerDesk_proofs` |
| `ExternalClaims` | the owner-wide claims on a ticket and on a page field | `MCServices`, `MCExternalClaims` | `RunEffects_proofs` |
| `ClaimBook` | the abstract promise of those claims: from whom one may be taken, and who is freed | through `ExternalClaims` | `RunEffects_proofs` |
| `Handover` | an employee handed to another manager while work runs | `MCServices` | `ManagerDesk_proofs` |
| `TokenLife` | one OAuth pair, from its refreshes to its revocation | `MCServices` | `Sources_proofs` |
| `DocSync` | one documentation source under its generations | `MCServices` | `Sources_proofs` |
| `MCServices` | the six components that share no state, side by side | itself | `Services_proofs` |

How they meet. `WorkRun` is what happens inside an open row of `WorkQueue`, and
`ClosingPhase` what happens around one apply of it; `PlanDesk` ends where `WorkRun`
begins (`plan-approved`). `ExternalClaims` and `Handover` hold the coarse states of
several items and take a run or an apply as one step with its outcomes: what they say
of claims and of owners does not depend on the row of the list an apply has reached.
`TokenLife` and `DocSync` share no state with the others.

`MCServices` and `MCWorkLive` are *sums*. A variable `part`, chosen at the start, says
which component a behaviour runs; the variables of the others stay in an initial state.
A run of the sum checks what separate runs of its components would, on the sum of
their state spaces. `MCServices` extends its components, whose names differ;
`MCWorkLive` extends `WorkRun` and instantiates `WorkQueue`.

## 3. `WorkRun`: the runs of one work item

### 3.1 State and actions against the code

The row's fields are the module's first group of variables, named in its comment
next to each. A Node action is a member of `Procs` with a program counter and the
locals it carries between mutations:

    idle -> read -> authoring -> (ended)                    executeApprovedPlan
    idle -> apply <-> sending -> finish -> (ended)          applyApprovedActions
               \-> lost -> recover -> (ended)

| action | code |
|---|---|
| `ReadItem`, `ClaimExecution`, `ClaimExecutionRefused` | `executeApprovedPlanHandler` reads the item, then `claimForExecution` |
| `SetActionsPending` (`KeepDraft`, `Gated`) | `holdDay0Actions` into `setActionsPending`: the draft is kept, each row gets the gate's verdict, and the run goes to its automatic apply, to the manager, or fails |
| `ResumeExecution`, `ExecutionFails`, `MovedOn` | a model failure goes back while resumes remain; other failures stop the run; a run that moved on is left alone |
| `ClaimApprovedActions`, `ClaimRefused`, `ParkOnConnection` | the claim of an approved set, its refusal, and the set whose surface lost its connection |
| `RefuseRow`, `Authorise`, `Send`, `RecordApplyOutcome` | one row of the list: refusal before transport, the last check before transport, the provider, the report |
| `RecordUnsentAfterStop`, `ApplyThrows`, `Recover` | an apply that lost its claim records what it never sent; a throw runs the action's own recovery |
| `FinishFailed`, `SetAwaitingApproval`, `SetCompleted`, `StopOnQuestion` | `finishRun` |
| `FireSwitch`, `Recover` | `recoverInterruptedApply`, by timer and by the action |
| `ResumeHeldApplies`, `SweepStalled` | the sweep's two passes over runs |
| `ApproveActions`, `RejectActions`, `StopRun`, `ReconcileFailed`, `RetryFailed`, `PlanAgain`, `SetPaused` | the manager |
| `Crash` | the end of a Node action at any point |

`landed` and `tried` are the provider; `cleared`, `told`, `saidLanded` and
`stale` are history that only properties read.

### 3.2 Abstractions

* A run and a phase have small integer ids in the order they were issued. An index
  of a run's list stands for both a place and a target, and later runs draft the
  same targets: this is the case in which reuse (`Reused`, the code's match of a
  drafted write against carried ones) can succeed. A key is a pair of run and index.
* Runs have a single phase; a second one, with the apply as one step, is `ClosingPhase`.
  Reads and read repairs, the missing-skill parking and `closeWithoutRetry` are left
  out. With one phase, `pendingRunId` is the run's id.
* The queue of execute jobs is abstracted: a job exists for every transition to
  plan-approved and every sweep queues one more, so any idle process may read a
  plan-approved item. The queue of apply jobs is one flag: a second copy finds
  nothing to claim, and `ClaimRefused` is what it does.
* Ages are untimed. The dead-man switch has an age check that lets only the
  claim's own timer stop an apply that claimed; the model keeps one switch and
  re-arms it at the claim. It may fire while the apply still runs, as it may in
  the code: its window is six minutes and an action may run for ten.
* `PlanAgain` stands for deferred, connected, evaluated, planned, approved.
* An apply attempt id is fresh when neither the row nor a process holds it.

### 3.3 Runs and bounds

| run | instance | states | what it shows |
|---|---|---|---|
| `work_run_one` | one write, two processes, two runs, a manager who may answer anything, no pause | 1.2 M | duplicate applies, crashes, stops, reconciliations and retries: `KeySentOnce`, `LandedOnce`, `NothingForgotten`, `CarriedIsTrue`, `TypeOK`, and the refinement `KeepsWriteOnce` |
| `work_run_two` | two writes, one process, pauses, one resume, a candid manager | 1.5 M | lists that stop half way: `OnlyDecidedSent`, `DenialIsTrue`, `CompletedIsTrue`; deadlock |
| `work_live` | one write, one process, pauses, fairness (the part "run" of the sum) | 40 k | `RunsSettle`, `ApprovedSetsStart` |
| `answered_landed_resent` | as `work_run_one` | - | a disagreement of code and comment, section 8 |
| `not_sent_carried` | as `work_run_one` | - | a disagreement of code and comment, section 8 |

Bounds. `MaxRuns = 2` gives a write an earlier run to be confused with: every
property about memory is about a pair of runs. Two processes are needed for an
apply that lives on past its claim, or an executor past its read, with a
successor at work. Two writes are needed for "half of the list". `MaxResumes = 1`
has both branches of the resume. `MayPause` removes pauses from instances that do
not ask about them; `Candid` restricts the manager to right answers to what is
asked in the instance with two writes. `work_run_one` does not check deadlock: an
item whose interrupted apply has no entry to confirm is owed a reconciliation
nobody can give, and only `closeWithoutRetry` (left out) ends it. It is the hazard
at `convex/workRuns.ts:1325`.

Fairness (`Fairness`): a Node action that is under way moves or is killed at its
ten-minute limit; a queued job runs; the armed switch fires; the crons run. No
fairness is assumed of the manager, the provider's success, or the end of a pause
(the two liveness properties assume that pauses end).

### 3.4 What the properties mean

* `OnlyDecidedSent`: only what the gate let through, or the manager approved on
  the card of that very run, is ever sent.
* `KeySentOnce`: no idempotency key goes out twice, whichever of a queued job, a
  resumed one, a fired switch or a sweep starts the apply.
* `LandedOnce`: a write lands under two runs only where the manager said that the
  first was not sent, or a run since was claimed on a stale read (a finding). The run with the
  stale read need not be the one that sends again: it may lose what run 1 landed, and a run 3
  that reads the row as it is then sends it. The instance has two runs and could not tell the
  two forms apart; the proof, which is about any number of runs, could.
* `NothingForgotten`: what landed stays on record until someone denies it.
* `DenialIsTrue`: a row that says "not sent" is right and stays right.
* `CarriedIsTrue`: what a run carries as landed is on the provider, or was said
  to be by the manager.
* `CompletedIsTrue`: each row of a completed item landed, was reused from a write
  carried as landed, or was held.
* `RunsSettle`, `ApprovedSetsStart`: section 1.3's last group, for a run.

`KeepsWriteOnce` states the promise in one place. `WriteOnce` knows of each key, a run
and a place of its list, only whether it is undecided, let through, sent or landed, and of
the manager only the denials. Its `Send` takes a key that was let through, once, and
may land a place again only after a denial or in a run known to be blind (one claimed on a
stale read). The mapping reads a key's fate from `landed`, `tried` and `cleared`, takes
`denied` from `told` and `blind` from `stale`; every other step of `WorkRun` (claims,
reports, switches, stops, retries) is a stutter. It says more than `KeySentOnce`
and `LandedOnce` together: a key may not be let through after it was sent, and a denial is
never taken back.

`DenialIsTrue` speaks of what the code records. A different case has no guard
in the code: a send authorised just before a Stop may land after the manager looked at
the provider and answered "not sent". `LandedOnce` excuses it by `told`; it is
listed as a hazard.

## 4. `WorkQueue`: judging work and taking slots

### 4.1 State and actions against the code

A row is what the queue reads of a work item: its state (the five states that hold a
slot are one, `"open"`; `WorkRun` is what happens inside), whose evaluation claim it
holds, its attempts, the verdict it is parked with and the keys that have sent it back.
The employee is its cap, its pause, its charter and the re-evaluations scheduled; there
is one surface. An evaluation is a process:

    idle -> claimed -> read -> judged -> (verdict written)

| action | code |
|---|---|
| `Seed`, `Withdraw`, `ListedAgain` | `seedItemInTransaction` and `refreshListedItem`, at an intake |
| `Wake`, `EvaluateNext`, `Schedule` (in every transition that frees or fills the queue) | `scheduleNextStep`, `wakeQueuedWork`, `evaluateNext` with `parkForCharter` and `parkSpentEvaluations` |
| `StartEvaluation`, `StartRefused` | `claimLoopStep` of a queued evaluation |
| `ReadCharter`, `Judge` | the reads of `evaluateWorkItemHandler` and `evaluateCandidate` |
| `SetVerdict` (`Verdict`) | `applyVerdict`: cap and connection read again, the verdict written, the next row woken |
| `RecordScopeUnavailable` | the judgement that got no answer; the claim stays until it lapses |
| `Crash`, `LapseClaim`, `Sweep` | a died action, the ten-minute lease, the stalled-step sweep |
| `RunEnds`, `ParkOnConnection`, `RetryFailed` | what `WorkRun` or the manager does to the slot |
| `ReevaluatePending`, `ReadmitSatisfied` | re-evaluation by a charter; "Check for new work" |
| `AmendCharter`, `DraftCharter`, `ApproveCharter`, `SetAutonomousActions`, `Pause`, `Resume` | the manager |
| `RecordConnected`, `RecordProbeFailure`, `GoStale` | probes of the surface, and six hours without one |

### 4.2 Abstractions

* One surface stands for what an item waits on. Waits on grants and on skills take the
  same ways through `applyVerdict` and the readmission, and are left out with claims on
  external tickets, quality-fit and value skips, trial rows, kept admissions and the
  documentation trigger.
* A row's place in the queue is decided by urgency and age once both rows were tried or
  both were not; the model takes any of them.
* A re-evaluation that sends several rows back wakes the queue after each; the model
  makes the choices of all of them at once. Windows and batches (50 and 100 rows) are left out.
* `spent` is a set; the code keeps the newest keys, of which the instances need fewer
  than it keeps. The key of a scope judgement asked again (one for each lease window)
  is left out: the readmission takes any of the unanswered rows.
* `attempts` stops at its limit, which is all that is read of it. While a row waits, its
  `verdict` is kept only as "was claimed", which is all a Retry reads.
* The surfaces and the open rows are read in one step, `Judge`.
* A Node action is killed no later than its claim's lease (the action started first), so
  a claim lapses only when its holder is gone.

### 4.3 Runs and bounds

| run | instance | states | what it shows |
|---|---|---|---|
| `work_queue_sides` | two sides of one instance, below | 1.1 M | `OneEvaluation`, `VerdictsKeepCap`, `CallsKeepCap`, `ConnectionNotMissed`, `CharterNotMissed`, `TypeOK` |
| `work_live` | two items, one evaluation, cap 1, pauses and failures, fairness (the part "queue" of the sum) | 86 k | `EveryRowMoves` |
| `skips_read_old_charter` | one item | - | section 8 |
| `deferral_returns` | one item | - | section 8 |

`work_queue_sides` explores the states of `WorkQueue` that its CONSTRAINT `Sides` keeps. On the
*slots* side two items and two evaluations contend for caps 1 and 2, with jobs queued
twice and tickets withdrawn and listed again, while the charter and the surface answer and
stay. On the *waits* side one item and one evaluation, at the low cap, meet a surface that
connects, fails and ages and a charter amended, drafted and approved at any point. The
sides share their early states, and a state outside both is checked but not explored.

Two items are needed for a slot to be contended, and two evaluations for one row to be
judged twice; an item alone shows every missed wake-up, because the sweep stands for the
wake-ups of other rows. Two charters after the first give a key that is spent and one that
is not; two probes give a first connection and a later one, or a probe that is none. `Events` and
`ScopeAnswers` take out of an instance what it does not ask about; between them the runs
have all of it. `MaxAttempts` is fifteen in the code; one or two already has both sides
of the limit.

Fairness: an action under way moves or dies, queued jobs run, leases pass, the sweep
runs. None is assumed of the manager, the surface, or of what a judgement says.
`WaitingMoves`, which `EveryRowMoves` states of the sum, assumes that pauses end and that rows stop being sent back (by Retry, by
"Check for new work", by a ticket listed again). The second is needed: a row sent back
counts no attempt and goes before every row that was tried, so a manager who retries one
failing item for ever keeps another waiting for ever.

### 4.4 What the properties mean

* `OneEvaluation`: one model call at a time is paid for a row. A row withdrawn under its
  evaluation and listed again within its lease is excused: `refreshListedItem` clears the
  claim, and nothing stops a second evaluation.
* `CallsKeepCap`, `VerdictsKeepCap`: what is started and what is claimed fit the cap *at
  that step*; a Retry or a lowered cap may leave more rows open than the cap, and then
  neither adds to them.
* `ConnectionNotMissed`, `CharterNotMissed`: a connection or an approval that lands
  between an evaluation's read and its verdict still sends the row back.
* `WaitingMoves`: no row waits for ever behind rows whose evaluations fail.

## 5. `ClosingPhase`: runs in two phases

### 5.1 State and actions against the code

A skill may ask for a *dependent phase*: the first set of writes is applied, its ledger is
kept in the output, and one author turn writes the closing set from it. The module is the
item's row with its output reduced to what the output's readers tell apart: its shape
(one phase; a ledger awaiting its closing set; a closing set over that ledger; both
flattened into one), the messages landed before and in the newest set, and those it carries
from earlier runs. Where the carried ones are kept depends on the shape, which is the
hard part.

| action | code |
|---|---|
| `ClaimForExecution`, `HoldDay0Actions` | the executor: a first phase authored anew, with what earlier runs landed carried |
| `ResumeClosing` | the executor of an output that resumes at its closing phase, its reads taken again or refused |
| `ApplyHeld` (`FinishFirst`, `FinishClosing`, `ParkForManager`) | an apply and `finishRun`: on to the closing phase, to its one further round, to the manager, completed or failed |
| `ClaimDependentAuthoring`, `AuthorEnds` (`HandOver`, `EndWithNone`) | `authorDependentActions`: the claim arms its switch, and the set goes to the gate, ends the run or fails it |
| `AuthoringLost`, `RecoverFires`, `SweepStalled` | a job that dies or is refused, `recoverDependentAuthoring`, the sweep |
| `ApproveActions`, `RejectHeld`, `StopRun`, `RetryItem` | the manager; `RetryItem` takes the output as it is or resumes at the closing phase (`closingResume`) |

### 5.2 Abstractions, run, meaning

The rows told apart are messages, each to its own place and always in the same words: the
reuse of a carried comment is by its target. Reads and other writes are the outcome
`clean` of an apply. An apply is one step whose outcomes are known: `WorkRun` is about the
others. Left out are directed retries, closing sets that read before they write, redrafts,
declared questions, and the text.

In `services` the instance has one message, two author actions and three runs. Reuse is decided
message by message, and what the other rows do to a run is `clean`, so one message is
enough for `SaidOnce`. Three runs are the shortest way from a message landed, through a run
that only carries it, to one that may send it again. Two messages were explored without a
violation while the module was written (1.8 M states), but leave no room for the other parts.

* `SaidOnce`: across first phases, closing sets, rounds and retries from either point, no
  message is sent twice, but for what a closing set carried when it was rejected or stopped.
* `CarriedNeverResent` is the same without the exception, and is violated (section 8).
* `ClosingEnds`: no run stays executing or approved for ever, though its executor or its
  author dies at any point. Fair are the apply, the armed switches and the sweep; the
  authors are not, and may die or hang up to their switch.

## 6. Five components under `MCServices`

Each is a module of its own, run as a part of the sum of section 2.

### 6.1 `PlanDesk`: draft, request, decision

The item's row from `claimed` to its decision: the draft's claim (a number), the plan (the
number of the draft that wrote it), the request with its code, the jobs queued, and the
drafts and senders as processes. `ClaimDraft`, `StorePlan`, `DraftFails`, `DraftDecides`,
`DraftDies`, `SweepDraft`, `StopDead` are a draft, its ends and the sweep that restarts or
stops it; `Prepare`, `BeforeTransport`, `Post`, `RecordRequest`, `RecoverRequest`, `Resend`
are a request from its claim to its recovery; `DecideOnDashboard` and `DecideInChannel` race;
`Retry`, `StopItem`, `Connect`, `Disconnect`, `ChannelChanges` are the surroundings. What a
plan says, corrections and questions are left out, and there is one item.

* `OnlyTheLastDraft`: what the row holds was written under the newest claim; a draft a Retry
  or redraft left behind writes neither a plan nor a failure.
* `DecidedAsShown`: a reply in the DM decides the plan its message showed. The dashboard's
  approval names no plan and has no such fence (a hazard without a property).
* `CodesStayKnown`: each code that was sent is the row's, or remembered as replaced.
* `AskedOrTold`, `EveryDraftEnds` (liveness): a parked plan is asked about or marked; a draft
  that dies is restarted and at last stopped.

### 6.2 `ExternalClaims`: one ticket, one field

Rows of several employees of one owner: finders, discovered from the same ticket, and
askers, discovered from a message whose plan may name it. `claimsOn` is the claims
not released, of the ticket and of a page field, as the order they were made in: a row holds
a claim when it is related to itself, and `<<g, h>>` says that g's claim is no newer than
h's. (An order, and not a sequence, because what a filter of a sequence returns is an
induction over it, which the provers cannot do.) `BeginEvaluation`,
`VerdictClaims`, `VerdictParks`, `VerdictSkips` judge; `TakeField`, `AskTheGuard`,
`FillField`, `ClaimLanded`, `CompleteRun`, `FailRun`, `RejectActions` run;
`Cancel`, `WithdrawTicket`, `ListAgain`, `RetryRow`, `ParkForSkill`, `SkillRegisters` let go and
come back. `StopsAt` and `Lapsed` are the lazy release by whoever reads the claims next.
Retired employees, aliases of a ticket and the tickets' own write guard are left out.

* `OneHolder`: no two rows that have not let go hold the ticket they were found from, or the field.
* `RefusedByALiveClaim`: a row skipped for a colleague's hold is behind a claim that still
  stands: every release sends back whom it refused in the same transaction.
* `KeepsTheBook`: the claims implement the abstract `ClaimBook`. Its state is the claims that
  stand, those their rows would not be without (`needed`), the rows at work, and what each row
  was refused for. Its steps are five: a row takes a claim (`Take`) or is refused (`Refuse`),
  and on the way clears away only what nobody needs; a row lets go (`LetGo`), of a needed claim
  only as its own work ends; a refused row is judged afresh (`Forget`). Every step that lets a
  claim go frees whom it refused. A ticket's claim is needed until its row lets go; a field's,
  by the run that took it, until it has filled it or was told not to. The mapping is at the end of the module
  (`BookHeld`, `BookNeeded`, `BookActive`, `BookClash`).
* `FieldKept`, that a run which took the field holds it until it asks to fill it, is a theorem
  (7.2). No run checks it by itself: a run whose field was settled and taken by a newer row
  breaks `KeepsTheBook` first, when the claim it needs goes while it is at work.
* `NotKeptForGood` (liveness, run `claims_kept_for_good`) is the comment at `liveClaimOn`, and
  is violated (section 8). Fairness there is of the loop that judges rows, and of nothing else.

### 6.3 `Handover`: another manager while work runs

The employee's owner and newest transfer, its chat surface, and of each work item its state, on
whose word it stands, its request and in whose DM that is. `AcceptMoves`, `AcceptWaits`,
`DeadlinePasses`, `SweepSettles`, `Settle`, `SettleThrows`, `RecordSettleFailure`,
`SettleLost`, `OperatorEnds` are the acceptance and its settles; `Move` is the move's
transaction (`Stopped`, `Returned`, `Voided`). Runs, holds, requests, replies and clicks go
on between. What else the move carries (connections, claims, notes, charter drafts,
documentation) is left out.

* `RunsOnItsOwnersWord`: nothing runs, or is about to, on the word of a manager the
  employee no longer reports to.
* `AskedOfItsOwner`: a row that counts as asked was asked of the manager it now has.
* `HandoverEnds` (liveness): an accepted handover moves or closes, whatever throws or dies.

### 6.4 `TokenLife`: a rotating pair and its revocation

The two rows of an OAuth pair, the lease on the refresh token, the refreshes as processes
(one of them the scheduled one), the issuer, and the attempts to revoke at the vendor.
`ReadHeld`, `ClaimLease`, `Exchange`, `Rotate`, `Discard`, `Release`, `SettleRefresh` are a
refresh; `EndAccess`, `BeginAttempt`, `VendorAnswers`, `FinishRevocation`, `RecordAttempt`,
`Expire`, `ExpireOverdue` an end of access. Ages are untimed: a lease lapses when its
exchange is over or its holder dead.

* `PresentedAlone`: no two refreshes have one refresh token out at once, and the one out is the
  stored pair's.
* `PairMovesOn`: the stored pair gives way only to a later one, and never once access ended.
* `EndedAtTheVendor`: once the vendor says the held token is revoked, nothing issued for the
  pair lives, but for what is in hand, was killed, or lost a race.
* `RefreshAhead`: a live pair's next refresh is queued, under way or refused on the record.
* `HeldValueGoes` (liveness): the value kept for the vendor is deleted, whatever died.

### 6.5 `DocSync`: generations of a source

The provider's pages and cursors, the source with its two newest runs, the stored pages with
where their stamps stand, and the chains of sync actions. `Begin` (by `CronSync` or
`Resync`), `ReadBatch`, `ListingChanged`, `ReadFails`, `UpsertPage`, `RecordBatch`,
`PrunePage`, `FinishSync` are a chain; `ChainDies`, `EditSite`, `CursorDies`, `PauseCrons` the
faults. A batch is a page.

* `TwoWalksMissed`: a page goes only when this walk and the last complete one both missed it.
* `PagesMoveForward`: a stored page never goes back to an older text.
* `SourcesConverge` (liveness): once left alone, a source ends with the provider's pages.

### 6.6 Runs, bounds, fairness

| run | instance | states | what it shows |
|---|---|---|---|
| `services` | one reader and a schedule, three pairs; two pages, two chains, two faults; two drafts, one sender, one change, one slip; two finders and an asker; two items, two managers, two handovers; one message, two authors, three runs | 1.2 M | the invariants, the two action properties and the refinement of 5.2 and 6.1 to 6.5 |
| `services_live` | smaller: one actor of a kind | 150 k | the five liveness properties and `ClosingEnds` |
| `claims_kept_for_good` | two rows | - | section 8 |
| `carried_resent` | one message, three runs | - | section 8 |

Each property needs at most two actors of a kind, a slow one and its successor, which is what
the instances have; the bounds on edits, faults, changes, slips, retries and send-backs let
each of them happen during any step of the others. One change of a plan gives the draft
before and the draft after it, one edit of the provider a stale and a new text, two faults and
one restart a resumed walk and a restarted one. `services` stops at its bounds, so it does not
check deadlock. Its symmetry exchanges two interchangeable actors of each part at once,
none of whom the modules tell apart (`Permutations(Drafters)`; the sets share their values).
Attempts at a settle that die before their failure is counted happen in `services_live`
alone: to a safety property such an attempt is one that never threw.

Fairness (`ServicesFairness`): the crons run, what the scheduler holds fires, an action under
way moves on or dies. Nothing is assumed of managers, providers, vendors and users.

## 7. What is proved

Thirty-six theorems, listed in `PROJECT.json`, in eight modules. Between them they state every
invariant and action property that the passing runs check, and both refinements (`WriteOnce`,
`ClaimBook`). Each is about the component's own specification (`Spec`, `ClosingSpec`,
`DeskSpec`, `ClaimSpec`, `HandSpec`, `TokenSpec`, `DocSpec`), for every value of its constants,
where the runs take small ones; `PartsKeepTheirWord` carries the six of `MCServices` to the
sum the runs check. So the bounds on runs, drafts, send-backs, edits and the like, which cap
the state spaces of the runs, cap nothing here.

Assumptions are the named ones at the head of each module and no others. All are about what
values a constant may have (a bound is a natural number; a set of processes does not contain
the value that stands for "no process"; `WorkQueue`'s `Items` is finite, for its caps count
rows). TLC evaluates every one of them in a run.

Every proof has one shape. The property is not inductive by itself; the module states an
inductive invariant, as a conjunction of named parts, each with a comment that says what the
code keeps by it. Lemmas say what each kind of step leaves alone, so that most steps of a
component are instances of a few lemmas; the steps that could break a part are proved one by
one.

### 7.1 `WorkRun`

**Types** (`TypeCorrect`). A row of a ledger needs a run id, so an apply must act for a run
that was claimed, with its row in the list (`ActsForARun`), and the answers a retry reads must
name rows whose key is a run (`AnswersNameRows`).

**Only what was decided is sent** (`DecidedSends`). A send is decided when its set is approved,
and happens after a claim, a copy of the approved list into the apply, and a check before
transport. `DecidedInv` follows the decision on that way. Its heart is `PendingIsRun`: while a
run is executed or waits, the pending run is the run, which is what makes an apply that claims
under the row's current key send under the key of the decision.

**No key is sent twice** (`SentOnce`). `ClaimInv` says that no two Node actions hold one attempt
id or act for one run, and that an apply of the run the row is under holds the row's claim;
`OnceInv`, that what a fresh run, a held run or an apply's own rows leave open was never tried.

**The record is true** (`CarriedTrue`, `DenialTrue`, `CompletedTrue`). `TrueInv` says of each
place where "landed" is written (progress report, ledger, carried list, the stale copies of an
author, the rows an apply reuses) that it is on the provider or that the manager said so.
`ClosedInv` is its converse: a row recorded as not sent is not on the provider, and no apply
that could still send it is alive. It needs that an apply settles its rows in order
(`AheadUnsent`) and never touches a row outside the approved list (`UnapprovedClosed`).

**Nothing is forgotten or repeated** (`NothingLost`, `LandsOnce`). `HandInv` and `MemoryInv`
follow a write through its life: from the check before transport into the apply's report, the
item's ledger, what a retry carries, what the author of the next run read, and the rows the
next apply reuses. `HandsOnce` then says that two runs have a write in hand only where the
earlier was denied or a run since was claimed on a stale read. The exceptions are the
manager's own word and the stale read of the first disagreement in section 8, and no wider.

**`WorkRun` implements `WriteOnce`** (`ImplementsWriteOnce`). Initial states map to the initial
state; each action of the model maps to one step of the promise or to a stutter. The guard of
the promise's `Send` comes from `DecidedSends`, `SentOnce` and `HandsOnce`.

### 7.2 The other components

* **`WorkQueue`**: `QueueOneEvaluation`, `QueueVerdictsKeepCap`, `QueueCallsKeepCap`,
  `QueueMeetsConnection`, `QueueMeetsCharter`, `QueueTypes`. Nearly every transition wakes the
  queue, and waking it may park rows; `Settles` says once what that does to any set of rows, and
  `Steady` what a transition leaves of claims, waits and slots. The start of an evaluation and
  the approval of a charter are the two transitions that are not `Steady`. The caps rest on
  lemmas about the cardinality of the open rows and of the rows being judged.
* **`ClosingPhase`**: `NothingSaidTwice`. `SaidKept` says where an output of each shape keeps
  what was said; `AuthorHolds` and `OneAtATime`, that nobody but the author of the turn touches
  an output that awaits its closing set. `ClosingTyped`, its types: that what landed is part of
  the set it landed from needs that what a gate holds due or asks for is of the set the output
  holds (`OfItsSet`).
* **`ExternalClaims`**: `ClaimsOneHolder`, `ClaimsRefuseWhileHeld`, `ClaimsKeepTheField`. A
  reader stops at the *first* claim that holds against it, so that two finders never hold
  needs the shape of the claims on a ticket: one asker's and one finder's at most, the
  asker's older (`TicketShape`). `RunsHold` says that a run with the field is executing under
  an open claim, which is why no reader's release reaches it.
* **`ExternalClaims` implements `ClaimBook`** (`ImplementsClaimBook`). Each action maps to one
  step of the book or to a stutter. What a reader clears on its way is either a claim whose
  holder let go, or a settled field whose holder came to an end; that it is never a claim
  somebody needs is `RunsOpen`: a run that took the field, found it taken, or was cleared to
  fill it is executing, and the claim of its row, if it has one, is not settled. A refusal names a needed claim because a
  reader stops only at a holder that has not let go, and never at its own.
* **`PlanDesk`**: `DeskLastDraft`, `DeskCodesKnown`, `DeskDecidedAsShown`. Drafts, queued stops and
  senders carry what they read of the row; the invariants say what of it is still the row's.
  `DeskTyped` is more than types: draft claims and request codes are numbers handed out, and
  the theorem bounds both. The argument is a budget. Each claim and each code is paid for by
  something a row may do a bounded number of times (a Retry, a restart, a redraft, a change of
  the channel, a lost message), and what has not been spent is still queued or under way. In
  the code this is what keeps a row from being drafted or asked about for ever.
  `DeskDraftsCapped` is the sharp form for drafts: between two resets of its own a row is
  drafted at most `MaxResumes + 1` times (`MAX_DRAFT_RESUMES`).
* **`Handover`**: `OwnersWord`, `AskedOwner`. A reply is taken where the request's DM is the
  surface's, so the invariant has to say whose DM that is, and that only a parked row carries
  a request.
* **`TokenLife`**: `TokenPresentedAlone`, `TokenPairMovesOn` (an action property), `TokenEnded`,
  `TokenRefreshAhead`. A lease may lapse under a slow writer and be freed by its rotation, so
  "one holder of the lease" is not the invariant; the generation each refresh read, and that
  what the issuer gave is newer than what the rows hold (`NewerInHand`), are.
* **`DocSync`**: `PagesForward`, `PrunedMissedTwice` (an action property). One chain works at a
  time, its copy no older than the stored text and no newer than the site's; what the running
  walk read carries its stamp, and what the last complete one read still carries a mark.
* **`MCServices`**: `PartsKeepTheirWord`, that a behaviour of the sum is one of each component
  (the components share no variable; the theorem says the sum was put together so), and
  `ServicesTyped`, which follows from it and from the types of each part.

### 7.3 What stays with TLC

* Everything under fairness: `RunsSettle`, `ApprovedSetsStart`, `EveryRowMoves`, `HeldValueGoes`,
  `SourcesConverge`, `AskedOrTold`, `EveryDraftEnds`, `HandoverEnds`, `ClosingEnds`. The prover has
  no rule for `WF` or `ENABLED`.
* The disagreements of section 8: a proof cannot show a violation.

No module declares a RECURSIVE operator.

## 8. Disagreements of code and comments

Each has a run that shows it.

1. **A stale executor sends again what was answered "landed"**
   (`answered_landed_resent`). `executeApprovedPlanHandler` reads the item before it
   claims the run and carries forward what *that read* knew. Two executors of one
   plan-approved item may both have read it; the slower one claims after the faster
   one's run landed, was stopped, reconciled as landed and retried. It carries
   nothing, so the write is drafted and sent under a new key, against
   `src/work/reconciliation.ts:130-132`.
2. **A write answered "not sent" is carried as landed two retries later**
   (`not_sent_carried`). If the retried run stops before drafting, the old ledger
   still stands, a second reconciliation reads its unasked landed row as an answer
   "landed", and `landedWritesOf` prefers that answer to the unsent keys, against
   `src/work/landed-writes.ts:217-220`.

3. **A skip read under the old charter stays** (`skips_read_old_charter`). An amendment
   whose re-evaluation runs while an item is being judged does not see it: it looks at
   skipped and deferred rows. The evaluation then writes the skip it reached under the
   older charter, and nothing sends the row back, against
   `convex/workReevaluation.ts:123-124`. The same verdict write does look again for a
   connection that landed meanwhile.
4. **A deferral behind an unverified connection does not return** (`deferral_returns`).
   A surface stored as connected and not verified for six hours reads as dead, and an
   item judged then is deferred on it. The next successful probe changes no stored
   verdict, so it starts no re-evaluation, against `convex/workReevaluation.ts:125-126`; the
   item waits until the manager asks to check for new work.
5. **A claim keeps a colleague out for good** (`claims_kept_for_good`). A row whose approved
   plan lost its skill is parked with its claim, and a later verdict that skips it
   releases nothing. The colleague it refused is looked at again only by a release, against the
   comment at `liveClaimOn` in `convex/workClaims.ts`.
6. **A rejected closing set forgets what it carried** (`carried_resent`). While a closing set is
   held, the writes carried from earlier runs sit in `output.initial.landedWrites`. A rejection
   or a Stop leaves the output in that shape, and `landedWritesOf` reads `landedWrites` at the
   top alone: the next run sends a comment of two runs before again, against
   `src/work/landed-writes.ts:215-216` and `convex/workActions.ts:1027-1029`. `SaidOnce`
   shows that nothing else is sent again.

## 9. Not modelled

`PROJECT.json` says of each component what is left out. Left aside whole:

* **Skill authoring and registration**, but for parking and registering in `ExternalClaims`: the
  authoring claim against Revise, Withdraw and Retire is the next module of the plan.
* **Slack socket and intake**: an owner lease of its own and a polling fallback; most of it is the
  provider's protocol.
* **Reorientation, people, metrics**; **web application**; **schema migrations and crons**: single
  transactions, presentation, or lists of periods (which the fairness stands for).
* **Prompts, model calls and what they say**: every answer of a model is a free choice.
* Sources of more than one page a batch, batches of action sets, conflict questions, notes and
  digests, sandbox leases (one take and one release), and the authorisation flow.

## 10. Plan

1. `SkillAuthoring`: the authoring lease, the sandbox check, Revise, Withdraw and Retire, with
   the theorem that only a checked version is registered.
2. `SurfaceConnection`: probe against approval and disconnection.
3. `SocketLease`: the owner of the Slack socket and the polling fallback.
4. An abstract specification of the queue's slots and claims that `WorkQueue` implements, with
   the refinement proved.
5. The second phase of a run as rows of `WorkRun`, in place of the one step it is in
   `ClosingPhase`.

## 11. Running it

    tlc -workers 2 -config WorkRunOne.cfg MCWorkRun
    tlc -workers 2 -config WorkQueueSides.cfg MCWorkQueueSides
    tlc -workers 2 -config WorkLive.cfg MCWorkLive
    tlc -workers 2 -config Services.cfg MCServices
    tlc -workers 2 -config CP_CarriedNeverResent.cfg ClosingPhase
    tlapm WorkRun_proofs.tla          # then WorkRunRecord_proofs, WorkRunLanded_proofs
    tlapm WorkQueue_proofs.tla        # and ManagerDesk_, RunEffects_, Sources_proofs;
    tlapm Services_proofs.tla         # last, for it cites the three

Operators marked "mutant" in a comment are deliberately wrong variants of the
definition after them. None is used by a specification; they are there to
show that a property fails when the code is wrong in that way (`mutants` in
`PROJECT.json`).

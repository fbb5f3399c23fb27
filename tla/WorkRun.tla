------------------------------ MODULE WorkRun ------------------------------
(***************************************************************************)
(* One work item and the runs that execute it: the row the Convex          *)
(* mutations of convex/workRuns.ts, convex/work.ts and convex/workApply.ts *)
(* read and write, the Node actions of convex/workActions.ts that author   *)
(* and apply a run's writes, the queued apply job, the apply's dead-man    *)
(* switch, the stalled-step sweep and the manager.                         *)
(*                                                                         *)
(* A mutation is a transaction, so it is one action here.  A Node action   *)
(* is a process: it moves between mutations, queries and provider calls,   *)
(* and may die between any two of them.                                    *)
(*                                                                         *)
(* A run drafts one write for each index of Idx.  An index stands for the  *)
(* write's place in the list and for its target (a ticket comment, a       *)
(* message), so the same index of a later run is the same write.  The      *)
(* idempotency key of a write is the pair of its run and its index.        *)
(***************************************************************************)
EXTENDS Integers, FiniteSets

CONSTANTS N,          \* how many writes a run drafts
          Procs,      \* the Node actions that may be under way at once
          MaxRuns,    \* bound: how many runs the item may claim
          MaxResumes, \* resumes of a failed execution before it stops
          AttemptIds, \* apply attempt ids; one is fresh when nothing holds it
          NoAttempt,  \* an absent attempt id
          MayPause,   \* bound: whether the instance has pauses
          Candid      \* bound: the manager answers only what is asked, and rightly

ASSUME NAssumption == N \in Nat \ {0}
ASSUME RunsAssumption == MaxRuns \in Nat \ {0}
ASSUME ResumesAssumption == MaxResumes \in Nat
ASSUME AttemptsAssumption == NoAttempt \notin AttemptIds
ASSUME PauseAssumption == MayPause \in BOOLEAN
ASSUME CandidAssumption == Candid \in BOOLEAN

Idx == 1..N
Runs == 1..MaxRuns
Keys == Runs \X Idx

\* A ledger row: what is recorded of a write, and the run whose key the row
\* stands for (a reused row stands for the write it reused).
Statuses == {"none",        \* no entry
             "landed",      \* ok
             "reused",      \* ok, carried from an earlier run and not sent
             "failed",      \* refused, by the gate or by the provider
             "held",        \* accounted for and not sent
             "awaiting",    \* held for the manager's decision
             "unknown",     \* interrupted while it may have been sent
             "stopUnknown", \* stopped while it may have been sent
             "notSent"}     \* a stopped apply never sent it
Row(st, r) == [st |-> st, key |-> r]
Blank == Row("none", 0)
Rows == {Blank} \cup [st : Statuses \ {"none"}, key : Runs]
NoRows == [i \in Idx |-> Blank]

Verdicts == {"none", "auto", "held", "refused"}
NoVerdicts == [i \in Idx |-> "none"]
NoAnswers == [i \in Idx |-> "none"]

VARIABLES
  \* the work item's row
  state,      \* its state
  runs,       \* how many run ids were issued
  run,        \* executionRunId, 0 when absent
  pending,    \* pendingRunId, 0 when absent
  decided,    \* whether approvedIndexes is present
  approved,   \* approvedIndexes
  verdict,    \* actionVerdicts
  phase,      \* applyPhase
  attempt,    \* applyAttemptId, or NoAttempt
  ledger,     \* output.applied
  progress,   \* output.applyProgress of the current attempt
  carried,    \* the keys of output.landedWrites
  unsent,     \* the keys of output.unsentWrites
  answers,    \* the answers in providerReconciliation.entries
  reconciled, \* whether providerReconciliation is present
  interrupted,\* skipReason is INTERRUPTED_APPLY_REASON
  resumes,    \* work.execution-resumed events since the last retry
  \* the scheduler and the deployment
  applyQueued,\* an apply job is queued and has not claimed
  switch,     \* the armed dead-man switch of the row's current apply
  paused,     \* the employee or the deployment is paused
  \* the Node actions
  pc, myRun, myAttempt, myPhase, myLedger, myRow, snapCarried, snapUnsent,
  \* the provider
  landed,     \* the runs under whose key the write of an index landed
  tried,      \* the keys a send went out under
  \* what the manager and the gate said, for the properties
  cleared,    \* keys the gate let through or the manager approved
  told,       \* keys the manager answered "not sent"
  saidLanded, \* keys the manager answered "landed"
  stale       \* runs claimed on a snapshot the row had moved on from

claimVars == <<run, pending, decided, approved, verdict, phase, attempt>>
outputVars == <<ledger, progress, carried, unsent>>
answerVars == <<answers, reconciled, interrupted>>
schedVars == <<applyQueued, switch, paused>>
applyVars == <<myRun, myAttempt, myPhase, myLedger, myRow>>
snapVars == <<snapCarried, snapUnsent>>
procVars == <<pc, applyVars, snapVars>>
providerVars == <<landed, tried>>
wordVars == <<cleared, told, saidLanded, stale>>
vars == <<state, claimVars, runs, outputVars, answerVars, resumes, schedVars,
          procVars, providerVars, wordVars>>

ItemTypeOK ==
  /\ state \in {"plan-approved", "executing", "actions-pending", "completed", "failed", "deferred"}
  /\ runs \in 0..MaxRuns /\ run \in 0..MaxRuns /\ pending \in 0..MaxRuns
  /\ approved \subseteq Idx /\ verdict \in [Idx -> Verdicts]
  /\ phase \in {"none", "auto", "approved"}
  /\ attempt \in AttemptIds \cup {NoAttempt}
  /\ answers \in [Idx -> {"none", "landed", "notSent"}]
  /\ resumes \in 0..MaxResumes
  /\ switch \in {"none", "scheduled", "claimed"}

FlagTypeOK ==
  /\ decided \in BOOLEAN /\ reconciled \in BOOLEAN /\ interrupted \in BOOLEAN
  /\ applyQueued \in BOOLEAN /\ paused \in BOOLEAN

OutputTypeOK ==
  /\ ledger \in [Idx -> Rows] /\ progress \in [Idx -> Rows]
  /\ carried \subseteq Keys /\ unsent \subseteq Keys

ActionTypeOK ==
  /\ pc \in [Procs -> {"idle", "read", "authoring", "apply", "sending", "finish", "lost", "recover"}]
  /\ myRun \in [Procs -> 0..MaxRuns] /\ myAttempt \in [Procs -> AttemptIds \cup {NoAttempt}]
  /\ myPhase \in [Procs -> {"none", "auto", "approved"}]
  /\ myLedger \in [Procs -> [Idx -> Rows]] /\ myRow \in [Procs -> 1..(N + 1)]
  /\ snapCarried \in [Procs -> SUBSET Keys] /\ snapUnsent \in [Procs -> SUBSET Keys]

RecordTypeOK ==
  /\ landed \in [Idx -> SUBSET Runs] /\ tried \subseteq Keys
  /\ cleared \subseteq Keys /\ told \subseteq Keys /\ saidLanded \subseteq Keys
  /\ stale \subseteq Runs

TypeOK == ItemTypeOK /\ FlagTypeOK /\ OutputTypeOK /\ ActionTypeOK /\ RecordTypeOK

Init ==
  /\ state = "plan-approved"
  /\ runs = 0 /\ run = 0 /\ pending = 0
  /\ decided = FALSE /\ approved = {} /\ verdict = NoVerdicts /\ phase = "none"
  /\ attempt = NoAttempt
  /\ ledger = NoRows /\ progress = NoRows /\ carried = {} /\ unsent = {}
  /\ answers = NoAnswers /\ reconciled = FALSE /\ interrupted = FALSE
  /\ resumes = 0
  /\ applyQueued = FALSE /\ switch = "none" /\ paused = FALSE
  /\ pc = [p \in Procs |-> "idle"]
  /\ myRun = [p \in Procs |-> 0] /\ myAttempt = [p \in Procs |-> NoAttempt]
  /\ myPhase = [p \in Procs |-> "none"]
  /\ myLedger = [p \in Procs |-> NoRows] /\ myRow = [p \in Procs |-> 1]
  /\ snapCarried = [p \in Procs |-> {}] /\ snapUnsent = [p \in Procs |-> {}]
  /\ landed = [i \in Idx |-> {}] /\ tried = {}
  /\ cleared = {} /\ told = {} /\ saidLanded = {} /\ stale = {}

-----------------------------------------------------------------------------
(***************************************************************************)
(* The ledger.                                                             *)
(***************************************************************************)

UnknownStatuses == {"unknown", "stopUnknown"}
LandedStatuses == {"landed", "reused"}

RowKey(i) == <<ledger[i].key, i>>

\* The rows the manager must confirm on the provider before a retry.
Entries == {i \in Idx : ledger[i].st \in LandedStatuses \cup UnknownStatuses}

\* Rows whose outcome is unknown and that carry no answer.
Unanswered == {i \in Idx : ledger[i].st \in UnknownStatuses /\ answers[i] = "none"}

ReconciliationOwed == (interrupted \/ Entries # {}) /\ (~reconciled \/ Unanswered # {})

\* What a retry reads of the reconciliation: a row recorded landed that nobody
\* was asked about counts as answered "landed".
RetryAnswers ==
  [i \in Idx |-> IF answers[i] # "none" THEN answers[i]
                 ELSE IF reconciled /\ ledger[i].st \in LandedStatuses THEN "landed"
                 ELSE "none"]

\* The writes this ledger did not send, under the answers a.
NotSentWrites(a) ==
  {RowKey(i) : i \in {j \in Idx : \/ a[j] = "notSent"
                                  \/ a[j] = "none" /\ ledger[j].st = "notSent"}}

\* Mutant: a write the manager answered counts as landed, whatever the answer.
LandedWritesAnswered(a) ==
  (carried \ (unsent \cup NotSentWrites(a)))
    \cup {RowKey(i) : i \in {j \in Idx : a[j] # "none" \/ ledger[j].st \in LandedStatuses}}

\* The writes on the provider as the output tells it, under the answers a.
LandedWrites(a) ==
  LET gone == unsent \cup NotSentWrites(a)
      own == {i \in Idx : \/ a[i] = "landed"
                          \/ /\ a[i] = "none" /\ ledger[i].st \in LandedStatuses
                             /\ RowKey(i) \notin gone}
  IN (carried \ gone) \cup {RowKey(i) : i \in own}

\* The row that reuses the oldest carried write of a target, or no row.
Reused(i) ==
  LET sources == {r \in Runs : <<r, i>> \in carried \ unsent}
      oldest == {r \in sources : \A s \in sources : r <= s}
  IN IF oldest = {} THEN Blank ELSE Row("reused", CHOOSE r \in oldest : TRUE)

\* A row that stands for nothing on the provider.
SentNothing(row) == row.st \in {"held", "awaiting", "failed", "notSent"}

\* The held rows the manager has not decided.
Awaiting == {i \in Idx : verdict[i] = "held" /\ ledger[i].st \in {"none", "awaiting"}}

RunKey == IF run # 0 THEN run ELSE pending

\* Mutant: a row the apply did not report is taken for one it did not send.
InterruptedLedgerHeld(unknown) ==
  [i \in Idx |-> IF progress[i].st # "none" THEN progress[i] ELSE Row("held", RunKey)]

\* The ledger of an apply that was claimed and did not finish.
InterruptedLedger(unknown) ==
  [i \in Idx |->
     IF i \notin approved
     THEN IF ledger[i].st \in {"none", "awaiting"} THEN Row("held", RunKey) ELSE ledger[i]
     ELSE IF progress[i].st # "none" THEN progress[i] ELSE Row(unknown, RunKey)]

-----------------------------------------------------------------------------
(***************************************************************************)
(* The loop: the queued apply job and the dead-man switch.                 *)
(***************************************************************************)

\* Nothing is queued while paused, the switch included.
ScheduleApply ==
  /\ applyQueued' = (applyQueued \/ ~paused)
  /\ switch' = IF paused THEN "none" ELSE "scheduled"

\* A switch of an ended apply finds its run or its phase changed: it is inert.
ClearClaim ==
  /\ run' = 0 /\ pending' = 0
  /\ decided' = FALSE /\ approved' = {} /\ verdict' = NoVerdicts
  /\ phase' = "none" /\ attempt' = NoAttempt
  /\ switch' = "none"

\* The end every failure shares: the row keeps no claim.
FailInTransaction == state' = "failed" /\ ClearClaim

\* A Node action ends, or dies: nothing of it is left.
Ends(p) ==
  /\ pc' = [pc EXCEPT ![p] = "idle"]
  /\ myRun' = [myRun EXCEPT ![p] = 0] /\ myAttempt' = [myAttempt EXCEPT ![p] = NoAttempt]
  /\ myPhase' = [myPhase EXCEPT ![p] = "none"]
  /\ myLedger' = [myLedger EXCEPT ![p] = NoRows] /\ myRow' = [myRow EXCEPT ![p] = 1]
  /\ snapCarried' = [snapCarried EXCEPT ![p] = {}] /\ snapUnsent' = [snapUnsent EXCEPT ![p] = {}]

-----------------------------------------------------------------------------
(***************************************************************************)
(* The execution: a Node action that authors the writes of a run.          *)
(***************************************************************************)

\* The executor reads the item, with what earlier runs left on the provider,
\* before it claims the run.  Its job was queued by the transition to
\* plan-approved, or by a sweep, which queues one however many are under way.
ReadItem(p) ==
  /\ pc[p] = "idle"
  /\ state = "plan-approved" /\ ~paused
  /\ pc' = [pc EXCEPT ![p] = "read"]
  /\ snapCarried' = [snapCarried EXCEPT ![p] = LandedWrites(NoAnswers)]
  /\ snapUnsent' = [snapUnsent EXCEPT ![p] = unsent]
  /\ UNCHANGED <<state, claimVars, runs, outputVars, answerVars, resumes, schedVars,
                 applyVars, providerVars, wordVars>>

ClaimExecution(p) ==
  /\ pc[p] = "read" /\ state = "plan-approved" /\ ~paused
  /\ runs < MaxRuns
  /\ state' = "executing"
  /\ runs' = runs + 1 /\ run' = runs + 1
  /\ pending' = 0 /\ decided' = FALSE /\ approved' = {} /\ verdict' = NoVerdicts
  /\ phase' = "none" /\ attempt' = NoAttempt /\ switch' = "none"
  /\ pc' = [pc EXCEPT ![p] = "authoring"]
  /\ myRun' = [myRun EXCEPT ![p] = runs + 1]
  /\ stale' = IF snapCarried[p] = LandedWrites(NoAnswers) /\ snapUnsent[p] = unsent
              THEN stale ELSE stale \cup {runs + 1}
  /\ UNCHANGED <<outputVars, answerVars, resumes, applyQueued, paused,
                 myAttempt, myPhase, myLedger, myRow, snapVars,
                 providerVars, cleared, told, saidLanded>>

ClaimExecutionRefused(p) ==
  /\ pc[p] = "read" /\ (state # "plan-approved" \/ paused)
  /\ Ends(p)
  /\ UNCHANGED <<state, claimVars, runs, outputVars, answerVars, resumes, schedVars,
                 providerVars, wordVars>>

\* The run is still the row's and nothing of it is held or applied.
BeforeGate(r) == state = "executing" /\ run = r /\ pending = 0 /\ attempt = NoAttempt /\ phase = "none"

WithVerdict(v, d) == {i \in Idx : v[i] = d}

\* Mutant: the new output replaces the old one, what it carried included.
KeepDraftForgets(p) == ledger' = NoRows /\ progress' = NoRows /\ carried' = {} /\ unsent' = {}

\* The drafted writes are kept with a verdict each; the run's own ledger starts.
KeepDraft(p) ==
  /\ ledger' = NoRows /\ progress' = NoRows
  /\ carried' = snapCarried[p] /\ unsent' = snapUnsent[p]

\* What the gate's verdicts v make of the run.
Gated(v) ==
  \/ \* the gate's own rows are applied first
     /\ WithVerdict(v, "auto") # {}
     /\ verdict' = v /\ pending' = run /\ attempt' = NoAttempt
     /\ decided' = TRUE /\ approved' = WithVerdict(v, "auto") /\ phase' = "auto"
     /\ cleared' = cleared \cup ({run} \X WithVerdict(v, "auto"))
     /\ ScheduleApply
     /\ UNCHANGED <<state, run>>
  \/ \* every row waits for the manager or was refused
     /\ WithVerdict(v, "auto") = {} /\ WithVerdict(v, "held") # {}
     /\ state' = "actions-pending"
     /\ verdict' = v /\ pending' = run /\ attempt' = NoAttempt
     /\ decided' = FALSE /\ approved' = {} /\ phase' = "none"
     /\ UNCHANGED <<run, cleared, applyQueued, switch>>
  \/ \* nothing to decide
     /\ WithVerdict(v, "auto") = {} /\ WithVerdict(v, "held") = {}
     /\ FailInTransaction
     /\ UNCHANGED <<cleared, applyQueued>>

SetActionsPending(p) ==
  /\ pc[p] = "authoring" /\ BeforeGate(myRun[p])
  /\ Ends(p)
  /\ KeepDraft(p)
  /\ \E v \in [Idx -> {"auto", "held", "refused"}] : Gated(v)
  /\ UNCHANGED <<runs, answerVars, resumes, paused,
                 providerVars, told, saidLanded, stale>>

\* Mutant: one resume too many.
ResumesLeftOne == resumes <= MaxResumes
ResumesLeft == resumes < MaxResumes

\* The model failed: the run goes back, until its resumes are spent.
ResumeExecution(p) ==
  /\ pc[p] = "authoring" /\ BeforeGate(myRun[p])
  /\ Ends(p)
  /\ IF ResumesLeft
     THEN /\ state' = "plan-approved" /\ run' = 0
          /\ resumes' = resumes + 1
          /\ UNCHANGED <<pending, decided, approved, verdict, phase, attempt, switch>>
     ELSE FailInTransaction /\ UNCHANGED resumes
  /\ UNCHANGED <<runs, outputVars, answerVars, applyQueued, paused,
                 providerVars, wordVars>>

\* The item itself cannot be executed: the run stops, its output as it was, or
\* with the reply that was refused, or the open question it was left with.
ExecutionFails(p) ==
  /\ pc[p] = "authoring" /\ run = myRun[p] /\ state = "executing"
  /\ Ends(p)
  /\ FailInTransaction
  /\ KeepDraft(p) \/ UNCHANGED outputVars
  /\ UNCHANGED <<runs, answerVars, resumes, applyQueued, paused,
                 providerVars, wordVars>>

\* A run that moved on is written to no more.
MovedOn(p) ==
  /\ pc[p] = "authoring" /\ ~BeforeGate(myRun[p])
  /\ Ends(p)
  /\ UNCHANGED <<state, claimVars, runs, outputVars, answerVars, resumes, schedVars,
                 providerVars, wordVars>>

-----------------------------------------------------------------------------
(***************************************************************************)
(* The apply: a Node action that sends the approved writes in order.       *)
(***************************************************************************)

\* Mutant: an auto set that is already claimed counts as unclaimed.
AutoPhaseClaimed == state = "executing" /\ phase = "auto"
AutoPhase == state = "executing" /\ phase = "auto" /\ attempt = NoAttempt

Claimable == (state = "actions-pending" \/ AutoPhase) /\ pending # 0 /\ decided

\* What the apply knows of each row before it starts: a row it will not send
\* has its entry, a row it may send is blank.
PriorRow(i) ==
  IF ~AutoPhase /\ ledger[i].st \notin {"none", "awaiting"} THEN ledger[i] ELSE Reused(i)

\* Mutant: the approved indexes do not filter the rows.
ClaimedLedgerAll == [i \in Idx |-> PriorRow(i)]

ClaimedLedger ==
  [i \in Idx |->
     IF PriorRow(i) # Blank THEN PriorRow(i)
     ELSE IF i \in approved THEN Blank
     ELSE IF AutoPhase /\ verdict[i] = "held" THEN Row("awaiting", RunKey)
     ELSE Row("held", RunKey)]

\* The claim arms its own dead-man switch.
NoSwitchArmed == switch' = "none"   \* mutant: the claim arms none
ArmApplySwitch == switch' = "claimed"

ClaimApprovedActions(p) ==
  /\ pc[p] = "idle" /\ applyQueued /\ applyQueued' = FALSE
  /\ Claimable /\ ~paused
  /\ state' = "executing"
  /\ \E a \in AttemptIds \ ({attempt} \cup {myAttempt[q] : q \in Procs}) :
       /\ attempt' = a
       /\ myAttempt' = [myAttempt EXCEPT ![p] = a]
  /\ ArmApplySwitch
  /\ progress' = NoRows
  /\ pc' = [pc EXCEPT ![p] = "apply"]
  /\ myRun' = [myRun EXCEPT ![p] = RunKey]
  /\ myPhase' = [myPhase EXCEPT ![p] = IF AutoPhase THEN "auto" ELSE "approved"]
  /\ myLedger' = [myLedger EXCEPT ![p] = ClaimedLedger]
  /\ myRow' = [myRow EXCEPT ![p] = 1]
  /\ UNCHANGED <<run, pending, decided, approved, verdict, phase, runs, ledger, carried, unsent,
                 answerVars, resumes, paused, snapVars, providerVars, wordVars>>

\* An approved write whose surface waits for its connection: nothing is sent,
\* and the item is planned again once the surface is connected.
ParkOnConnection ==
  /\ applyQueued /\ applyQueued' = FALSE
  /\ Claimable /\ ~AutoPhase /\ approved # {} /\ ~paused
  /\ state' = "deferred" /\ ClearClaim
  /\ UNCHANGED <<runs, outputVars, answerVars, resumes, paused, procVars,
                 providerVars, wordVars>>

\* A job that finds nothing to claim, or a pause, ends there.
ClaimRefused ==
  /\ applyQueued /\ applyQueued' = FALSE
  /\ paused \/ ~Claimable
  /\ UNCHANGED <<state, claimVars, runs, outputVars, answerVars, resumes, switch, paused,
                 procVars, providerVars, wordVars>>

HoldsClaim(p) == state = "executing" /\ attempt = myAttempt[p]

UpTo(p) == pc[p] = "apply" /\ myRow[p] \in Idx
Undecided(p) == UpTo(p) /\ myLedger[p][myRow[p]].st = "none"
Decide(p, st) == myLedger' = [myLedger EXCEPT ![p][myRow[p]] = Row(st, myRun[p])]

\* Refused or withheld before transport, by the gate's backstop, by an earlier
\* write that did not land, or by another work item's claim.
RefuseRow(p) ==
  /\ Undecided(p)
  /\ \E st \in {"failed", "held"} : Decide(p, st)
  /\ UNCHANGED <<state, claimVars, runs, outputVars, answerVars, resumes, schedVars,
                 pc, myRun, myAttempt, myPhase, myRow, snapVars,
                 providerVars, wordVars>>

\* The last check before transport reads whether the apply holds its claim.
Authorise(p) ==
  /\ Undecided(p)
  /\ IF HoldsClaim(p)
     THEN pc' = [pc EXCEPT ![p] = "sending"] /\ UNCHANGED myLedger
     ELSE Decide(p, "failed") /\ UNCHANGED pc
  /\ UNCHANGED <<state, claimVars, runs, outputVars, answerVars, resumes, schedVars,
                 myRun, myAttempt, myPhase, myRow, snapVars,
                 providerVars, wordVars>>

\* The provider takes the write, refuses it, or the answer is lost either way.
Send(p) ==
  LET i == myRow[p] IN
  /\ pc[p] = "sending"
  /\ pc' = [pc EXCEPT ![p] = "apply"]
  /\ tried' = tried \cup {<<myRun[p], i>>}
  /\ \E taken \in BOOLEAN, st \in {"landed", "failed", "unknown"} :
       /\ st = "landed" => taken
       /\ st = "failed" => ~taken
       /\ landed' = IF taken THEN [landed EXCEPT ![i] = @ \cup {myRun[p]}] ELSE landed
       /\ Decide(p, st)
  /\ UNCHANGED <<state, claimVars, runs, outputVars, answerVars, resumes, schedVars,
                 myRun, myAttempt, myPhase, myRow, snapVars, wordVars>>

\* Each decided row is reported; a refused report means the claim is gone.
RecordApplyOutcome(p) ==
  LET i == myRow[p] IN
  /\ UpTo(p) /\ myLedger[p][i].st # "none"
  /\ IF HoldsClaim(p)
     THEN /\ progress' = [progress EXCEPT ![i] = myLedger[p][i]]
          /\ myRow' = [myRow EXCEPT ![p] = i + 1]
          /\ pc' = [pc EXCEPT ![p] = IF i = N THEN "finish" ELSE "apply"]
     ELSE /\ pc' = [pc EXCEPT ![p] = "lost"]
          /\ UNCHANGED <<progress, myRow>>
  /\ UNCHANGED <<state, claimVars, runs, ledger, carried, unsent, answerVars, resumes,
                 schedVars, myRun, myAttempt, myPhase, myLedger, snapVars,
                 providerVars, wordVars>>

\* An apply whose claim was taken records the rows it never sent.
FirstUnsentAll(p) == myRow[p]   \* mutant: a row that was sent counts too
FirstUnsent(p) == IF SentNothing(myLedger[p][myRow[p]]) THEN myRow[p] ELSE myRow[p] + 1

RecordUnsentAfterStop(p) ==
  /\ pc[p] = "lost"
  /\ pc' = [pc EXCEPT ![p] = "recover"]
  /\ ledger' = IF state = "failed" /\ ~reconciled
               THEN [i \in Idx |->
                       IF i >= FirstUnsent(p) /\ ledger[i] = Row("stopUnknown", myRun[p])
                       THEN Row("notSent", myRun[p]) ELSE ledger[i]]
               ELSE ledger
  /\ UNCHANGED <<state, claimVars, runs, progress, carried, unsent, answerVars, resumes,
                 schedVars, applyVars, snapVars, providerVars, wordVars>>

\* A throw between two rows sends the apply to its own recovery.
ApplyThrows(p) ==
  /\ pc[p] \in {"apply", "finish"}
  /\ pc' = [pc EXCEPT ![p] = "recover"]
  /\ UNCHANGED <<state, claimVars, runs, outputVars, answerVars, resumes, schedVars,
                 applyVars, snapVars, providerVars, wordVars>>

-----------------------------------------------------------------------------
(***************************************************************************)
(* The end of an apply.                                                    *)
(***************************************************************************)

\* A run with a row of one of these has failed.
FailedKnown == {"failed"}   \* mutant: an unknown outcome is no failure
FailedStatuses == {"failed", "unknown"}

Has(led, S) == \E i \in Idx : led[i].st \in S

\* A failed run's undecided rows are not left for the manager.
Settled(led) ==
  [i \in Idx |-> IF led[i].st = "awaiting" THEN [led[i] EXCEPT !.st = "held"] ELSE led[i]]

\* setFailed, from the apply: the row must still carry the run.
ApplySetFailed(p, led) ==
  IF run = myRun[p] /\ state \notin {"completed", "failed"}
  THEN FailInTransaction /\ ledger' = led /\ progress' = NoRows
  ELSE UNCHANGED <<state, claimVars, switch, ledger, progress>>

FinishFailed(p) ==
  /\ pc[p] = "finish" /\ Has(myLedger[p], FailedStatuses)
  /\ Ends(p)
  /\ ApplySetFailed(p, Settled(myLedger[p]))
  /\ UNCHANGED <<runs, carried, unsent, answerVars, resumes, applyQueued, paused, providerVars, wordVars>>

\* The rows that wait for the manager park the run, unless it moved on.
SetAwaitingApproval(p) ==
  /\ pc[p] = "finish" /\ ~Has(myLedger[p], FailedStatuses)
  /\ Has(myLedger[p], {"awaiting"})
  /\ Ends(p)
  /\ IF HoldsClaim(p) /\ run = myRun[p] /\ phase # "none"
     THEN /\ state' = "actions-pending"
          /\ ledger' = myLedger[p] /\ progress' = NoRows
          /\ decided' = FALSE /\ approved' = {} /\ phase' = "none" /\ attempt' = NoAttempt
          /\ switch' = "none"
     ELSE UNCHANGED <<state, ledger, progress, decided, approved, phase, attempt, switch>>
  /\ UNCHANGED <<run, pending, verdict, runs, carried, unsent, answerVars, resumes,
                 applyQueued, paused, providerVars, wordVars>>

\* Every row landed or is accounted for; a run of another id throws.
SetCompleted(p) ==
  /\ pc[p] = "finish" /\ ~Has(myLedger[p], FailedStatuses \cup {"awaiting"})
  /\ IF state = "executing" /\ run = myRun[p]
     THEN /\ Ends(p)
          /\ state' = "completed" /\ ClearClaim
          /\ ledger' = myLedger[p] /\ progress' = NoRows
     ELSE /\ pc' = [pc EXCEPT ![p] = "recover"]
          /\ UNCHANGED <<state, claimVars, switch, ledger, progress, applyVars, snapVars>>
  /\ UNCHANGED <<runs, carried, unsent, answerVars, resumes, applyQueued, paused,
                 providerVars, wordVars>>

\* The run ends on its open question, with every row sent or held, or on a
\* ticket that changed under it, which leaves nothing for the manager either.
StopOnQuestion(p) ==
  /\ pc[p] = "finish" /\ ~Has(myLedger[p], FailedStatuses)
  /\ Ends(p)
  /\ ApplySetFailed(p, Settled(myLedger[p]))
  /\ UNCHANGED <<runs, carried, unsent, answerVars, resumes, applyQueued, paused, providerVars, wordVars>>

-----------------------------------------------------------------------------
(***************************************************************************)
(* Recovery, crashes and the sweep.                                        *)
(***************************************************************************)

Unclaimed == (state = "actions-pending" /\ decided) \/ AutoPhase

\* The row still holds what the timer, or the apply, was armed with.
StillHolds(r, ph) == r # 0 /\ pending = r /\ phase = ph

\* recoverInterruptedApply, for the run r and the phase ph it was armed with.
\* An unclaimed set is scheduled again; a claimed one is never sent again.
RecoverInterruptedApply(r, ph) ==
  IF StillHolds(r, ph) /\ Unclaimed
  THEN /\ ScheduleApply
       /\ UNCHANGED <<state, phase, attempt, ledger, progress, interrupted>>
  ELSE IF StillHolds(r, ph) /\ state = "executing" /\ attempt # NoAttempt
  THEN /\ state' = "failed" /\ interrupted' = TRUE
       /\ phase' = "none" /\ attempt' = NoAttempt /\ switch' = "none"
       /\ ledger' = InterruptedLedger("unknown") /\ progress' = NoRows
       /\ UNCHANGED applyQueued
  ELSE UNCHANGED <<state, phase, attempt, ledger, progress, interrupted, applyQueued, switch>>

\* What the recovery leaves alone: the run and its pending set stay on the row.
RecoveryKeeps == <<run, pending, decided, approved, verdict, runs, carried, unsent,
                   answers, reconciled, resumes, paused, providerVars, wordVars>>

\* The apply's own recovery acts at once.
Recover(p) ==
  /\ pc[p] = "recover"
  /\ Ends(p)
  /\ RecoverInterruptedApply(myRun[p], myPhase[p])
  /\ UNCHANGED RecoveryKeeps

\* The timer of the row's current apply.  One armed at the schedule that met
\* a claim would find it younger than its window, so the claim's own counts.
FireSwitch ==
  /\ switch # "none"
  /\ RecoverInterruptedApply(pending, phase)
  /\ UNCHANGED procVars /\ UNCHANGED RecoveryKeeps

\* A Node action dies between two of its steps.
Crash(p) ==
  /\ pc[p] # "idle"
  /\ Ends(p)
  /\ UNCHANGED <<state, claimVars, runs, outputVars, answerVars, resumes, schedVars,
                 providerVars, wordVars>>

ApprovedNotStarted == state = "actions-pending" /\ decided /\ attempt = NoAttempt

\* Mutant: only the gate's own set is looked for.
HeldBackAuto == AutoPhase
HeldBack == ApprovedNotStarted \/ AutoPhase

\* An approved set whose apply a pause refused is scheduled again.
ResumeHeldApplies ==
  /\ HeldBack /\ pending # 0 /\ decided
  /\ ~applyQueued /\ ~paused
  /\ ScheduleApply
  /\ UNCHANGED <<state, claimVars, runs, outputVars, answerVars, resumes, paused,
                 procVars, providerVars, wordVars>>

\* A run that never reached the gate is stopped; a paused employee's too.
SweepStalled ==
  /\ run # 0 /\ BeforeGate(run)
  /\ FailInTransaction
  /\ UNCHANGED <<runs, outputVars, answerVars, resumes, applyQueued, paused, procVars,
                 providerVars, wordVars>>

-----------------------------------------------------------------------------
(***************************************************************************)
(* The manager.                                                            *)
(***************************************************************************)

\* The manager answers the card that showed run r's actions.
ApproveActions(r, S) ==
  /\ state = "actions-pending" /\ pending # 0 /\ pending = r /\ ~decided
  /\ S \subseteq Awaiting
  /\ decided' = TRUE /\ approved' = S /\ phase' = "approved"
  /\ cleared' = cleared \cup ({r} \X S)
  /\ ScheduleApply
  /\ UNCHANGED <<state, run, pending, verdict, attempt, runs, outputVars, answerVars,
                 resumes, paused, procVars, providerVars, told, saidLanded, stale>>

RejectActions(r) ==
  /\ state = "actions-pending" /\ pending # 0 /\ pending = r /\ ~decided
  /\ state' = "failed" /\ ClearClaim
  /\ ledger' = Settled(ledger)
  /\ UNCHANGED <<runs, progress, carried, unsent, answerVars, resumes, applyQueued, paused,
                 procVars, providerVars, wordVars>>

\* The queued step is cancelled if it is the one the row recorded last; an
\* apply in flight keeps what it reported and the rest is of unknown outcome.
StopRun ==
  /\ state \in {"plan-approved", "executing"} \/ ApprovedNotStarted
  /\ applyQueued' \in {applyQueued, FALSE}
  /\ FailInTransaction
  /\ IF attempt # NoAttempt /\ pending # 0
     THEN ledger' = InterruptedLedger("stopUnknown") /\ progress' = NoRows
     ELSE UNCHANGED <<ledger, progress>>
  /\ UNCHANGED <<runs, carried, unsent, answerVars, resumes, paused, procVars,
                 providerVars, wordVars>>

\* The manager's check of the provider: a write of unknown outcome must be
\* answered, a landed one may be.
ReconcileFailed ==
  /\ state \in {"failed", "completed"} /\ ~(reconciled /\ Unanswered = {})
  /\ Entries # {}
  /\ \E a \in [Idx -> {"none", "landed", "notSent"}] :
       /\ \A i \in Idx : a[i] # "none" => i \in Entries
       /\ \A i \in Entries : ledger[i].st \in UnknownStatuses => a[i] # "none"
       /\ Candid => \A i \in Entries :
            a[i] = IF ledger[i].st \notin UnknownStatuses THEN "none"
                   ELSE IF ledger[i].key \in landed[i] THEN "landed" ELSE "notSent"
       /\ answers' = a
       /\ told' = told \cup {RowKey(i) : i \in {j \in Idx : a[j] = "notSent"}}
       /\ saidLanded' = saidLanded \cup {RowKey(i) : i \in {j \in Idx : a[j] = "landed"}}
  /\ reconciled' = TRUE
  /\ UNCHANGED <<state, claimVars, runs, outputVars, interrupted, resumes, schedVars,
                 procVars, providerVars, cleared, stale>>

\* The output a retry carries: answered writes replace what was carried, and
\* the writes not sent replace those of the reconciliation before.
CarriedIntoRetry ==
  LET a == RetryAnswers
      answered == \E i \in Idx : a[i] # "none"
      missing == NotSentWrites(a)
  IN /\ carried' = IF answered THEN LandedWrites(a) ELSE carried
     /\ unsent' = IF answered \/ missing # {} THEN missing ELSE unsent

RetryFailed ==
  /\ state \in {"failed", "completed"} /\ ~ReconciliationOwed
  /\ state' = "plan-approved"
  /\ run' = 0 /\ phase' = "none" /\ attempt' = NoAttempt /\ switch' = "none"
  /\ CarriedIntoRetry
  /\ answers' = NoAnswers /\ reconciled' = FALSE /\ interrupted' = FALSE
  /\ resumes' = 0
  /\ UNCHANGED <<pending, decided, approved, verdict, runs, ledger, progress, applyQueued, paused,
                 procVars, providerVars, wordVars>>

\* The surface was connected: the item was evaluated, planned and approved again.
PlanAgain ==
  /\ state = "deferred"
  /\ state' = "plan-approved"
  /\ UNCHANGED <<claimVars, runs, outputVars, answerVars, resumes, schedVars,
                 procVars, providerVars, wordVars>>

SetPaused ==
  /\ MayPause /\ paused' = ~paused
  /\ UNCHANGED <<state, claimVars, runs, outputVars, answerVars, resumes, applyQueued, switch,
                 procVars, providerVars, wordVars>>

-----------------------------------------------------------------------------
Execution(p) ==
  \/ ReadItem(p) \/ ClaimExecution(p) \/ ClaimExecutionRefused(p) \/ SetActionsPending(p)
  \/ ResumeExecution(p) \/ ExecutionFails(p) \/ MovedOn(p)

Apply(p) ==
  \/ ClaimApprovedActions(p) \/ RefuseRow(p) \/ Authorise(p) \/ Send(p) \/ RecordApplyOutcome(p)
  \/ RecordUnsentAfterStop(p) \/ ApplyThrows(p) \/ Recover(p)
  \/ FinishFailed(p) \/ SetAwaitingApproval(p) \/ SetCompleted(p) \/ StopOnQuestion(p)

Scheduler ==
  \/ ClaimRefused \/ ParkOnConnection \/ FireSwitch \/ ResumeHeldApplies \/ SweepStalled

Manager ==
  \/ \E r \in Runs, S \in SUBSET Idx : ApproveActions(r, S)
  \/ \E r \in Runs : RejectActions(r)
  \/ StopRun \/ ReconcileFailed \/ RetryFailed \/ PlanAgain \/ SetPaused

Next ==
  \/ \E p \in Procs : Execution(p) \/ Apply(p) \/ Crash(p)
  \/ Scheduler \/ Manager

Spec == Init /\ [][Next]_vars

\* A Node action that is under way moves on or is killed at its time limit, a
\* queued job is run, the dead-man switch fires, and the sweep's cron runs.
UnderWay(p) == pc[p] # "idle" /\ (Execution(p) \/ Apply(p) \/ Crash(p))

Fairness ==
  /\ \A p \in Procs : WF_vars(UnderWay(p))
  /\ WF_vars(\E p \in Procs : ClaimApprovedActions(p))
  /\ WF_vars(FireSwitch) /\ WF_vars(ResumeHeldApplies) /\ WF_vars(SweepStalled)

FairSpec == Spec /\ Fairness

-----------------------------------------------------------------------------
(***************************************************************************)
(* Properties.                                                             *)
(***************************************************************************)

\* Only what the gate let through on its own, or the manager approved on the
\* card of that very run, is ever sent: an approval of an earlier run's list,
\* a late apply or a retry sends nothing else (approveActions' pendingRunId
\* check, claimApprovedActions).
OnlyDecidedSent == tried \subseteq cleared

\* No idempotency key is sent twice: two applies of one approved set, by two
\* queued jobs, a fired switch or a sweep, never both reach the same write.
KeySentOnce ==
  \A p, q \in Procs : pc[p] = "sending" =>
     /\ <<myRun[p], myRow[p]>> \notin tried
     /\ pc[q] = "sending" /\ <<myRun[q], myRow[q]>> = <<myRun[p], myRow[p]>> => p = q

\* A write lands under two runs only where the manager answered that the
\* earlier one was not sent, or a run since was claimed on a stale read.
LandedOnce ==
  \A i \in Idx : \A r, s \in landed[i] :
     r < s => <<r, i>> \in told \/ \E t \in stale : r < t /\ t <= s

\* The doc of ReconciliationAnswer: a retry never sends again a write answered
\* "landed".  No claim on a stale read is excused.
AnsweredLandedNeverResent ==
  \A i \in Idx : \A r, s \in landed[i] :
     r < s => <<r, i>> \in told \/ <<r, i>> \notin saidLanded

\* What landed is never lost from the record: the ledger names it landed or of
\* unknown outcome, or the output carries it, or the manager denied it, until
\* the apply that sent it has ended.
NothingForgotten ==
  \A i \in Idx : \A r \in landed[i] :
     \/ state = "executing" /\ run = r
     \/ ledger[i].key = r /\ ledger[i].st \in {"landed", "unknown", "stopUnknown"}
     \/ <<r, i>> \in carried \cup told
     \/ \E s \in stale : s > r

\* A row that says its write was not sent is right, and stays right: no apply
\* is about to send it (recordUnsentAfterStop, interruptedApplyLedger).
DenialIsTrue ==
  state # "executing" =>
    \A i \in Idx : SentNothing(ledger[i]) =>
      /\ ledger[i].key \notin landed[i]
      /\ \A p \in Procs : ~(pc[p] = "sending" /\ <<myRun[p], myRow[p]>> = RowKey(i))

\* A write a run carries as landed is on the provider, or the manager said so.
CarriedIsTrue == \A k \in carried : k[1] \in landed[k[2]] \/ k \in saidLanded

\* The doc of landedWritesOf (W12-R4): a write the manager answered not sent is
\* never carried into a retry as landed, unless they answered it landed too.
NotSentNeverCarried == state = "plan-approved" => carried \cap told \subseteq saidLanded

\* A completed item rests on the provider: every row landed, was reused from a
\* write carried as landed, or was held.
CompletedIsTrue ==
  state = "completed" =>
    \A i \in Idx :
      /\ ledger[i].st \in {"landed", "reused", "held"}
      /\ ledger[i].st = "landed" => ledger[i].key \in landed[i]
      /\ ledger[i].st = "reused" => RowKey(i) \in carried

\* Once pauses end, no run executes forever: whatever dies, it is held for the
\* manager, or ends, or goes back (the switch, the stalled-step sweep).
RunsSettle == <>[]~paused => (state = "executing" ~> state # "executing")

\* Once pauses end, an approved set does not wait forever: it is applied,
\* stopped or parked (resumeHeldApplies, recoverInterruptedApply).
ApprovedSetsStart == <>[]~paused => (ApprovedNotStarted ~> ~ApprovedNotStarted)
=============================================================================

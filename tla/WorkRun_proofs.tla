--------------------------- MODULE WorkRun_proofs ---------------------------
(***************************************************************************)
(* Proofs about WorkRun, for every value of its constants: the row, the    *)
(* Node actions and the provider's record are always well typed, nothing   *)
(* is sent that was not decided, and no idempotency key is sent twice.     *)
(* The proofs of what the record says are in WorkRunRecord_proofs and      *)
(* WorkRunLanded_proofs.                                                   *)
(***************************************************************************)
EXTENDS WorkRun, TLAPS

USE NAssumption, RunsAssumption, ResumesAssumption, AttemptsAssumption DEF Idx, Runs, Keys

\* A Node action past the claim of its run knows the run, and sends a row of it.
ActsForARun ==
  \A p \in Procs : /\ pc[p] \notin {"idle", "read"} => myRun[p] # 0
                   /\ pc[p] = "sending" => myRow[p] \in Idx

\* Only an ended run carries answers, and only for rows of its ledger.
AnswersNameRows ==
  \A i \in Idx : answers[i] # "none" => state \in {"failed", "completed"} /\ ledger[i].st # "none"

\* TypeOK is not inductive: a run's id reaches keys and rows from the actions.
TypeInv == TypeOK /\ ActsForARun /\ AnswersNameRows

-----------------------------------------------------------------------------
(* The rows the helpers build are rows. *)

LEMMA RowType ==
  ASSUME NEW st \in Statuses, st # "none", NEW r \in Runs
  PROVE  Row(st, r) \in Rows
BY DEF Row, Rows

LEMMA NoRowsType == NoRows \in [Idx -> Rows]
BY DEF NoRows, Rows

LEMMA ReusedType ==
  ASSUME NEW i \in Idx
  PROVE  Reused(i) \in Rows
<1> DEFINE sources == {r \in Runs : <<r, i>> \in carried \ unsent}
           oldest == {r \in sources : \A s \in sources : r <= s}
<1>1. CASE oldest = {}
  BY <1>1 DEF Reused, Rows
<1>2. CASE oldest # {}
  <2>1. (CHOOSE r \in oldest : TRUE) \in Runs
    BY <1>2
  <2> QED BY <1>2, <2>1 DEF Reused, Row, Rows, Statuses
<1> QED BY <1>1, <1>2

LEMMA ClaimedLedgerType ==
  ASSUME ItemTypeOK, OutputTypeOK, pending # 0
  PROVE  ClaimedLedger \in [Idx -> Rows]
<1> SUFFICES ASSUME NEW i \in Idx PROVE ClaimedLedger[i] \in Rows
  BY DEF ClaimedLedger
<1>1. PriorRow(i) \in Rows
  BY ReusedType DEF PriorRow, OutputTypeOK
<1>2. RunKey \in Runs
  BY DEF ItemTypeOK, RunKey
<1>3. Blank \in Rows /\ Row("awaiting", RunKey) \in Rows /\ Row("held", RunKey) \in Rows
  BY <1>2 DEF Row, Rows, Statuses
<1> QED BY <1>1, <1>3 DEF ClaimedLedger

LEMMA InterruptedLedgerType ==
  ASSUME ItemTypeOK, OutputTypeOK, pending # 0, NEW unknown \in UnknownStatuses
  PROVE  InterruptedLedger(unknown) \in [Idx -> Rows]
<1>1. RunKey \in Runs
  BY DEF ItemTypeOK, RunKey
<1>2. Row("held", RunKey) \in Rows /\ Row(unknown, RunKey) \in Rows
  BY <1>1 DEF Row, Rows, Statuses, UnknownStatuses
<1> QED BY <1>2 DEF InterruptedLedger, OutputTypeOK

LEMMA SettledType ==
  ASSUME NEW led \in [Idx -> Rows]
  PROVE  Settled(led) \in [Idx -> Rows]
BY DEF Settled, Rows, Statuses, Row, Blank

LEMMA RowKeyType ==
  ASSUME OutputTypeOK, NEW i \in Idx, ledger[i].st # "none"
  PROVE  RowKey(i) \in Keys
<1>1. ledger[i] \in Rows /\ ledger[i] # Blank
  BY DEF OutputTypeOK, Row, Blank
<1> QED BY <1>1 DEF RowKey, Rows

LEMMA WritesType ==
  ASSUME OutputTypeOK, NEW a,
         \A i \in Idx : a[i] # "none" => ledger[i].st # "none"
  PROVE  NotSentWrites(a) \subseteq Keys /\ LandedWrites(a) \subseteq Keys
<1>1. NotSentWrites(a) \subseteq Keys
  BY RowKeyType DEF NotSentWrites
<1>2. LandedWrites(a) \subseteq Keys
  BY RowKeyType DEF LandedWrites, LandedStatuses, OutputTypeOK
<1> QED BY <1>1, <1>2

LEMMA NoAnswersWrites == OutputTypeOK => LandedWrites(NoAnswers) \subseteq Keys
BY WritesType DEF NoAnswers

LEMMA NoVerdictsType == NoVerdicts \in [Idx -> Verdicts]
BY DEF NoVerdicts, Verdicts

-----------------------------------------------------------------------------
(* What the parts several actions share leave behind. *)

\* What every step keeps but for the Node actions' own state.
SharedTypeOK == ItemTypeOK /\ FlagTypeOK /\ OutputTypeOK /\ RecordTypeOK /\ AnswersNameRows

LEMMA TypeInvParts == TypeInv <=> SharedTypeOK /\ ActionTypeOK /\ ActsForARun
BY DEF TypeInv, TypeOK, SharedTypeOK

LEMMA KeptType ==
  ASSUME SharedTypeOK, UNCHANGED <<state, claimVars, runs, outputVars, answerVars, resumes,
                                   schedVars, providerVars, wordVars>>
  PROVE  SharedTypeOK'
BY DEF claimVars, outputVars, answerVars, schedVars, providerVars, wordVars, SharedTypeOK,
       ItemTypeOK, FlagTypeOK, OutputTypeOK, RecordTypeOK, AnswersNameRows

LEMMA KeptActions ==
  ASSUME ActionTypeOK, ActsForARun, UNCHANGED procVars
  PROVE  ActionTypeOK' /\ ActsForARun'
BY DEF procVars, applyVars, snapVars, ActionTypeOK, ActsForARun

LEMMA EndsType ==
  ASSUME ActionTypeOK, ActsForARun, NEW p \in Procs, Ends(p)
  PROVE  ActionTypeOK' /\ ActsForARun'
BY NoRowsType DEF ActionTypeOK, ActsForARun, Ends

LEMMA MyRunType ==
  ASSUME ActionTypeOK, ActsForARun, NEW p \in Procs, pc[p] \notin {"idle", "read"}
  PROVE  myRun[p] \in Runs
<1>1. myRun[p] \in 0..MaxRuns
  BY DEF ActionTypeOK
<1>2. myRun[p] # 0
  BY DEF ActsForARun
<1> QED BY <1>1, <1>2

LEMMA FailType ==
  ASSUME SharedTypeOK, FailInTransaction, UNCHANGED <<runs, answerVars, paused, resumes>>,
         applyQueued' \in BOOLEAN
  PROVE  ItemTypeOK' /\ FlagTypeOK'
<1>1. ItemTypeOK'
  BY NoVerdictsType DEF SharedTypeOK, ItemTypeOK, FailInTransaction, ClearClaim, answerVars
<1>2. FlagTypeOK'
  BY DEF SharedTypeOK, FlagTypeOK, FailInTransaction, ClearClaim, answerVars
<1> QED BY <1>1, <1>2

LEMMA DecideType ==
  ASSUME ActionTypeOK, ActsForARun, NEW p \in Procs, pc[p] \in {"apply", "sending"},
         NEW st \in Statuses \ {"none"}, Decide(p, st)
  PROVE  myLedger' \in [Procs -> [Idx -> Rows]]
<1>1. Row(st, myRun[p]) \in Rows
  BY RowType, MyRunType
<1> QED BY <1>1 DEF Decide, ActionTypeOK

LEMMA ApplySetFailedType ==
  ASSUME SharedTypeOK, NEW p \in Procs, NEW led \in [Idx -> Rows], ApplySetFailed(p, led),
         UNCHANGED <<runs, carried, unsent, answerVars, resumes, applyQueued, paused,
                     providerVars, wordVars>>
  PROVE  SharedTypeOK'
<1>1. CASE run = myRun[p] /\ state \notin {"completed", "failed"}
  <2>1. ItemTypeOK' /\ FlagTypeOK'
    BY <1>1, FailType DEF ApplySetFailed, SharedTypeOK, FlagTypeOK
  <2>2. OutputTypeOK'
    BY <1>1, NoRowsType DEF ApplySetFailed, SharedTypeOK, OutputTypeOK
  <2>3. RecordTypeOK'
    BY DEF SharedTypeOK, RecordTypeOK, providerVars, wordVars
  <2>4. AnswersNameRows'
    BY <1>1 DEF ApplySetFailed, SharedTypeOK, AnswersNameRows, answerVars
  <2> QED BY <2>1, <2>2, <2>3, <2>4 DEF SharedTypeOK
<1>2. CASE ~(run = myRun[p] /\ state \notin {"completed", "failed"})
  BY <1>2, KeptType DEF ApplySetFailed, outputVars, schedVars
<1> QED BY <1>1, <1>2

LEMMA RecoveryType ==
  ASSUME SharedTypeOK, NEW r, NEW ph, RecoverInterruptedApply(r, ph), UNCHANGED RecoveryKeeps
  PROVE  SharedTypeOK'
<1> USE DEF RecoveryKeeps
<1>0. RecordTypeOK'
  BY DEF SharedTypeOK, RecordTypeOK, providerVars, wordVars
<1>1. CASE StillHolds(r, ph) /\ Unclaimed
  <2>1. ItemTypeOK'
    BY <1>1 DEF RecoverInterruptedApply, ScheduleApply, SharedTypeOK, ItemTypeOK
  <2>2. FlagTypeOK'
    BY <1>1 DEF RecoverInterruptedApply, ScheduleApply, SharedTypeOK, FlagTypeOK
  <2>3. OutputTypeOK' /\ AnswersNameRows'
    BY <1>1 DEF RecoverInterruptedApply, SharedTypeOK, OutputTypeOK, AnswersNameRows
  <2> QED BY <1>0, <2>1, <2>2, <2>3 DEF SharedTypeOK
<1>2. CASE StillHolds(r, ph) /\ ~Unclaimed /\ state = "executing" /\ attempt # NoAttempt
  <2>1. InterruptedLedger("unknown") \in [Idx -> Rows]
    BY <1>2, InterruptedLedgerType DEF StillHolds, UnknownStatuses, SharedTypeOK
  <2>2. ItemTypeOK'
    BY <1>2 DEF RecoverInterruptedApply, SharedTypeOK, ItemTypeOK
  <2>3. FlagTypeOK'
    BY <1>2 DEF RecoverInterruptedApply, SharedTypeOK, FlagTypeOK
  <2>4. OutputTypeOK' /\ AnswersNameRows'
    BY <1>2, <2>1, NoRowsType
       DEF RecoverInterruptedApply, SharedTypeOK, OutputTypeOK, AnswersNameRows
  <2> QED BY <1>0, <2>2, <2>3, <2>4 DEF SharedTypeOK
<1>3. CASE ~(StillHolds(r, ph) /\ (Unclaimed \/ (state = "executing" /\ attempt # NoAttempt)))
  BY <1>3, KeptType
     DEF RecoverInterruptedApply, claimVars, outputVars, answerVars, schedVars
<1> QED BY <1>1, <1>2, <1>3

-----------------------------------------------------------------------------
(* Every step keeps the types. *)

LEMMA TypeInit == Init => TypeInv
<1> SUFFICES ASSUME Init PROVE SharedTypeOK /\ ActionTypeOK /\ ActsForARun
  BY TypeInvParts
<1> USE NoRowsType, NoVerdictsType DEF Init
<1>1. ItemTypeOK
  BY DEF ItemTypeOK, NoAnswers
<1>2. FlagTypeOK /\ OutputTypeOK /\ RecordTypeOK
  BY DEF FlagTypeOK, OutputTypeOK, RecordTypeOK
<1>3. ActionTypeOK /\ ActsForARun
  BY DEF ActionTypeOK, ActsForARun
<1>4. AnswersNameRows
  BY DEF AnswersNameRows, NoAnswers
<1> QED BY <1>1, <1>2, <1>3, <1>4 DEF SharedTypeOK

LEMMA KeepDraftType ==
  ASSUME SharedTypeOK, ActionTypeOK, NEW p \in Procs, KeepDraft(p), state = "executing",
         UNCHANGED answerVars
  PROVE  OutputTypeOK' /\ AnswersNameRows'
<1>1. OutputTypeOK'
  BY NoRowsType DEF KeepDraft, ActionTypeOK, OutputTypeOK
<1>2. AnswersNameRows'
  BY DEF SharedTypeOK, AnswersNameRows, answerVars
<1> QED BY <1>1, <1>2

LEMMA GatedType ==
  ASSUME SharedTypeOK, run \in Runs, NEW v \in [Idx -> {"auto", "held", "refused"}], Gated(v),
         UNCHANGED <<runs, answerVars, resumes, paused, providerVars, told, saidLanded, stale>>
  PROVE  ItemTypeOK' /\ FlagTypeOK' /\ RecordTypeOK'
<1>1. CASE FailInTransaction /\ UNCHANGED <<cleared, applyQueued>>
  <2>1. ItemTypeOK' /\ FlagTypeOK'
    BY <1>1, FailType DEF SharedTypeOK, FlagTypeOK
  <2>2. RecordTypeOK'
    BY <1>1 DEF SharedTypeOK, RecordTypeOK, providerVars
  <2> QED BY <2>1, <2>2
<1>2. CASE ~(FailInTransaction /\ UNCHANGED <<cleared, applyQueued>>)
  <2> USE <1>2 DEF Gated
  <2>1. ItemTypeOK'
    BY DEF ScheduleApply, WithVerdict, SharedTypeOK, ItemTypeOK, Verdicts, answerVars
  <2>2. FlagTypeOK'
    BY DEF ScheduleApply, SharedTypeOK, FlagTypeOK, answerVars
  <2>3. RecordTypeOK'
    BY DEF WithVerdict, SharedTypeOK, RecordTypeOK, providerVars
  <2> QED BY <2>1, <2>2, <2>3
<1> QED BY <1>1, <1>2

\* The steps of an execution: they end the Node action, but for its first two.
LEMMA ExecutionType ==
  ASSUME SharedTypeOK, ActionTypeOK, ActsForARun, NEW p \in Procs, Execution(p)
  PROVE  SharedTypeOK' /\ ActionTypeOK' /\ ActsForARun'
<1>1. CASE ReadItem(p)
  <2>1. LandedWrites(NoAnswers) \subseteq Keys
    BY NoAnswersWrites DEF SharedTypeOK
  <2>2. ActionTypeOK'
    BY <1>1, <2>1 DEF ReadItem, SharedTypeOK, OutputTypeOK, ActionTypeOK, applyVars
  <2>3. ActsForARun'
    BY <1>1 DEF ReadItem, ActionTypeOK, ActsForARun, applyVars
  <2> QED BY <1>1, <2>2, <2>3, KeptType DEF ReadItem
<1>2. CASE ClaimExecution(p)
  <2> USE <1>2 DEF ClaimExecution
  <2>1. ItemTypeOK'
    BY NoVerdictsType DEF SharedTypeOK, ItemTypeOK, answerVars
  <2>2. FlagTypeOK'
    BY DEF SharedTypeOK, FlagTypeOK, answerVars
  <2>3. OutputTypeOK' /\ AnswersNameRows'
    BY DEF SharedTypeOK, OutputTypeOK, AnswersNameRows, outputVars, answerVars
  <2>4. RecordTypeOK'
    <3>1. runs + 1 \in Runs
      BY DEF SharedTypeOK, ItemTypeOK
    <3>2. stale' \subseteq Runs
      BY <3>1 DEF SharedTypeOK, RecordTypeOK
    <3> QED BY <3>2 DEF SharedTypeOK, RecordTypeOK, providerVars
  <2>5. ActionTypeOK'
    BY DEF SharedTypeOK, ItemTypeOK, ActionTypeOK, snapVars
  <2>6. ActsForARun'
    BY DEF SharedTypeOK, ItemTypeOK, ActionTypeOK, ActsForARun
  <2> QED BY <2>1, <2>2, <2>3, <2>4, <2>5, <2>6 DEF SharedTypeOK
<1>3. CASE ClaimExecutionRefused(p)
  BY <1>3, EndsType, KeptType DEF ClaimExecutionRefused
<1>4. CASE SetActionsPending(p)
  <2> USE <1>4 DEF SetActionsPending
  <2>1. run \in Runs /\ state = "executing"
    BY MyRunType DEF BeforeGate
  <2>2. ItemTypeOK' /\ FlagTypeOK' /\ RecordTypeOK'
    BY <2>1, GatedType
  <2>3. OutputTypeOK' /\ AnswersNameRows'
    BY <2>1, KeepDraftType
  <2> QED BY <2>2, <2>3, EndsType DEF SharedTypeOK
<1>5. CASE ResumeExecution(p)
  <2>1. ItemTypeOK' /\ FlagTypeOK'
    <3>1. CASE ResumesLeft
      <4>1. /\ state' = "plan-approved" /\ run' = 0 /\ resumes' = resumes + 1
            /\ UNCHANGED <<pending, decided, approved, verdict, phase, attempt, switch, runs,
                           answerVars, applyQueued, paused>>
        BY <1>5, <3>1 DEF ResumeExecution
      <4>2. resumes' \in 0..MaxResumes
        BY <3>1, <4>1 DEF ResumesLeft, SharedTypeOK, ItemTypeOK
      <4>3. ItemTypeOK'
        BY <4>1, <4>2 DEF SharedTypeOK, ItemTypeOK, answerVars
      <4>4. FlagTypeOK'
        BY <4>1 DEF SharedTypeOK, FlagTypeOK, answerVars
      <4> QED BY <4>3, <4>4
    <3>2. CASE ~ResumesLeft
      BY <1>5, <3>2, FailType DEF ResumeExecution, SharedTypeOK, FlagTypeOK
    <3> QED BY <3>1, <3>2
  <2>2. OutputTypeOK' /\ RecordTypeOK' /\ AnswersNameRows'
    BY <1>5 DEF ResumeExecution, BeforeGate, SharedTypeOK, OutputTypeOK, RecordTypeOK,
                AnswersNameRows, outputVars, answerVars, providerVars, wordVars
  <2> QED BY <1>5, <2>1, <2>2, EndsType DEF ResumeExecution, SharedTypeOK
<1>6. CASE ExecutionFails(p)
  <2> USE <1>6 DEF ExecutionFails
  <2>1. ItemTypeOK' /\ FlagTypeOK'
    BY FailType DEF SharedTypeOK, FlagTypeOK
  <2>2. OutputTypeOK' /\ AnswersNameRows'
    <3>1. CASE KeepDraft(p)
      BY <3>1, KeepDraftType
    <3>2. CASE UNCHANGED outputVars
      BY <3>2 DEF SharedTypeOK, OutputTypeOK, AnswersNameRows, outputVars, answerVars
    <3> QED BY <3>1, <3>2
  <2>3. RecordTypeOK'
    BY DEF SharedTypeOK, RecordTypeOK, providerVars, wordVars
  <2> QED BY <2>1, <2>2, <2>3, EndsType DEF SharedTypeOK
<1>7. CASE MovedOn(p)
  BY <1>7, EndsType, KeptType DEF MovedOn
<1> QED BY <1>1, <1>2, <1>3, <1>4, <1>5, <1>6, <1>7 DEF Execution

\* The claim copies the approved list into the apply.
LEMMA ClaimApprovedType ==
  ASSUME SharedTypeOK, ActionTypeOK, ActsForARun, NEW p \in Procs, ClaimApprovedActions(p)
  PROVE  SharedTypeOK' /\ ActionTypeOK' /\ ActsForARun'
<1> USE DEF ClaimApprovedActions
<1>1. ClaimedLedger \in [Idx -> Rows]
  BY ClaimedLedgerType DEF SharedTypeOK, Claimable
<1>2. RunKey \in Runs
  BY DEF SharedTypeOK, ItemTypeOK, RunKey, Claimable
<1>3. ItemTypeOK' /\ FlagTypeOK'
  BY DEF ArmApplySwitch, SharedTypeOK, ItemTypeOK, FlagTypeOK, answerVars
<1>4. OutputTypeOK' /\ RecordTypeOK' /\ AnswersNameRows'
  BY NoRowsType DEF SharedTypeOK, OutputTypeOK, RecordTypeOK, AnswersNameRows, answerVars,
                    providerVars, wordVars, Claimable, AutoPhase
<1>5. ActionTypeOK'
  BY <1>1, <1>2 DEF ActionTypeOK, snapVars
<1>6. ActsForARun'
  BY <1>2 DEF ActsForARun, ActionTypeOK
<1> QED BY <1>3, <1>4, <1>5, <1>6 DEF SharedTypeOK

\* The steps of an apply that write nothing on the row but a reported outcome.
LEMMA RowStepType ==
  ASSUME SharedTypeOK, ActionTypeOK, ActsForARun, NEW p \in Procs,
         RefuseRow(p) \/ Authorise(p) \/ Send(p) \/ RecordApplyOutcome(p) \/ ApplyThrows(p)
  PROVE  SharedTypeOK' /\ ActionTypeOK' /\ ActsForARun'
<1>1. CASE RefuseRow(p)
  <2>1. myLedger' \in [Procs -> [Idx -> Rows]]
    BY <1>1, DecideType DEF RefuseRow, Undecided, UpTo, Statuses
  <2>2. ActionTypeOK' /\ ActsForARun'
    BY <1>1, <2>1 DEF RefuseRow, ActionTypeOK, ActsForARun, snapVars
  <2> QED BY <1>1, <2>2, KeptType DEF RefuseRow
<1>2. CASE Authorise(p)
  <2>1. myLedger' \in [Procs -> [Idx -> Rows]]
    BY <1>2, DecideType DEF Authorise, Undecided, UpTo, Statuses, ActionTypeOK
  <2>2. ActionTypeOK' /\ ActsForARun'
    BY <1>2, <2>1 DEF Authorise, Undecided, UpTo, ActionTypeOK, ActsForARun, snapVars
  <2> QED BY <1>2, <2>2, KeptType DEF Authorise
<1>3. CASE Send(p)
  <2> USE <1>3 DEF Send
  <2>1. myRun[p] \in Runs /\ myRow[p] \in Idx
    BY MyRunType DEF ActsForARun
  <2>2. myLedger' \in [Procs -> [Idx -> Rows]]
    BY DecideType DEF Statuses
  <2>3. ActionTypeOK' /\ ActsForARun'
    BY <2>2 DEF ActionTypeOK, ActsForARun, snapVars
  <2>4. RecordTypeOK'
    BY <2>1 DEF SharedTypeOK, RecordTypeOK, wordVars
  <2>5. ItemTypeOK' /\ FlagTypeOK' /\ OutputTypeOK' /\ AnswersNameRows'
    BY DEF SharedTypeOK, ItemTypeOK, FlagTypeOK, OutputTypeOK, AnswersNameRows, claimVars,
           outputVars, answerVars, schedVars
  <2> QED BY <2>3, <2>4, <2>5 DEF SharedTypeOK
<1>4. CASE RecordApplyOutcome(p)
  <2> USE <1>4 DEF RecordApplyOutcome, UpTo
  <2>1. progress' \in [Idx -> Rows]
    BY DEF SharedTypeOK, OutputTypeOK, ActionTypeOK
  <2>0. ActionTypeOK'
    <3>1. myRow' \in [Procs -> 1..(N + 1)]
      BY DEF ActionTypeOK
    <3>2. pc' \in [Procs -> {"idle", "read", "authoring", "apply", "sending", "finish", "lost", "recover"}]
      BY DEF ActionTypeOK
    <3> QED BY <3>1, <3>2 DEF ActionTypeOK, snapVars
  <2>2. ActsForARun'
    BY DEF ActionTypeOK, ActsForARun
  <2>3. SharedTypeOK'
    BY <2>1 DEF SharedTypeOK, ItemTypeOK, FlagTypeOK, OutputTypeOK, RecordTypeOK,
                AnswersNameRows, claimVars, answerVars, schedVars, providerVars, wordVars
  <2> QED BY <2>0, <2>2, <2>3
<1>5. CASE ApplyThrows(p)
  <2>1. ActionTypeOK' /\ ActsForARun'
    BY <1>5 DEF ApplyThrows, ActionTypeOK, ActsForARun, applyVars, snapVars
  <2> QED BY <1>5, <2>1, KeptType DEF ApplyThrows
<1> QED BY <1>1, <1>2, <1>3, <1>4, <1>5

\* The steps that end an apply.
LEMMA ApplyEndType ==
  ASSUME SharedTypeOK, ActionTypeOK, ActsForARun, NEW p \in Procs,
         \/ RecordUnsentAfterStop(p) \/ Recover(p) \/ FinishFailed(p)
         \/ SetAwaitingApproval(p) \/ SetCompleted(p) \/ StopOnQuestion(p)
  PROVE  SharedTypeOK' /\ ActionTypeOK' /\ ActsForARun'
<1>1. CASE RecordUnsentAfterStop(p)
  <2> USE <1>1 DEF RecordUnsentAfterStop
  <2>1. Row("notSent", myRun[p]) \in Rows
    BY RowType, MyRunType DEF Statuses
  <2>2. ledger' \in [Idx -> Rows] /\ \A i \in Idx : ledger[i].st # "none" => ledger'[i].st # "none"
    BY <2>1 DEF SharedTypeOK, OutputTypeOK, Row
  <2>3. OutputTypeOK' /\ AnswersNameRows'
    BY <2>2 DEF SharedTypeOK, OutputTypeOK, AnswersNameRows, answerVars
  <2>4. ItemTypeOK' /\ FlagTypeOK' /\ RecordTypeOK'
    BY DEF SharedTypeOK, ItemTypeOK, FlagTypeOK, RecordTypeOK, claimVars, answerVars, schedVars,
           providerVars, wordVars
  <2>5. ActionTypeOK' /\ ActsForARun'
    BY DEF ActionTypeOK, ActsForARun, applyVars, snapVars
  <2> QED BY <2>3, <2>4, <2>5 DEF SharedTypeOK
<1>2. CASE Recover(p)
  BY <1>2, EndsType, RecoveryType DEF Recover
<1>3. CASE FinishFailed(p) \/ StopOnQuestion(p)
  <2>1. Settled(myLedger[p]) \in [Idx -> Rows]
    BY SettledType DEF ActionTypeOK
  <2> QED BY <1>3, <2>1, EndsType, ApplySetFailedType DEF FinishFailed, StopOnQuestion
<1>4. CASE SetAwaitingApproval(p)
  <2> USE <1>4 DEF SetAwaitingApproval
  <2>1. ItemTypeOK' /\ FlagTypeOK'
    BY DEF SharedTypeOK, ItemTypeOK, FlagTypeOK, answerVars
  <2>2. OutputTypeOK'
    BY NoRowsType DEF SharedTypeOK, OutputTypeOK, ActionTypeOK
  <2>3. RecordTypeOK' /\ AnswersNameRows'
    BY DEF SharedTypeOK, RecordTypeOK, AnswersNameRows, HoldsClaim, answerVars, providerVars,
           wordVars
  <2> QED BY <2>1, <2>2, <2>3, EndsType DEF SharedTypeOK
<1>5. CASE SetCompleted(p)
  <2> USE <1>5 DEF SetCompleted
  <2>1. CASE state = "executing" /\ run = myRun[p]
    <3>0. ItemTypeOK'
      BY <2>1, NoVerdictsType DEF ClearClaim, SharedTypeOK, ItemTypeOK, answerVars
    <3>1. FlagTypeOK'
      BY <2>1 DEF ClearClaim, SharedTypeOK, FlagTypeOK, answerVars
    <3>2. OutputTypeOK'
      BY <2>1, NoRowsType DEF SharedTypeOK, OutputTypeOK, ActionTypeOK
    <3>3. RecordTypeOK' /\ AnswersNameRows'
      BY <2>1 DEF SharedTypeOK, RecordTypeOK, AnswersNameRows, answerVars, providerVars, wordVars
    <3> QED BY <2>1, <3>0, <3>1, <3>2, <3>3, EndsType DEF SharedTypeOK
  <2>2. CASE ~(state = "executing" /\ run = myRun[p])
    <3>1. ActionTypeOK' /\ ActsForARun'
      BY <2>2 DEF ActionTypeOK, ActsForARun, applyVars, snapVars
    <3> QED BY <2>2, <3>1, KeptType DEF outputVars, schedVars
  <2> QED BY <2>1, <2>2
<1> QED BY <1>1, <1>2, <1>3, <1>4, <1>5

LEMMA SchedulerType ==
  ASSUME SharedTypeOK, ActionTypeOK, ActsForARun, Scheduler
  PROVE  SharedTypeOK' /\ ActionTypeOK' /\ ActsForARun'
<1>1. UNCHANGED procVars
  BY DEF Scheduler, ClaimRefused, ParkOnConnection, FireSwitch, ResumeHeldApplies, SweepStalled
<1> SUFFICES SharedTypeOK'
  BY <1>1, KeptActions
<1>2. CASE ClaimRefused \/ ResumeHeldApplies
  <2> USE <1>2 DEF ClaimRefused, ResumeHeldApplies, ScheduleApply
  <2>1. ItemTypeOK'
    BY DEF SharedTypeOK, ItemTypeOK, claimVars, answerVars
  <2>2. FlagTypeOK'
    BY DEF SharedTypeOK, FlagTypeOK, claimVars, answerVars
  <2>3. OutputTypeOK' /\ RecordTypeOK' /\ AnswersNameRows'
    BY DEF SharedTypeOK, OutputTypeOK, RecordTypeOK, AnswersNameRows, outputVars, answerVars,
           providerVars, wordVars
  <2> QED BY <2>1, <2>2, <2>3 DEF SharedTypeOK
<1>3. CASE ParkOnConnection
  <2> USE <1>3 DEF ParkOnConnection
  <2>0. ItemTypeOK'
    BY NoVerdictsType DEF ClearClaim, SharedTypeOK, ItemTypeOK, answerVars
  <2>1. FlagTypeOK'
    BY DEF ClearClaim, SharedTypeOK, FlagTypeOK, answerVars
  <2>2. OutputTypeOK' /\ RecordTypeOK' /\ AnswersNameRows'
    BY DEF Claimable, AutoPhase, SharedTypeOK, OutputTypeOK, RecordTypeOK, AnswersNameRows,
           outputVars, answerVars, providerVars, wordVars
  <2> QED BY <2>0, <2>1, <2>2 DEF SharedTypeOK
<1>4. CASE FireSwitch
  BY <1>4, RecoveryType DEF FireSwitch
<1>5. CASE SweepStalled
  <2> USE <1>5 DEF SweepStalled
  <2>1. ItemTypeOK' /\ FlagTypeOK'
    BY FailType DEF SharedTypeOK, FlagTypeOK
  <2>2. OutputTypeOK' /\ RecordTypeOK' /\ AnswersNameRows'
    BY DEF BeforeGate, SharedTypeOK, OutputTypeOK, RecordTypeOK, AnswersNameRows, outputVars,
           answerVars, providerVars, wordVars
  <2> QED BY <2>1, <2>2 DEF SharedTypeOK
<1> QED BY <1>2, <1>3, <1>4, <1>5 DEF Scheduler

\* The answers a retry reads name rows, so what it carries are keys.
LEMMA RetryType ==
  ASSUME SharedTypeOK, RetryFailed
  PROVE  SharedTypeOK'
<1> USE DEF RetryFailed
<1>1. \A i \in Idx : RetryAnswers[i] # "none" => ledger[i].st # "none"
  BY DEF RetryAnswers, LandedStatuses, SharedTypeOK, AnswersNameRows
<1>2. NotSentWrites(RetryAnswers) \subseteq Keys /\ LandedWrites(RetryAnswers) \subseteq Keys
  BY <1>1, WritesType DEF SharedTypeOK
<1>3. OutputTypeOK'
  BY <1>2 DEF CarriedIntoRetry, SharedTypeOK, OutputTypeOK
<1>4. ItemTypeOK'
  BY DEF SharedTypeOK, ItemTypeOK, NoAnswers
<1>5. FlagTypeOK'
  BY DEF SharedTypeOK, FlagTypeOK
<1>6. RecordTypeOK' /\ AnswersNameRows'
  BY DEF SharedTypeOK, RecordTypeOK, AnswersNameRows, NoAnswers, providerVars, wordVars
<1> QED BY <1>3, <1>4, <1>5, <1>6 DEF SharedTypeOK

LEMMA ManagerType ==
  ASSUME SharedTypeOK, ActionTypeOK, ActsForARun, Manager
  PROVE  SharedTypeOK' /\ ActionTypeOK' /\ ActsForARun'
<1>1. UNCHANGED procVars
  BY DEF Manager, ApproveActions, RejectActions, StopRun, ReconcileFailed, RetryFailed,
         PlanAgain, SetPaused
<1> SUFFICES SharedTypeOK'
  BY <1>1, KeptActions
<1>2. ASSUME NEW r \in Runs, NEW S \in SUBSET Idx, ApproveActions(r, S)
      PROVE  SharedTypeOK'
  <2> USE <1>2 DEF ApproveActions
  <2>1. ItemTypeOK' /\ FlagTypeOK'
    BY DEF ScheduleApply, SharedTypeOK, ItemTypeOK, FlagTypeOK, answerVars
  <2>2. OutputTypeOK' /\ RecordTypeOK' /\ AnswersNameRows'
    BY DEF SharedTypeOK, OutputTypeOK, RecordTypeOK, AnswersNameRows, outputVars, answerVars,
           providerVars
  <2> QED BY <2>1, <2>2 DEF SharedTypeOK
<1>3. ASSUME NEW r \in Runs, RejectActions(r)
      PROVE  SharedTypeOK'
  <2> USE <1>3 DEF RejectActions
  <2>1. ItemTypeOK' /\ FlagTypeOK'
    BY FailType DEF FailInTransaction, SharedTypeOK, FlagTypeOK
  <2>2. OutputTypeOK'
    BY SettledType DEF SharedTypeOK, OutputTypeOK
  <2>3. RecordTypeOK' /\ AnswersNameRows'
    BY DEF SharedTypeOK, RecordTypeOK, AnswersNameRows, answerVars, providerVars, wordVars
  <2> QED BY <2>1, <2>2, <2>3 DEF SharedTypeOK
<1>4. CASE StopRun
  <2> USE <1>4 DEF StopRun
  <2>1. ItemTypeOK' /\ FlagTypeOK'
    BY FailType DEF SharedTypeOK, FlagTypeOK
  <2>2. OutputTypeOK'
    BY NoRowsType, InterruptedLedgerType DEF UnknownStatuses, SharedTypeOK, OutputTypeOK
  <2>3. RecordTypeOK' /\ AnswersNameRows'
    BY DEF ApprovedNotStarted, SharedTypeOK, RecordTypeOK, AnswersNameRows, answerVars,
           providerVars, wordVars
  <2> QED BY <2>1, <2>2, <2>3 DEF SharedTypeOK
<1>5. CASE ReconcileFailed
  <2> USE <1>5 DEF ReconcileFailed
  <2>1. \A i \in Entries : ledger[i].st # "none" /\ RowKey(i) \in Keys
    BY RowKeyType DEF Entries, LandedStatuses, UnknownStatuses, SharedTypeOK
  <2>2. PICK a \in [Idx -> {"none", "landed", "notSent"}] :
          /\ answers' = a
          /\ \A i \in Idx : a[i] # "none" => i \in Entries
          /\ told' = told \cup {RowKey(i) : i \in {j \in Idx : a[j] = "notSent"}}
          /\ saidLanded' = saidLanded \cup {RowKey(i) : i \in {j \in Idx : a[j] = "landed"}}
    OBVIOUS
  <2>3. ItemTypeOK' /\ FlagTypeOK' /\ OutputTypeOK'
    BY <2>2 DEF SharedTypeOK, ItemTypeOK, FlagTypeOK, OutputTypeOK, claimVars, outputVars, schedVars
  <2>4. told' \subseteq Keys /\ saidLanded' \subseteq Keys
    BY <2>1, <2>2 DEF SharedTypeOK, RecordTypeOK
  <2>5. RecordTypeOK'
    BY <2>4 DEF SharedTypeOK, RecordTypeOK, providerVars
  <2>6. AnswersNameRows'
    BY <2>1, <2>2 DEF SharedTypeOK, AnswersNameRows, outputVars
  <2> QED BY <2>3, <2>5, <2>6 DEF SharedTypeOK
<1>6. CASE PlanAgain \/ SetPaused
  <2> USE <1>6 DEF PlanAgain, SetPaused
  <2>1. ItemTypeOK'
    BY DEF SharedTypeOK, ItemTypeOK, claimVars, answerVars, schedVars
  <2>2. FlagTypeOK'
    BY DEF SharedTypeOK, FlagTypeOK, claimVars, answerVars, schedVars
  <2>3. OutputTypeOK' /\ RecordTypeOK' /\ AnswersNameRows'
    BY DEF SharedTypeOK, OutputTypeOK, RecordTypeOK, AnswersNameRows, outputVars, answerVars,
           providerVars, wordVars
  <2> QED BY <2>1, <2>2, <2>3 DEF SharedTypeOK
<1> QED BY <1>2, <1>3, <1>4, <1>5, <1>6, RetryType DEF Manager

LEMMA TypeStep == TypeInv /\ [Next]_vars => TypeInv'
<1> SUFFICES ASSUME SharedTypeOK, ActionTypeOK, ActsForARun, [Next]_vars
             PROVE  SharedTypeOK' /\ ActionTypeOK' /\ ActsForARun'
  BY TypeInvParts DEF TypeInv, TypeOK, SharedTypeOK
<1>1. ASSUME NEW p \in Procs, Execution(p)
      PROVE  SharedTypeOK' /\ ActionTypeOK' /\ ActsForARun'
  BY <1>1, ExecutionType
<1>2. ASSUME NEW p \in Procs, Apply(p)
      PROVE  SharedTypeOK' /\ ActionTypeOK' /\ ActsForARun'
  BY <1>2, ClaimApprovedType, RowStepType, ApplyEndType DEF Apply
<1>3. ASSUME NEW p \in Procs, Crash(p)
      PROVE  SharedTypeOK' /\ ActionTypeOK' /\ ActsForARun'
  BY <1>3, EndsType, KeptType DEF Crash
<1>4. CASE Scheduler
  BY <1>4, SchedulerType
<1>5. CASE Manager
  BY <1>5, ManagerType
<1>6. CASE UNCHANGED vars
  BY <1>6, KeptType, KeptActions DEF vars
<1> QED BY <1>1, <1>2, <1>3, <1>4, <1>5, <1>6 DEF Next

\* Every state the row, the Node actions and the provider's record reach is
\* well typed: a key always names a run that was claimed and a row of its list.
THEOREM TypeCorrect == Spec => []TypeOK
<1>1. TypeInv => TypeOK
  BY DEF TypeInv
<1> QED BY TypeInit, TypeStep, <1>1, PTL DEF Spec

-----------------------------------------------------------------------------
(***************************************************************************)
(* The theorem that matters most about WorkRun: nothing is sent that the   *)
(* gate did not let through, or the manager did not approve, for that very *)
(* run.  OnlyDecidedSent is not inductive: a send is decided when the set  *)
(* is approved, and happens after a claim, a copy of the approved list     *)
(* into the apply, and a check before transport.  The invariant follows    *)
(* the decision along that way.                                            *)
(***************************************************************************)
\* The approved list of the pending run was decided for that run.
ApprovedIsCleared == decided /\ pending # 0 => {pending} \X approved \subseteq cleared

\* While a run is executed or waits, the pending run is the run.
PendingIsRun == state \in {"executing", "actions-pending"} /\ pending # 0 => run = pending

\* A row the apply has still to send was decided for the run it acts for.
BlankIsCleared ==
  \A p \in Procs : pc[p] \in {"apply", "sending"} =>
    \A i \in Idx : myLedger[p][i].st = "none" => <<myRun[p], i>> \in cleared

\* A row on its way to the provider has no outcome yet.
SendsBlank == \A p \in Procs : pc[p] = "sending" => myLedger[p][myRow[p]].st = "none"

DecidedInv == ApprovedIsCleared /\ PendingIsRun /\ BlankIsCleared /\ SendsBlank /\ OnlyDecidedSent


-----------------------------------------------------------------------------
LEMMA DecidedInit == Init => DecidedInv
BY DEF Init, DecidedInv, ApprovedIsCleared, PendingIsRun, BlankIsCleared, SendsBlank, OnlyDecidedSent

\* What the row says of its approved list, when a step leaves it as it is.
LEMMA KeptDecision ==
  ASSUME DecidedInv, UNCHANGED <<state, run, pending, decided, approved>>, cleared \subseteq cleared'
  PROVE  ApprovedIsCleared' /\ PendingIsRun'
BY DEF DecidedInv, ApprovedIsCleared, PendingIsRun

\* A step that leaves the item decided for nothing.
LEMMA ClearedDecision ==
  ASSUME pending' = 0
  PROVE  ApprovedIsCleared' /\ PendingIsRun'
BY DEF ApprovedIsCleared, PendingIsRun

LEMMA KeptSends ==
  ASSUME DecidedInv, UNCHANGED <<procVars, tried>>, cleared \subseteq cleared'
  PROVE  BlankIsCleared' /\ SendsBlank' /\ OnlyDecidedSent'
BY DEF DecidedInv, BlankIsCleared, SendsBlank, OnlyDecidedSent, procVars, applyVars, snapVars

LEMMA EndedSends ==
  ASSUME ActionTypeOK, DecidedInv, NEW p \in Procs, Ends(p), tried' = tried,
         cleared \subseteq cleared'
  PROVE  BlankIsCleared' /\ SendsBlank' /\ OnlyDecidedSent'
BY DEF ActionTypeOK, DecidedInv, BlankIsCleared, SendsBlank, OnlyDecidedSent, Ends

\* A failure, the apply's own or a refused one, leaves nothing decided anew.
LEMMA FailedDecision ==
  ASSUME DecidedInv, NEW p \in Procs, NEW led, ApplySetFailed(p, led), UNCHANGED cleared
  PROVE  ApprovedIsCleared' /\ PendingIsRun'
<1>1. CASE pending' = 0
  BY <1>1, ClearedDecision
<1>2. CASE pending' # 0
  BY <1>2, KeptDecision DEF ApplySetFailed, FailInTransaction, ClearClaim, claimVars
<1> QED BY <1>1, <1>2

\* The recovery keeps the run and its list; an end of the apply keeps no claim.
LEMMA RecoveredDecision ==
  ASSUME DecidedInv, NEW r, NEW ph, RecoverInterruptedApply(r, ph), UNCHANGED RecoveryKeeps
  PROVE  ApprovedIsCleared' /\ PendingIsRun'
BY DEF DecidedInv, ApprovedIsCleared, PendingIsRun, RecoverInterruptedApply, RecoveryKeeps, wordVars

\* The claim: a row the copied list leaves blank was approved.
LEMMA BlankIsApproved ==
  ASSUME OutputTypeOK, NEW i \in Idx, ClaimedLedger[i].st = "none"
  PROVE  i \in approved
<1>1. PriorRow(i) = Blank \/ PriorRow(i).st # "none"
  BY ReusedType DEF PriorRow, Rows, OutputTypeOK
<1> QED BY <1>1 DEF ClaimedLedger, Row

LEMMA ExecutionDecided ==
  ASSUME SharedTypeOK, ActionTypeOK, ActsForARun, DecidedInv, NEW p \in Procs, Execution(p)
  PROVE  DecidedInv'
<1>1. CASE ReadItem(p)
  <2>1. BlankIsCleared' /\ SendsBlank' /\ OnlyDecidedSent'
    BY <1>1 DEF ReadItem, ActionTypeOK, DecidedInv, BlankIsCleared, SendsBlank, OnlyDecidedSent,
                applyVars, providerVars, wordVars
  <2> QED BY <1>1, <2>1, KeptDecision DEF ReadItem, claimVars, wordVars, DecidedInv
<1>2. CASE ClaimExecution(p)
  <2>1. BlankIsCleared' /\ SendsBlank' /\ OnlyDecidedSent'
    BY <1>2 DEF ClaimExecution, ActionTypeOK, DecidedInv, BlankIsCleared, SendsBlank,
                OnlyDecidedSent, providerVars
  <2> QED BY <1>2, <2>1, ClearedDecision DEF ClaimExecution, DecidedInv
<1>3. CASE ClaimExecutionRefused(p) \/ MovedOn(p)
  BY <1>3, EndedSends, KeptDecision
     DEF ClaimExecutionRefused, MovedOn, claimVars, providerVars, wordVars, DecidedInv
<1>4. CASE SetActionsPending(p)
  <2> USE <1>4 DEF SetActionsPending
  <2>1. PICK v \in [Idx -> {"auto", "held", "refused"}] : Gated(v)
    OBVIOUS
  <2>2. ApprovedIsCleared'
    BY <2>1 DEF Gated, FailInTransaction, ClearClaim, ApprovedIsCleared
  <2>3. PendingIsRun'
    BY <2>1 DEF Gated, FailInTransaction, ClearClaim, PendingIsRun
  <2>4. cleared \subseteq cleared' /\ tried' = tried
    BY <2>1 DEF Gated, providerVars
  <2> QED BY <2>2, <2>3, <2>4, EndedSends DEF DecidedInv
<1>5. CASE ResumeExecution(p)
  <2>1. pending' = 0
    BY <1>5 DEF ResumeExecution, BeforeGate, FailInTransaction, ClearClaim
  <2> QED BY <1>5, <2>1, ClearedDecision, EndedSends
       DEF ResumeExecution, providerVars, wordVars, DecidedInv
<1>6. CASE ExecutionFails(p)
  BY <1>6, ClearedDecision, EndedSends
     DEF ExecutionFails, FailInTransaction, ClearClaim, providerVars, wordVars, DecidedInv
<1> QED BY <1>1, <1>2, <1>3, <1>4, <1>5, <1>6 DEF Execution

LEMMA ApplyDecided ==
  ASSUME SharedTypeOK, ActionTypeOK, ActsForARun, DecidedInv, NEW p \in Procs, Apply(p)
  PROVE  DecidedInv'
<1>1. CASE ClaimApprovedActions(p)
  <2> USE <1>1 DEF ClaimApprovedActions
  <2>1. RunKey = pending /\ pending # 0 /\ decided
    BY DEF Claimable, AutoPhase, RunKey, DecidedInv, PendingIsRun
  <2>2. \A i \in Idx : ClaimedLedger[i].st = "none" => <<RunKey, i>> \in cleared
    BY <2>1, BlankIsApproved DEF SharedTypeOK, DecidedInv, ApprovedIsCleared
  <2>3. BlankIsCleared'
    BY <2>2 DEF ActionTypeOK, DecidedInv, BlankIsCleared, wordVars
  <2>4. SendsBlank' /\ OnlyDecidedSent'
    BY DEF ActionTypeOK, DecidedInv, SendsBlank, OnlyDecidedSent, providerVars, wordVars
  <2>5. ApprovedIsCleared' /\ PendingIsRun'
    BY <2>1 DEF Claimable, AutoPhase, DecidedInv, ApprovedIsCleared, PendingIsRun, wordVars
  <2> QED BY <2>3, <2>4, <2>5 DEF DecidedInv
<1>2. CASE RefuseRow(p)
  <2>1. BlankIsCleared' /\ SendsBlank' /\ OnlyDecidedSent'
    BY <1>2 DEF RefuseRow, Decide, Undecided, UpTo, Row, ActionTypeOK, DecidedInv, BlankIsCleared,
                SendsBlank, OnlyDecidedSent, providerVars, wordVars
  <2> QED BY <1>2, <2>1, KeptDecision DEF RefuseRow, claimVars, wordVars, DecidedInv
<1>3. CASE Authorise(p)
  <2> USE <1>3 DEF Authorise, Undecided, UpTo
  <2>1. BlankIsCleared' /\ SendsBlank' /\ OnlyDecidedSent'
    <3>1. CASE HoldsClaim(p)
      BY <3>1 DEF ActionTypeOK, DecidedInv, BlankIsCleared, SendsBlank, OnlyDecidedSent,
                  providerVars, wordVars
    <3>2. CASE ~HoldsClaim(p)
      <4>1. Decide(p, "failed") /\ UNCHANGED <<pc, myRun, myRow, tried, cleared>> /\ pc[p] = "apply"
        BY <3>2 DEF providerVars, wordVars
      <4> QED BY <4>1 DEF Decide, Row, ActionTypeOK, DecidedInv, BlankIsCleared, SendsBlank,
                          OnlyDecidedSent
    <3> QED BY <3>1, <3>2
  <2> QED BY <2>1, KeptDecision DEF claimVars, wordVars, DecidedInv
<1>4. CASE Send(p)
  <2> USE <1>4 DEF Send
  <2>1. PICK st \in {"landed", "failed", "unknown"} : Decide(p, st)
    OBVIOUS
  <2>2. myRow[p] \in Idx
    BY DEF ActsForARun
  <2>3. <<myRun[p], myRow[p]>> \in cleared
    BY <2>2 DEF DecidedInv, BlankIsCleared, SendsBlank
  <2>4. OnlyDecidedSent'
    BY <2>3 DEF DecidedInv, OnlyDecidedSent, wordVars
  <2>5. BlankIsCleared' /\ SendsBlank'
    BY <2>1, <2>2 DEF Decide, Row, ActionTypeOK, DecidedInv, BlankIsCleared, SendsBlank, wordVars
  <2> QED BY <2>4, <2>5, KeptDecision DEF claimVars, wordVars, DecidedInv
<1>5. CASE RecordApplyOutcome(p)
  <2>1. BlankIsCleared' /\ SendsBlank' /\ OnlyDecidedSent'
    BY <1>5 DEF RecordApplyOutcome, UpTo, ActionTypeOK, DecidedInv, BlankIsCleared, SendsBlank,
                OnlyDecidedSent, providerVars, wordVars
  <2> QED BY <1>5, <2>1, KeptDecision DEF RecordApplyOutcome, claimVars, wordVars, DecidedInv
<1>6. CASE RecordUnsentAfterStop(p) \/ ApplyThrows(p)
  <2>1. BlankIsCleared' /\ SendsBlank' /\ OnlyDecidedSent'
    BY <1>6 DEF RecordUnsentAfterStop, ApplyThrows, ActionTypeOK, DecidedInv, BlankIsCleared,
                SendsBlank, OnlyDecidedSent, applyVars, providerVars, wordVars
  <2> QED BY <1>6, <2>1, KeptDecision
       DEF RecordUnsentAfterStop, ApplyThrows, claimVars, wordVars, DecidedInv
<1>7. CASE Recover(p)
  BY <1>7, EndedSends, RecoveredDecision
     DEF Recover, RecoveryKeeps, providerVars, wordVars, DecidedInv
<1>8. CASE FinishFailed(p) \/ StopOnQuestion(p)
  BY <1>8, EndedSends, FailedDecision
     DEF FinishFailed, StopOnQuestion, providerVars, wordVars, DecidedInv
<1>9. CASE SetAwaitingApproval(p)
  <2>1. ApprovedIsCleared' /\ PendingIsRun'
    BY <1>9 DEF SetAwaitingApproval, HoldsClaim, DecidedInv, ApprovedIsCleared, PendingIsRun, wordVars
  <2> QED BY <1>9, <2>1, EndedSends DEF SetAwaitingApproval, providerVars, wordVars, DecidedInv
<1>10. CASE SetCompleted(p)
  <2>1. CASE state = "executing" /\ run = myRun[p]
    BY <1>10, <2>1, ClearedDecision, EndedSends
       DEF SetCompleted, ClearClaim, providerVars, wordVars, DecidedInv
  <2>2. CASE ~(state = "executing" /\ run = myRun[p])
    <3>1. BlankIsCleared' /\ SendsBlank' /\ OnlyDecidedSent'
      BY <1>10, <2>2 DEF SetCompleted, ActionTypeOK, DecidedInv, BlankIsCleared, SendsBlank,
                         OnlyDecidedSent, applyVars, providerVars, wordVars
    <3> QED BY <1>10, <2>2, <3>1, KeptDecision DEF SetCompleted, claimVars, wordVars, DecidedInv
  <2> QED BY <2>1, <2>2
<1> QED BY <1>1, <1>2, <1>3, <1>4, <1>5, <1>6, <1>7, <1>8, <1>9, <1>10 DEF Apply

LEMMA SchedulerDecided ==
  ASSUME DecidedInv, Scheduler
  PROVE  DecidedInv'
<1>1. CASE ClaimRefused \/ ResumeHeldApplies
  BY <1>1, KeptDecision, KeptSends
     DEF ClaimRefused, ResumeHeldApplies, claimVars, providerVars, wordVars, DecidedInv
<1>2. CASE ParkOnConnection \/ SweepStalled
  BY <1>2, ClearedDecision, KeptSends
     DEF ParkOnConnection, SweepStalled, FailInTransaction, ClearClaim, providerVars, wordVars,
         DecidedInv
<1>3. CASE FireSwitch
  BY <1>3, RecoveredDecision, KeptSends DEF FireSwitch, RecoveryKeeps, providerVars, wordVars, DecidedInv
<1> QED BY <1>1, <1>2, <1>3 DEF Scheduler

LEMMA ManagerDecided ==
  ASSUME DecidedInv, Manager
  PROVE  DecidedInv'
<1>1. ASSUME NEW r \in Runs, NEW S \in SUBSET Idx, ApproveActions(r, S)
      PROVE  DecidedInv'
  <2>1. ApprovedIsCleared' /\ PendingIsRun'
    BY <1>1 DEF ApproveActions, DecidedInv, ApprovedIsCleared, PendingIsRun
  <2> QED BY <1>1, <2>1, KeptSends DEF ApproveActions, providerVars, DecidedInv
<1>2. CASE (\E r \in Runs : RejectActions(r)) \/ StopRun
  BY <1>2, ClearedDecision, KeptSends
     DEF RejectActions, StopRun, FailInTransaction, ClearClaim, providerVars, wordVars, DecidedInv
<1>3. CASE ReconcileFailed \/ PlanAgain \/ SetPaused
  <2>1. ApprovedIsCleared' /\ PendingIsRun'
    BY <1>3 DEF ReconcileFailed, PlanAgain, SetPaused, claimVars, wordVars, DecidedInv,
                ApprovedIsCleared, PendingIsRun
  <2> QED BY <1>3, <2>1, KeptSends
       DEF ReconcileFailed, PlanAgain, SetPaused, providerVars, wordVars, DecidedInv
<1>4. CASE RetryFailed
  <2>1. ApprovedIsCleared' /\ PendingIsRun'
    BY <1>4 DEF RetryFailed, wordVars, DecidedInv, ApprovedIsCleared, PendingIsRun
  <2> QED BY <1>4, <2>1, KeptSends DEF RetryFailed, providerVars, wordVars, DecidedInv
<1> QED BY <1>1, <1>2, <1>3, <1>4 DEF Manager

LEMMA DecidedStep == TypeInv /\ DecidedInv /\ [Next]_vars => DecidedInv'
<1> SUFFICES ASSUME SharedTypeOK, ActionTypeOK, ActsForARun, DecidedInv, [Next]_vars
             PROVE  DecidedInv'
  BY DEF TypeInv, TypeOK, SharedTypeOK
<1>1. ASSUME NEW p \in Procs, Execution(p) \/ Apply(p)
      PROVE  DecidedInv'
  BY <1>1, ExecutionDecided, ApplyDecided
<1>2. ASSUME NEW p \in Procs, Crash(p)
      PROVE  DecidedInv'
  BY <1>2, EndedSends, KeptDecision DEF Crash, claimVars, providerVars, wordVars, DecidedInv
<1>3. CASE Scheduler
  BY <1>3, SchedulerDecided
<1>4. CASE Manager
  BY <1>4, ManagerDecided
<1>5. CASE UNCHANGED vars
  BY <1>5, KeptDecision, KeptSends DEF vars, claimVars, providerVars, wordVars, DecidedInv
<1> QED BY <1>1, <1>2, <1>3, <1>4, <1>5 DEF Next

\* Whatever dies, is stopped, retried or answered late: only what was decided
\* for the very run it is sent under is ever sent.
THEOREM DecidedSends == Spec => []OnlyDecidedSent
<1>1. TypeInv /\ DecidedInv => OnlyDecidedSent
  BY DEF DecidedInv
<1> QED BY TypeInit, TypeStep, DecidedInit, DecidedStep, <1>1, PTL DEF Spec

-----------------------------------------------------------------------------
(***************************************************************************)
(* No idempotency key of WorkRun is ever sent twice.  KeySentOnce is not   *)
(* inductive: it rests on who may send.  A run is the row's from one claim *)
(* of it to its end, an apply of the run the row is under is the one that  *)
(* holds its claim, and what an apply, or the ledger a second apply of the *)
(* run starts from, leaves open was never tried.                           *)
(***************************************************************************)
Applying == {"apply", "sending", "finish", "lost", "recover"}
Active == state \in {"executing", "actions-pending"}

\* No two Node actions hold one attempt id, and no two act for one run.
AttemptsApart ==
  \A p \in Procs : pc[p] \in Applying =>
    /\ myAttempt[p] \in AttemptIds
    /\ \A q \in Procs : myAttempt[q] = myAttempt[p] => q = p
RunsApart ==
  \A p, q \in Procs :
    pc[p] \notin {"idle", "read"} /\ pc[q] \notin {"idle", "read"} /\ myRun[p] = myRun[q] => p = q

\* An apply of the run the row is under holds its claim; an author of it has
\* handed nothing over yet.
OneHolder == \A p \in Procs : pc[p] \in Applying /\ Active /\ myRun[p] = run => HoldsClaim(p)
AuthorsBeforeGate ==
  \A p \in Procs : pc[p] = "authoring" /\ Active /\ myRun[p] = run => BeforeGate(run)

\* The row's run is the newest one.
LastRun ==
  (run # 0 => run = runs) /\ (\A p \in Procs : myRun[p] <= runs) /\ (\A k \in tried : k[1] <= runs)
RunIsActive == (Active => run # 0) /\ (run # 0 => Active \/ state = "failed")

\* A claim, or a set that waits, is of the row's run.
ClaimIsOfRun ==
  /\ attempt # NoAttempt => state = "executing" /\ pending = run
  /\ state = "actions-pending" => pending = run

ClaimInv ==
  AttemptsApart /\ RunsApart /\ OneHolder /\ AuthorsBeforeGate /\ LastRun /\ RunIsActive /\ ClaimIsOfRun

\* A row with one of these was not sent by the apply that recorded it.
NotTried == {"none", "awaiting", "reused"}

FreshRunUntried ==
  state = "executing" /\ attempt = NoAttempt => \A i \in Idx : <<run, i>> \notin tried
HeldRunUntried ==
  state = "actions-pending" =>
    \A i \in Idx : ledger[i].st \in NotTried => <<run, i>> \notin tried
RowsUntried ==
  \A p \in Procs : pc[p] \in {"apply", "sending", "finish", "lost"} =>
    \A i \in Idx : myLedger[p][i].st \in NotTried => <<myRun[p], i>> \notin tried

OnceInv == FreshRunUntried /\ HeldRunUntried /\ RowsUntried

-----------------------------------------------------------------------------
(* Who acts, and for which run. *)

\* No Node action takes up a run or a claim: each goes on, or ends.
ActionsStay ==
  \A q \in Procs :
    \/ /\ pc'[q] \in {"idle", "read"}
       /\ myRun'[q] \in {0, myRun[q]} /\ myAttempt'[q] \in {NoAttempt, myAttempt[q]}
    \/ /\ pc'[q] = pc[q] \/ (pc[q] \in Applying /\ pc'[q] \in Applying)
       /\ myRun'[q] = myRun[q] /\ myAttempt'[q] = myAttempt[q]

LEMMA EndsStay ==
  ASSUME ActionTypeOK, NEW p \in Procs, Ends(p)
  PROVE  ActionsStay
BY DEF ActionTypeOK, Ends, ActionsStay

LEMMA KeptStay ==
  ASSUME UNCHANGED procVars
  PROVE  ActionsStay
BY DEF procVars, applyVars, ActionsStay

LEMMA StayApart ==
  ASSUME ClaimInv, ActionsStay
  PROVE  AttemptsApart' /\ RunsApart'
<1>1. AttemptsApart'
  BY DEF ClaimInv, AttemptsApart, ActionsStay, Applying
<1>2. RunsApart'
  BY DEF ClaimInv, RunsApart, ActionsStay, Applying
<1> QED BY <1>1, <1>2

\* The row keeps its run and its claim.
LEMMA KeptClaim ==
  ASSUME SharedTypeOK, ClaimInv, ActionsStay, UNCHANGED <<state, run, runs, pending, attempt>>,
         phase' = phase \/ state = "actions-pending", \A k \in tried' : k[1] <= runs
  PROVE  ClaimInv'
<1>1. OneHolder'
  BY DEF ClaimInv, OneHolder, ActionsStay, Applying, Active, HoldsClaim
<1>2. AuthorsBeforeGate'
  BY DEF ClaimInv, AuthorsBeforeGate, ActionsStay, Applying, Active, BeforeGate
<1>3. LastRun'
  BY DEF ClaimInv, LastRun, ActionsStay, SharedTypeOK, ItemTypeOK
<1>4. RunIsActive' /\ ClaimIsOfRun'
  BY DEF ClaimInv, RunIsActive, ClaimIsOfRun, Active
<1> QED BY <1>1, <1>2, <1>3, <1>4, StayApart DEF ClaimInv

\* The run ends, or goes back.
LEMMA ClaimEnds ==
  ASSUME SharedTypeOK, ClaimInv, ActionsStay, UNCHANGED <<runs, tried>>,
         state' \notin {"executing", "actions-pending"}, attempt' = NoAttempt,
         run' = 0 \/ (run' = run /\ state' = "failed")
  PROVE  ClaimInv'
<1>1. OneHolder' /\ AuthorsBeforeGate'
  BY DEF OneHolder, AuthorsBeforeGate, Active
<1>2. LastRun'
  BY DEF ClaimInv, LastRun, ActionsStay, SharedTypeOK, ItemTypeOK
<1>3. RunIsActive' /\ ClaimIsOfRun'
  BY DEF RunIsActive, ClaimIsOfRun, Active
<1> QED BY <1>1, <1>2, <1>3, StayApart DEF ClaimInv

LEMMA TriedAreOld ==
  ASSUME ClaimInv
  PROVE  \A k \in tried : k[1] <= runs
BY DEF ClaimInv, LastRun

LEMMA ClaimInit == Init => ClaimInv
BY DEF Init, ClaimInv, AttemptsApart, RunsApart, OneHolder, AuthorsBeforeGate, LastRun, RunIsActive,
       ClaimIsOfRun, Applying, Active

\* The recovery, of whatever it was armed with, keeps the claim or ends the run.
LEMMA RecoveredClaim ==
  ASSUME SharedTypeOK, ClaimInv, ActionsStay, NEW r, NEW ph, RecoverInterruptedApply(r, ph),
         UNCHANGED RecoveryKeeps
  PROVE  ClaimInv'
<1>1. CASE state' = "failed" /\ attempt' = NoAttempt
  BY <1>1, ClaimEnds DEF RecoveryKeeps, providerVars
<1>2. CASE UNCHANGED <<state, phase, attempt>>
  BY <1>2, KeptClaim, TriedAreOld DEF RecoveryKeeps, providerVars
<1> QED BY <1>1, <1>2 DEF RecoverInterruptedApply

LEMMA FailedClaim ==
  ASSUME SharedTypeOK, ClaimInv, ActionsStay, NEW p \in Procs, NEW led, ApplySetFailed(p, led),
         UNCHANGED <<runs, tried>>
  PROVE  ClaimInv'
<1>1. CASE FailInTransaction
  BY <1>1, ClaimEnds DEF FailInTransaction, ClearClaim
<1>2. CASE UNCHANGED <<state, claimVars>>
  BY <1>2, KeptClaim, TriedAreOld DEF claimVars
<1> QED BY <1>1, <1>2 DEF ApplySetFailed

LEMMA ExecutionClaim ==
  ASSUME SharedTypeOK, ActionTypeOK, ActsForARun, ClaimInv, NEW p \in Procs, Execution(p)
  PROVE  ClaimInv'
<1>1. CASE ReadItem(p)
  <2>1. ActionsStay
    BY <1>1 DEF ReadItem, ActionTypeOK, ActionsStay, applyVars
  <2> QED BY <1>1, <2>1, KeptClaim, TriedAreOld DEF ReadItem, claimVars, providerVars
<1>2. CASE ClaimExecution(p)
  <2> USE <1>2 DEF ClaimExecution
  <2>1. AttemptsApart'
    BY DEF ActionTypeOK, ClaimInv, AttemptsApart, Applying
  <2>2. RunsApart' /\ OneHolder' /\ AuthorsBeforeGate'
    BY DEF ActionTypeOK, SharedTypeOK, ItemTypeOK, ClaimInv, RunsApart, OneHolder,
           AuthorsBeforeGate, BeforeGate, LastRun, Applying
  <2>3. LastRun' /\ RunIsActive' /\ ClaimIsOfRun'
    BY DEF ActionTypeOK, SharedTypeOK, ItemTypeOK, RecordTypeOK, ClaimInv, LastRun, RunIsActive,
           ClaimIsOfRun, Active, providerVars
  <2> QED BY <2>1, <2>2, <2>3 DEF ClaimInv
<1>3. CASE ClaimExecutionRefused(p) \/ MovedOn(p)
  BY <1>3, EndsStay, KeptClaim, TriedAreOld DEF ClaimExecutionRefused, MovedOn, claimVars, providerVars
<1>4. CASE SetActionsPending(p)
  <2> USE <1>4 DEF SetActionsPending
  <2>1. PICK v \in [Idx -> {"auto", "held", "refused"}] : Gated(v)
    OBVIOUS
  <2>2. CASE FailInTransaction
    BY <2>2, EndsStay, ClaimEnds DEF FailInTransaction, ClearClaim, providerVars
  <2>3. CASE ~FailInTransaction
    <3>1. /\ state' \in {"executing", "actions-pending"} /\ pending' = run
          /\ UNCHANGED <<run, runs, tried>> /\ attempt' = NoAttempt
      BY <2>1, <2>3 DEF Gated, BeforeGate, providerVars
    <3>2. ActionsStay /\ run = myRun[p] /\ pc[p] = "authoring" /\ attempt = NoAttempt
      BY EndsStay DEF BeforeGate
    <3>3. ASSUME NEW q \in Procs, pc'[q] \notin {"idle", "read"}
          PROVE  myRun'[q] # run
      <4>1. pc[q] \notin {"idle", "read"} /\ myRun'[q] = myRun[q] /\ q # p
        BY <3>2, <3>3 DEF ActionsStay, Applying, Ends, ActionTypeOK
      <4> QED BY <3>2, <4>1 DEF ClaimInv, RunsApart
    <3>4. OneHolder' /\ AuthorsBeforeGate'
      BY <3>1, <3>3 DEF OneHolder, AuthorsBeforeGate, Applying
    <3>5. LastRun' /\ RunIsActive' /\ ClaimIsOfRun'
      BY <3>1, <3>2 DEF SharedTypeOK, ItemTypeOK, ClaimInv, LastRun, RunIsActive, ClaimIsOfRun, Active,
                        ActionsStay, BeforeGate
    <3> QED BY <3>2, <3>4, <3>5, StayApart DEF ClaimInv
  <2> QED BY <2>2, <2>3
<1>5. CASE ResumeExecution(p)
  <2>1. state' \in {"plan-approved", "failed"} /\ attempt' = NoAttempt /\ run' = 0
    BY <1>5 DEF ResumeExecution, BeforeGate, FailInTransaction, ClearClaim
  <2> QED BY <1>5, <2>1, EndsStay, ClaimEnds DEF ResumeExecution, providerVars
<1>6. CASE ExecutionFails(p)
  BY <1>6, EndsStay, ClaimEnds DEF ExecutionFails, FailInTransaction, ClearClaim, providerVars
<1> QED BY <1>1, <1>2, <1>3, <1>4, <1>5, <1>6 DEF Execution

\* Only the set of the row's run can be claimed, and nobody acts for that run.
LEMMA ClaimableIsOfRun ==
  ASSUME DecidedInv, Claimable
  PROVE  RunKey = run /\ pending = run /\ run # 0 /\ Active
BY DEF Claimable, AutoPhase, RunKey, DecidedInv, PendingIsRun, Active

LEMMA NobodyActsForIt ==
  ASSUME ActionTypeOK, DecidedInv, ClaimInv, Claimable,
         NEW q \in Procs, pc[q] \notin {"idle", "read"}
  PROVE  myRun[q] # run
<1>1. pending = run /\ run # 0 /\ Active
  BY ClaimableIsOfRun
<1>2. pc[q] \in Applying \/ pc[q] = "authoring"
  BY DEF ActionTypeOK, Applying
<1>3. myRun[q] = run => (attempt \in AttemptIds /\ state = "executing") \/ BeforeGate(run)
  BY <1>1, <1>2 DEF ClaimInv, OneHolder, AttemptsApart, AuthorsBeforeGate, HoldsClaim
<1> QED BY <1>1, <1>3 DEF Claimable, AutoPhase, BeforeGate

LEMMA ClaimedClaim ==
  ASSUME SharedTypeOK, ActionTypeOK, ActsForARun, DecidedInv, ClaimInv, NEW p \in Procs,
         ClaimApprovedActions(p)
  PROVE  ClaimInv'
<1> USE DEF ClaimApprovedActions
<1>1. RunKey = run /\ pending = run /\ run # 0 /\ Active
  BY ClaimableIsOfRun
<1>2. \A q \in Procs : pc[q] \notin {"idle", "read"} => myRun[q] # run
  BY NobodyActsForIt
<1>3. AttemptsApart'
  BY DEF ActionTypeOK, ClaimInv, AttemptsApart, Applying
<1>4. myRun'[p] = run /\ pc'[p] = "apply" /\ myAttempt'[p] = attempt' /\ state' = "executing"
  BY <1>1 DEF ActionTypeOK
<1>5. \A q \in Procs \ {p} : pc'[q] = pc[q] /\ myRun'[q] = myRun[q]
  BY DEF ActionTypeOK
<1>6. RunsApart'
  BY <1>1, <1>2, <1>4, <1>5 DEF ClaimInv, RunsApart
<1>7. OneHolder' /\ AuthorsBeforeGate'
  BY <1>1, <1>2, <1>4, <1>5 DEF OneHolder, AuthorsBeforeGate, HoldsClaim, Applying
<1>8. LastRun' /\ RunIsActive' /\ ClaimIsOfRun'
  BY <1>1, <1>4, <1>5
     DEF SharedTypeOK, ItemTypeOK, ClaimInv, LastRun, RunIsActive, ClaimIsOfRun, Active, providerVars
<1> QED BY <1>3, <1>6, <1>7, <1>8 DEF ClaimInv

LEMMA ApplyClaim ==
  ASSUME SharedTypeOK, ActionTypeOK, ActsForARun, DecidedInv, ClaimInv, NEW p \in Procs, Apply(p)
  PROVE  ClaimInv'
<1>1. CASE ClaimApprovedActions(p)
  BY <1>1, ClaimedClaim
<1>2. CASE RefuseRow(p) \/ Authorise(p) \/ RecordApplyOutcome(p) \/ RecordUnsentAfterStop(p)
           \/ ApplyThrows(p)
  <2>1. ActionsStay
    BY <1>2 DEF RefuseRow, Authorise, Undecided, UpTo, RecordApplyOutcome, RecordUnsentAfterStop,
                ApplyThrows, ActionTypeOK, ActionsStay, Applying, applyVars
  <2> QED BY <1>2, <2>1, KeptClaim, TriedAreOld
       DEF RefuseRow, Authorise, RecordApplyOutcome, RecordUnsentAfterStop, ApplyThrows, claimVars,
           providerVars
<1>3. CASE Send(p)
  <2>1. ActionsStay
    BY <1>3 DEF Send, ActionTypeOK, ActionsStay, Applying
  <2>2. \A k \in tried' : k[1] <= runs
    BY <1>3 DEF Send, ClaimInv, LastRun
  <2> QED BY <1>3, <2>1, <2>2, KeptClaim DEF Send, claimVars
<1>4. CASE Recover(p)
  BY <1>4, EndsStay, RecoveredClaim DEF Recover
<1>5. CASE FinishFailed(p) \/ StopOnQuestion(p)
  BY <1>5, EndsStay, FailedClaim DEF FinishFailed, StopOnQuestion, providerVars
<1>6. CASE SetAwaitingApproval(p)
  <2> USE <1>6 DEF SetAwaitingApproval
  <2>1. ActionsStay
    BY EndsStay
  <2>2. CASE HoldsClaim(p) /\ run = myRun[p] /\ phase # "none"
    <3>1. /\ state' = "actions-pending" /\ attempt' = NoAttempt /\ state = "executing"
          /\ UNCHANGED <<run, runs, pending, tried>> /\ pc[p] \in Applying /\ pc'[p] = "idle"
      BY <2>2 DEF HoldsClaim, providerVars, Applying, Ends, ActionTypeOK
    <3>2. ASSUME NEW q \in Procs, pc'[q] \notin {"idle", "read"}
          PROVE  myRun'[q] # run
      <4>1. pc[q] \notin {"idle", "read"} /\ myRun'[q] = myRun[q] /\ q # p
        BY <2>1, <3>1, <3>2 DEF ActionsStay, Applying
      <4> QED BY <2>2, <3>1, <4>1 DEF ClaimInv, RunsApart, Applying
    <3>3. OneHolder' /\ AuthorsBeforeGate'
      BY <3>1, <3>2 DEF OneHolder, AuthorsBeforeGate, Applying
    <3>4. attempt # NoAttempt
      BY <2>2, <3>1 DEF ClaimInv, AttemptsApart, HoldsClaim
    <3>5. LastRun' /\ RunIsActive' /\ ClaimIsOfRun'
      BY <2>1, <3>1, <3>4 DEF SharedTypeOK, ItemTypeOK, ClaimInv, LastRun, RunIsActive, ClaimIsOfRun,
                             Active, ActionsStay
    <3> QED BY <2>1, <3>3, <3>5, StayApart DEF ClaimInv
  <2>3. CASE ~(HoldsClaim(p) /\ run = myRun[p] /\ phase # "none")
    BY <2>1, <2>3, KeptClaim, TriedAreOld DEF providerVars
  <2> QED BY <2>2, <2>3
<1>7. CASE SetCompleted(p)
  <2> USE <1>7 DEF SetCompleted
  <2>1. CASE state = "executing" /\ run = myRun[p]
    BY <2>1, EndsStay, ClaimEnds DEF ClearClaim, providerVars
  <2>2. CASE ~(state = "executing" /\ run = myRun[p])
    <3>1. ActionsStay
      BY <2>2 DEF ActionTypeOK, ActionsStay, Applying, applyVars
    <3> QED BY <2>2, <3>1, KeptClaim, TriedAreOld DEF claimVars, providerVars
  <2> QED BY <2>1, <2>2
<1> QED BY <1>1, <1>2, <1>3, <1>4, <1>5, <1>6, <1>7 DEF Apply

LEMMA SchedulerClaim ==
  ASSUME SharedTypeOK, ClaimInv, Scheduler
  PROVE  ClaimInv'
<1>1. CASE ClaimRefused \/ ResumeHeldApplies
  BY <1>1, KeptStay, KeptClaim, TriedAreOld DEF ClaimRefused, ResumeHeldApplies, claimVars, providerVars
<1>2. CASE ParkOnConnection \/ SweepStalled
  BY <1>2, KeptStay, ClaimEnds
     DEF ParkOnConnection, SweepStalled, FailInTransaction, ClearClaim, providerVars
<1>3. CASE FireSwitch
  BY <1>3, KeptStay, RecoveredClaim DEF FireSwitch
<1> QED BY <1>1, <1>2, <1>3 DEF Scheduler

LEMMA ManagerClaim ==
  ASSUME SharedTypeOK, ClaimInv, Manager
  PROVE  ClaimInv'
<1>1. CASE (\E r \in Runs, S \in SUBSET Idx : ApproveActions(r, S)) \/ ReconcileFailed \/ SetPaused
  BY <1>1, KeptStay, KeptClaim, TriedAreOld
     DEF ApproveActions, ReconcileFailed, SetPaused, claimVars, providerVars
<1>2. CASE (\E r \in Runs : RejectActions(r)) \/ StopRun \/ RetryFailed
  BY <1>2, KeptStay, ClaimEnds
     DEF RejectActions, StopRun, RetryFailed, FailInTransaction, ClearClaim, providerVars
<1>3. CASE PlanAgain
  <2>1. run = 0 /\ attempt = NoAttempt
    BY <1>3 DEF PlanAgain, ClaimInv, RunIsActive, ClaimIsOfRun, Active
  <2> QED BY <1>3, <2>1, KeptStay, ClaimEnds DEF PlanAgain, claimVars, providerVars
<1> QED BY <1>1, <1>2, <1>3 DEF Manager

LEMMA ClaimStep == TypeInv /\ DecidedInv /\ ClaimInv /\ [Next]_vars => ClaimInv'
<1> SUFFICES ASSUME SharedTypeOK, ActionTypeOK, ActsForARun, DecidedInv, ClaimInv, [Next]_vars
             PROVE  ClaimInv'
  BY DEF TypeInv, TypeOK, SharedTypeOK
<1>1. ASSUME NEW p \in Procs, Execution(p) \/ Apply(p)
      PROVE  ClaimInv'
  BY <1>1, ExecutionClaim, ApplyClaim
<1>2. ASSUME NEW p \in Procs, Crash(p)
      PROVE  ClaimInv'
  BY <1>2, EndsStay, KeptClaim, TriedAreOld DEF Crash, claimVars, providerVars
<1>3. CASE Scheduler \/ Manager
  BY <1>3, SchedulerClaim, ManagerClaim
<1>4. CASE UNCHANGED vars
  BY <1>4, KeptStay, KeptClaim, TriedAreOld DEF vars, claimVars, providerVars
<1> QED BY <1>1, <1>2, <1>3, <1>4 DEF Next

-----------------------------------------------------------------------------
(* What was tried. *)

Reporting == {"apply", "sending", "finish", "lost"}

\* An apply's rows stay, or are settled.
RowsStay ==
  \A q \in Procs : pc'[q] \in Reporting =>
    /\ pc[q] \in Reporting /\ myRun'[q] = myRun[q]
    /\ \A i \in Idx : myLedger'[q][i] = myLedger[q][i] \/ myLedger'[q][i].st \notin NotTried

LEMMA EndsRows ==
  ASSUME ActionTypeOK, NEW p \in Procs, Ends(p)
  PROVE  RowsStay
BY DEF ActionTypeOK, Ends, RowsStay, Reporting

LEMMA KeptRows ==
  ASSUME UNCHANGED procVars
  PROVE  RowsStay
BY DEF procVars, applyVars, RowsStay

LEMMA RowsUntriedStay ==
  ASSUME OnceInv, RowsStay, UNCHANGED tried
  PROVE  RowsUntried'
BY DEF OnceInv, RowsUntried, RowsStay, Reporting

LEMMA KeptOnce ==
  ASSUME OnceInv, RowsStay, UNCHANGED <<state, run, attempt, ledger, tried>>
  PROVE  OnceInv'
BY RowsUntriedStay DEF OnceInv, FreshRunUntried, HeldRunUntried

LEMMA EndedOnce ==
  ASSUME OnceInv, RowsStay, UNCHANGED tried, state' \notin {"executing", "actions-pending"}
  PROVE  OnceInv'
BY RowsUntriedStay DEF OnceInv, FreshRunUntried, HeldRunUntried

LEMMA OnceInit == Init => OnceInv
BY DEF Init, OnceInv, FreshRunUntried, HeldRunUntried, RowsUntried

LEMMA RecoveredOnce ==
  ASSUME OnceInv, RowsStay, NEW r, NEW ph, RecoverInterruptedApply(r, ph), UNCHANGED RecoveryKeeps
  PROVE  OnceInv'
<1>1. CASE state' = "failed"
  BY <1>1, EndedOnce DEF RecoveryKeeps, providerVars
<1>2. CASE UNCHANGED <<state, attempt, ledger>>
  BY <1>2, KeptOnce DEF RecoveryKeeps, providerVars
<1> QED BY <1>1, <1>2 DEF RecoverInterruptedApply

LEMMA FailedOnce ==
  ASSUME OnceInv, RowsStay, NEW p \in Procs, NEW led, ApplySetFailed(p, led), UNCHANGED tried
  PROVE  OnceInv'
<1>1. CASE state' = "failed"
  BY <1>1, EndedOnce
<1>2. CASE UNCHANGED <<state, claimVars, ledger>>
  BY <1>2, KeptOnce DEF claimVars
<1> QED BY <1>1, <1>2 DEF ApplySetFailed, FailInTransaction

LEMMA ExecutionOnce ==
  ASSUME SharedTypeOK, ActionTypeOK, ActsForARun, ClaimInv, OnceInv, NEW p \in Procs, Execution(p)
  PROVE  OnceInv'
<1>1. CASE ReadItem(p)
  <2>1. RowsStay
    BY <1>1 DEF ReadItem, ActionTypeOK, RowsStay, Reporting, applyVars
  <2> QED BY <1>1, <2>1, KeptOnce DEF ReadItem, claimVars, outputVars, providerVars
<1>2. CASE ClaimExecution(p)
  <2> USE <1>2 DEF ClaimExecution
  <2>1. RowsStay
    BY DEF ActionTypeOK, RowsStay, Reporting
  <2>2. \A k \in tried : k[1] # run'
    BY TriedAreOld DEF SharedTypeOK, ItemTypeOK, RecordTypeOK
  <2>3. FreshRunUntried' /\ HeldRunUntried'
    BY <2>2 DEF FreshRunUntried, HeldRunUntried, providerVars
  <2> QED BY <2>1, <2>3, RowsUntriedStay DEF OnceInv, providerVars
<1>3. CASE ClaimExecutionRefused(p) \/ MovedOn(p)
  BY <1>3, EndsRows, KeptOnce DEF ClaimExecutionRefused, MovedOn, claimVars, outputVars, providerVars
<1>4. CASE SetActionsPending(p)
  <2> USE <1>4 DEF SetActionsPending
  <2>1. PICK v \in [Idx -> {"auto", "held", "refused"}] : Gated(v)
    OBVIOUS
  <2>2. \A i \in Idx : <<run, i>> \notin tried
    BY DEF BeforeGate, OnceInv, FreshRunUntried
  <2>3. state' = "failed" \/ UNCHANGED run
    BY <2>1 DEF Gated, FailInTransaction
  <2>4. FreshRunUntried' /\ HeldRunUntried'
    BY <2>2, <2>3 DEF FreshRunUntried, HeldRunUntried, providerVars
  <2> QED BY <2>4, EndsRows, RowsUntriedStay DEF OnceInv, providerVars
<1>5. CASE ResumeExecution(p) \/ ExecutionFails(p)
  <2>1. state' \in {"plan-approved", "failed"}
    BY <1>5 DEF ResumeExecution, ExecutionFails, FailInTransaction
  <2> QED BY <1>5, <2>1, EndsRows, EndedOnce DEF ResumeExecution, ExecutionFails, providerVars
<1> QED BY <1>1, <1>2, <1>3, <1>4, <1>5 DEF Execution

\* A row the claim leaves open was not tried by the apply before.
LEMMA ClaimedRowUntried ==
  ASSUME OutputTypeOK, DecidedInv, OnceInv, Claimable, NEW i \in Idx, ClaimedLedger[i].st \in NotTried
  PROVE  <<RunKey, i>> \notin tried
<1>1. RunKey = run
  BY DEF Claimable, AutoPhase, RunKey, DecidedInv, PendingIsRun
<1>2. CASE AutoPhase
  BY <1>1, <1>2 DEF AutoPhase, OnceInv, FreshRunUntried
<1>3. CASE ~AutoPhase
  <2>1. ledger[i].st \in {"none", "awaiting"} \/ PriorRow(i) = ledger[i]
    BY <1>3 DEF PriorRow
  <2>2. ledger[i].st \in NotTried
    BY <2>1 DEF ClaimedLedger, NotTried, Row, Blank
  <2> QED BY <1>1, <1>3, <2>2 DEF Claimable, OnceInv, HeldRunUntried
<1> QED BY <1>2, <1>3

\* A send is of the claim's holder, or of a run the row has left.
LEMMA SendOnce ==
  ASSUME ActionTypeOK, ActsForARun, ClaimInv, OnceInv, NEW p \in Procs, Send(p)
  PROVE  OnceInv'
<1> USE DEF Send
<1>1. PICK st \in {"landed", "failed", "unknown"} : Decide(p, st)
  OBVIOUS
<1>2. myRow[p] \in Idx
  BY DEF ActsForARun
<1>3. Active /\ myRun[p] = run => state = "executing" /\ attempt # NoAttempt
  BY DEF ClaimInv, OneHolder, AttemptsApart, HoldsClaim, Applying
<1>4. FreshRunUntried' /\ HeldRunUntried'
  BY <1>3 DEF OnceInv, FreshRunUntried, HeldRunUntried, claimVars, outputVars, Active
<1>5. ASSUME NEW q \in Procs, pc'[q] \in Reporting, NEW i \in Idx, myLedger'[q][i].st \in NotTried
      PROVE  <<myRun[q], i>> \notin tried'
  <2>1. CASE q = p
    <3>1. i # myRow[p] /\ myLedger[p][i].st \in NotTried
      BY <1>1, <1>2, <1>5, <2>1 DEF Decide, Row, NotTried, ActionTypeOK
    <3> QED BY <2>1, <3>1 DEF OnceInv, RowsUntried
  <2>2. CASE q # p
    <3>1. pc[q] \in Reporting /\ myLedger[q][i].st \in NotTried
      BY <1>1, <1>5, <2>2 DEF Decide, ActionTypeOK
    <3>2. myRun[q] # myRun[p]
      BY <2>2, <3>1 DEF ClaimInv, RunsApart, Reporting
    <3> QED BY <3>1, <3>2 DEF OnceInv, RowsUntried, Reporting
  <2> QED BY <2>1, <2>2
<1> QED BY <1>4, <1>5 DEF OnceInv, RowsUntried, Reporting

LEMMA ApplyOnce ==
  ASSUME SharedTypeOK, ActionTypeOK, ActsForARun, DecidedInv, ClaimInv, OnceInv, NEW p \in Procs,
         Apply(p)
  PROVE  OnceInv'
<1>1. CASE ClaimApprovedActions(p)
  <2> USE <1>1 DEF ClaimApprovedActions
  <2>1. FreshRunUntried' /\ HeldRunUntried'
    BY DEF FreshRunUntried, HeldRunUntried
  <2>2. RowsUntried'
    <3>1. \A i \in Idx : ClaimedLedger[i].st \in NotTried => <<RunKey, i>> \notin tried'
      BY ClaimedRowUntried DEF SharedTypeOK, providerVars
    <3>2. myRun'[p] = RunKey /\ myLedger'[p] = ClaimedLedger
      BY DEF ActionTypeOK
    <3> QED BY <3>1, <3>2 DEF ActionTypeOK, OnceInv, RowsUntried, providerVars
  <2> QED BY <2>1, <2>2 DEF OnceInv
<1>2. CASE RefuseRow(p) \/ Authorise(p) \/ RecordApplyOutcome(p) \/ ApplyThrows(p)
  <2>1. ASSUME RefuseRow(p) \/ Authorise(p)
        PROVE  RowsStay
    <3>1. ASSUME NEW st \in {"failed", "held"}, Decide(p, st), myRow[p] \in Idx,
                 UNCHANGED <<pc, myRun>>
          PROVE  RowsStay
      BY <3>1 DEF Decide, Row, ActionTypeOK, RowsStay, NotTried
    <3>2. ASSUME HoldsClaim(p), Authorise(p)
          PROVE  RowsStay
      BY <3>2 DEF Authorise, Undecided, UpTo, ActionTypeOK, RowsStay, Reporting
    <3> QED BY <2>1, <3>1, <3>2 DEF RefuseRow, Authorise, Undecided, UpTo
  <2>2. ASSUME RecordApplyOutcome(p) \/ ApplyThrows(p)
        PROVE  RowsStay
    BY <2>2 DEF RecordApplyOutcome, ApplyThrows, UpTo, ActionTypeOK, RowsStay, Reporting, applyVars
  <2> QED BY <1>2, <2>1, <2>2, KeptOnce
       DEF RefuseRow, Authorise, RecordApplyOutcome, ApplyThrows, claimVars, outputVars, providerVars
<1>3. CASE Send(p)
  BY <1>3, SendOnce
<1>4. CASE RecordUnsentAfterStop(p)
  <2>1. RowsStay
    BY <1>4 DEF RecordUnsentAfterStop, ActionTypeOK, RowsStay, Reporting, applyVars
  <2>2. CASE state = "failed"
    BY <1>4, <2>1, <2>2, EndedOnce DEF RecordUnsentAfterStop, providerVars
  <2>3. CASE state # "failed"
    BY <1>4, <2>1, <2>3, KeptOnce DEF RecordUnsentAfterStop, claimVars, providerVars
  <2> QED BY <2>2, <2>3
<1>5. CASE Recover(p)
  BY <1>5, EndsRows, RecoveredOnce DEF Recover
<1>6. CASE FinishFailed(p) \/ StopOnQuestion(p)
  BY <1>6, EndsRows, FailedOnce DEF FinishFailed, StopOnQuestion, providerVars
<1>7. CASE SetAwaitingApproval(p)
  <2> USE <1>7 DEF SetAwaitingApproval
  <2>1. CASE HoldsClaim(p) /\ run = myRun[p] /\ phase # "none"
    <3>1. FreshRunUntried' /\ HeldRunUntried'
      BY <2>1 DEF OnceInv, RowsUntried, FreshRunUntried, HeldRunUntried, providerVars
    <3> QED BY <3>1, EndsRows, RowsUntriedStay DEF OnceInv, providerVars
  <2>2. CASE ~(HoldsClaim(p) /\ run = myRun[p] /\ phase # "none")
    BY <2>2, EndsRows, KeptOnce DEF providerVars
  <2> QED BY <2>1, <2>2
<1>8. CASE SetCompleted(p)
  <2> USE <1>8 DEF SetCompleted
  <2>1. CASE state = "executing" /\ run = myRun[p]
    BY <2>1, EndsRows, EndedOnce DEF providerVars
  <2>2. CASE ~(state = "executing" /\ run = myRun[p])
    <3>1. RowsStay
      BY <2>2 DEF ActionTypeOK, RowsStay, Reporting, applyVars
    <3> QED BY <2>2, <3>1, KeptOnce DEF claimVars, providerVars
  <2> QED BY <2>1, <2>2
<1> QED BY <1>1, <1>2, <1>3, <1>4, <1>5, <1>6, <1>7, <1>8 DEF Apply

LEMMA SchedulerOnce ==
  ASSUME OnceInv, Scheduler
  PROVE  OnceInv'
<1>1. CASE ClaimRefused \/ ResumeHeldApplies
  BY <1>1, KeptRows, KeptOnce DEF ClaimRefused, ResumeHeldApplies, claimVars, outputVars, providerVars
<1>2. CASE ParkOnConnection \/ SweepStalled
  BY <1>2, KeptRows, EndedOnce DEF ParkOnConnection, SweepStalled, FailInTransaction, providerVars
<1>3. CASE FireSwitch
  BY <1>3, KeptRows, RecoveredOnce DEF FireSwitch
<1> QED BY <1>1, <1>2, <1>3 DEF Scheduler

LEMMA ManagerOnce ==
  ASSUME OnceInv, Manager
  PROVE  OnceInv'
<1>1. CASE (\E r \in Runs, S \in SUBSET Idx : ApproveActions(r, S)) \/ ReconcileFailed \/ SetPaused
  <2>1. CASE \E r \in Runs, S \in SUBSET Idx : ApproveActions(r, S)
    BY <2>1, KeptRows, KeptOnce DEF ApproveActions, outputVars, providerVars
  <2>2. CASE ReconcileFailed
    BY <2>2, KeptRows, KeptOnce DEF ReconcileFailed, claimVars, outputVars, providerVars
  <2>3. CASE SetPaused
    BY <2>3, KeptRows, KeptOnce DEF SetPaused, claimVars, outputVars, providerVars
  <2> QED BY <1>1, <2>1, <2>2, <2>3
<1>2. CASE (\E r \in Runs : RejectActions(r)) \/ StopRun \/ RetryFailed \/ PlanAgain
  BY <1>2, KeptRows, EndedOnce
     DEF RejectActions, StopRun, RetryFailed, PlanAgain, FailInTransaction, providerVars
<1> QED BY <1>1, <1>2 DEF Manager

LEMMA OnceStep == TypeInv /\ DecidedInv /\ ClaimInv /\ OnceInv /\ [Next]_vars => OnceInv'
<1> SUFFICES ASSUME SharedTypeOK, ActionTypeOK, ActsForARun, DecidedInv, ClaimInv, OnceInv, [Next]_vars
             PROVE  OnceInv'
  BY DEF TypeInv, TypeOK, SharedTypeOK
<1>1. ASSUME NEW p \in Procs, Execution(p) \/ Apply(p)
      PROVE  OnceInv'
  BY <1>1, ExecutionOnce, ApplyOnce
<1>2. ASSUME NEW p \in Procs, Crash(p)
      PROVE  OnceInv'
  BY <1>2, EndsRows, KeptOnce DEF Crash, claimVars, outputVars, providerVars
<1>3. CASE Scheduler \/ Manager
  BY <1>3, SchedulerOnce, ManagerOnce
<1>4. CASE UNCHANGED vars
  BY <1>4, KeptRows, KeptOnce DEF vars, claimVars, outputVars, providerVars
<1> QED BY <1>1, <1>2, <1>3, <1>4 DEF Next

\* Whichever job, switch or sweep starts an apply, and however many die: a write
\* that is about to go out has not gone out under its idempotency key before,
\* and no other Node action is about to send it.
THEOREM SentOnce == Spec => []KeySentOnce
<1>1. TypeInv /\ DecidedInv /\ ClaimInv /\ OnceInv => KeySentOnce
  BY DEF TypeInv, ActsForARun, DecidedInv, SendsBlank, ClaimInv, RunsApart, OnceInv, RowsUntried,
         NotTried, KeySentOnce
<1> QED BY TypeInit, TypeStep, DecidedInit, DecidedStep, ClaimInit, ClaimStep, OnceInit, OnceStep,
           <1>1, PTL DEF Spec

=============================================================================

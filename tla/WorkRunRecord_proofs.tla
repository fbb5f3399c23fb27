------------------------ MODULE WorkRunRecord_proofs ------------------------
(***************************************************************************)
(* What WorkRun records of its writes is true: a row recorded landed is on *)
(* the provider, a write carried into a later run is there or the manager  *)
(* said so, a row recorded as not sent stays not sent, and a completed     *)
(* item rests on the provider.                                             *)
(***************************************************************************)
EXTENDS WorkRun_proofs

\* A write is on the provider, or the manager said so.
Known(r, i) == r \in landed[i] \/ <<r, i>> \in saidLanded
KnownKeys(S) == \A k \in S : Known(k[1], k[2])

TrueRow(row, i) ==
  /\ row.st = "landed" => row.key \in landed[i]
  /\ row.st = "reused" => Known(row.key, i)

\* Every row recorded or reported as landed says the truth.
TrueRows ==
  \A i \in Idx : /\ TrueRow(ledger[i], i) /\ TrueRow(progress[i], i)
                 /\ \A p \in Procs : TrueRow(myLedger[p][i], i)
TrueSnaps == \A p \in Procs : KnownKeys(snapCarried[p])
LandedWasTried == \A i \in Idx : \A r \in landed[i] : <<r, i>> \in tried

\* An answer names the write its row stands for.
AnswersKept ==
  \A i \in Idx : /\ answers[i] = "landed" => RowKey(i) \in saidLanded
                 /\ answers[i] = "notSent" => RowKey(i) \in told
                 /\ answers[i] # "none" => reconciled

TrueInv == LandedWasTried /\ TrueRows /\ KnownKeys(carried) /\ TrueSnaps /\ AnswersKept

USE NAssumption, RunsAssumption, ResumesAssumption, AttemptsAssumption DEF Idx, Runs, Keys

-----------------------------------------------------------------------------
(* What is recorded as landed. *)

\* A row after a step is a row from before it, or claims nothing landed.
OldRow(row, i) ==
  \/ row.st \notin LandedStatuses
  \/ row \in {ledger[i], progress[i]}
  \/ \E q \in Procs : row = myLedger[q][i]

ItemRowsCarryOver == \A i \in Idx : OldRow(ledger'[i], i) /\ OldRow(progress'[i], i)
MyRowsCarryOver == \A q \in Procs : \A i \in Idx : OldRow(myLedger'[q][i], i)
SnapsCarryOver == \A q \in Procs : snapCarried'[q] \subseteq snapCarried[q]

LEMMA TrueStays ==
  ASSUME TrueInv, UNCHANGED providerVars, saidLanded \subseteq saidLanded',
         ItemRowsCarryOver, MyRowsCarryOver,
         KnownKeys(carried'), \A q \in Procs : KnownKeys(snapCarried'[q]), AnswersKept'
  PROVE  TrueInv'
<1>1. TrueRows'
  <2>1. ASSUME NEW i \in Idx, NEW row, OldRow(row, i)
        PROVE  TrueRow(row, i)'
    <3>1. TrueRow(row, i)
      BY <2>1 DEF OldRow, TrueInv, TrueRows, TrueRow, LandedStatuses
    <3> QED BY <3>1 DEF TrueRow, Known, providerVars
  <2>2. \A i \in Idx : TrueRow(ledger[i], i)' /\ TrueRow(progress[i], i)'
    BY <2>1 DEF ItemRowsCarryOver, TrueRow, Known
  <2>3. \A i \in Idx : \A q \in Procs : TrueRow(myLedger[q][i], i)'
    BY <2>1 DEF MyRowsCarryOver, TrueRow, Known
  <2> QED BY <2>2, <2>3 DEF TrueRows
<1>2. KnownKeys(carried)' /\ TrueSnaps'
  BY DEF KnownKeys, Known, TrueSnaps, providerVars
<1>3. LandedWasTried'
  BY DEF TrueInv, LandedWasTried, providerVars
<1> QED BY <1>1, <1>2, <1>3 DEF TrueInv

LEMMA EndsCarryOver ==
  ASSUME ActionTypeOK, NEW p \in Procs, Ends(p)
  PROVE  MyRowsCarryOver /\ SnapsCarryOver
<1>1. \A q \in Procs \ {p} : myLedger'[q] = myLedger[q] /\ snapCarried'[q] = snapCarried[q]
  BY DEF ActionTypeOK, Ends
<1>2. myLedger'[p] = NoRows /\ snapCarried'[p] = {}
  BY DEF ActionTypeOK, Ends
<1> QED BY <1>1, <1>2
     DEF MyRowsCarryOver, OldRow, SnapsCarryOver, NoRows, Blank, Row, LandedStatuses

LEMMA KeptCarryOver ==
  ASSUME UNCHANGED <<myLedger, snapCarried>>
  PROVE  MyRowsCarryOver /\ SnapsCarryOver
BY DEF MyRowsCarryOver, OldRow, SnapsCarryOver

LEMMA KeptItemRows ==
  ASSUME UNCHANGED <<ledger, progress>>
  PROVE  ItemRowsCarryOver
BY DEF ItemRowsCarryOver, OldRow

\* A row reused from what the run carries, and what a retry would carry.
LEMMA ReusedKnown ==
  ASSUME KnownKeys(carried), NEW i \in Idx, Reused(i).st = "reused"
  PROVE  Known(Reused(i).key, i) /\ <<Reused(i).key, i>> \in carried \ unsent
<1> DEFINE sources == {r \in Runs : <<r, i>> \in carried \ unsent}
           oldest == {r \in sources : \A s \in sources : r <= s}
<1>1. oldest # {}
  BY DEF Reused, Blank, Row
<1>2. (CHOOSE r \in oldest : TRUE) \in oldest
  BY <1>1
<1>3. Reused(i).key = (CHOOSE r \in oldest : TRUE)
  BY <1>1 DEF Reused, Row
<1>4. <<Reused(i).key, i>> \in carried \ unsent
  BY <1>2, <1>3
<1> QED BY <1>4 DEF KnownKeys

LEMMA ReusedStatus ==
  ASSUME NEW i \in Idx
  PROVE  Reused(i) = Blank \/ Reused(i).st = "reused"
BY DEF Reused, Row

LEMMA LandedWritesKnown ==
  ASSUME TrueInv, NEW a, \A i \in Idx : a[i] = "landed" => Known(ledger[i].key, i)
  PROVE  KnownKeys(LandedWrites(a))
<1>1. \A i \in Idx : ledger[i].st \in LandedStatuses => Known(ledger[i].key, i)
  BY DEF TrueInv, TrueRows, TrueRow, Known, LandedStatuses
<1> SUFFICES ASSUME NEW k \in LandedWrites(a)
             PROVE  Known(k[1], k[2])
  BY DEF KnownKeys
<1>2. CASE k \in carried
  BY <1>2 DEF TrueInv, KnownKeys
<1>3. CASE \E i \in Idx : k = <<ledger[i].key, i>> /\ (a[i] = "landed" \/ ledger[i].st \in LandedStatuses)
  BY <1>1, <1>3
<1> QED BY <1>2, <1>3 DEF LandedWrites, RowKey

LEMMA NoAnswersKnown == TrueInv => KnownKeys(LandedWrites(NoAnswers))
BY LandedWritesKnown DEF NoAnswers

LEMMA RetryAnswersKnown == TrueInv => KnownKeys(LandedWrites(RetryAnswers))
<1> SUFFICES ASSUME TrueInv, NEW i \in Idx, RetryAnswers[i] = "landed"
             PROVE  Known(ledger[i].key, i)
  BY LandedWritesKnown
<1>1. answers[i] = "landed" \/ ledger[i].st \in LandedStatuses
  BY DEF RetryAnswers
<1> QED BY <1>1 DEF TrueInv, AnswersKept, RowKey, TrueRows, TrueRow, Known, LandedStatuses

\* An item that is not ended carries no answers.
LEMMA AnswersStay ==
  ASSUME TrueInv, UNCHANGED <<answers, reconciled>>, told \subseteq told', saidLanded \subseteq saidLanded',
         ledger' = ledger \/ (SharedTypeOK /\ state \notin {"failed", "completed"})
  PROVE  AnswersKept'
<1>1. CASE ledger' = ledger
  BY <1>1 DEF TrueInv, AnswersKept, RowKey
<1>2. CASE SharedTypeOK /\ state \notin {"failed", "completed"}
  <2>1. \A i \in Idx : answers[i] = "none"
    BY <1>2 DEF SharedTypeOK, AnswersNameRows
  <2> QED BY <2>1 DEF AnswersKept
<1> QED BY <1>1, <1>2

\* The common case: no send, no claim of a set, nothing new carried.
LEMMA TrueKept ==
  ASSUME TrueInv, UNCHANGED <<providerVars, carried, answers, reconciled, told, saidLanded>>,
         ItemRowsCarryOver, MyRowsCarryOver, SnapsCarryOver,
         ledger' = ledger \/ (SharedTypeOK /\ state \notin {"failed", "completed"})
  PROVE  TrueInv'
<1>1. KnownKeys(carried') /\ \A q \in Procs : KnownKeys(snapCarried'[q])
  BY DEF TrueInv, TrueSnaps, KnownKeys, SnapsCarryOver
<1> QED BY <1>1, TrueStays, AnswersStay

LEMMA TrueInit == Init => TrueInv
BY DEF Init, TrueInv, LandedWasTried, TrueRows, TrueRow, KnownKeys, TrueSnaps, AnswersKept, NoRows,
       NoAnswers, Blank, Row

\* The ledger of an apply that was claimed and did not finish.
LEMMA InterruptedCarryOver ==
  ASSUME NEW unknown \in UnknownStatuses, ledger' = InterruptedLedger(unknown), progress' = NoRows
  PROVE  ItemRowsCarryOver
BY DEF ItemRowsCarryOver, OldRow, InterruptedLedger, NoRows, Blank, Row, UnknownStatuses, LandedStatuses

LEMMA SettledCarryOver ==
  ASSUME NEW i \in Idx, NEW led \in [Idx -> Rows]
  PROVE  Settled(led)[i] = led[i] \/ Settled(led)[i].st = "held"
BY DEF Settled, Rows, Row, Blank

LEMMA FailedTrue ==
  ASSUME SharedTypeOK, TrueInv, MyRowsCarryOver, SnapsCarryOver, NEW p \in Procs, NEW led \in [Idx -> Rows],
         led = myLedger[p] \/ led = Settled(myLedger[p]), ActionTypeOK, ApplySetFailed(p, led),
         UNCHANGED <<providerVars, carried, answers, reconciled, told, saidLanded>>
  PROVE  TrueInv'
<1>1. CASE UNCHANGED <<ledger, progress>>
  BY <1>1, KeptItemRows, TrueKept
<1>2. CASE ledger' = led /\ progress' = NoRows /\ state \notin {"completed", "failed"}
  <2>1. \A i \in Idx : led[i] = myLedger[p][i] \/ led[i].st = "held"
    BY SettledCarryOver DEF ActionTypeOK
  <2>2. ItemRowsCarryOver
    BY <1>2, <2>1 DEF ItemRowsCarryOver, OldRow, NoRows, Blank, Row, LandedStatuses
  <2> QED BY <1>2, <2>2, TrueKept
<1> QED BY <1>1, <1>2 DEF ApplySetFailed

LEMMA RecoveredTrue ==
  ASSUME SharedTypeOK, TrueInv, MyRowsCarryOver, SnapsCarryOver, NEW r, NEW ph,
         RecoverInterruptedApply(r, ph), UNCHANGED RecoveryKeeps
  PROVE  TrueInv'
<1>1. CASE UNCHANGED <<ledger, progress>>
  BY <1>1, KeptItemRows, TrueKept DEF RecoveryKeeps, wordVars
<1>2. CASE state = "executing" /\ ledger' = InterruptedLedger("unknown") /\ progress' = NoRows
  BY <1>2, InterruptedCarryOver, TrueKept DEF RecoveryKeeps, wordVars, UnknownStatuses
<1> QED BY <1>1, <1>2 DEF RecoverInterruptedApply

LEMMA ExecutionTrue ==
  ASSUME SharedTypeOK, ActionTypeOK, TrueInv, NEW p \in Procs, Execution(p)
  PROVE  TrueInv'
<1>1. CASE ReadItem(p)
  <2> USE <1>1 DEF ReadItem
  <2>1. ItemRowsCarryOver /\ MyRowsCarryOver
    BY KeptItemRows DEF outputVars, applyVars, MyRowsCarryOver, OldRow
  <2>2. \A q \in Procs : KnownKeys(snapCarried'[q])
    BY NoAnswersKnown DEF ActionTypeOK, TrueInv, TrueSnaps
  <2>3. KnownKeys(carried') /\ AnswersKept'
    BY AnswersStay DEF TrueInv, outputVars, answerVars, wordVars
  <2> QED BY <2>1, <2>2, <2>3, TrueStays DEF wordVars
<1>2. CASE ClaimExecution(p)
  BY <1>2, KeptItemRows, KeptCarryOver, TrueKept DEF ClaimExecution, outputVars, answerVars, snapVars
<1>3. CASE ClaimExecutionRefused(p) \/ MovedOn(p)
  BY <1>3, EndsCarryOver, KeptItemRows, TrueKept
     DEF ClaimExecutionRefused, MovedOn, outputVars, answerVars, wordVars
<1>4. ASSUME KeepDraft(p), Ends(p), UNCHANGED <<providerVars, answerVars, told, saidLanded>>,
             state = "executing"
      PROVE  TrueInv'
  <2>1. ItemRowsCarryOver
    BY <1>4 DEF KeepDraft, ItemRowsCarryOver, OldRow, NoRows, Blank, Row, LandedStatuses
  <2>2. KnownKeys(carried') /\ \A q \in Procs : KnownKeys(snapCarried'[q])
    BY <1>4, EndsCarryOver DEF KeepDraft, TrueInv, TrueSnaps, KnownKeys, SnapsCarryOver
  <2>3. AnswersKept'
    BY <1>4, AnswersStay DEF answerVars
  <2> QED BY <1>4, <2>1, <2>2, <2>3, EndsCarryOver, TrueStays
<1>5. CASE SetActionsPending(p)
  BY <1>4, <1>5 DEF SetActionsPending, BeforeGate
<1>6. CASE ResumeExecution(p)
  BY <1>6, EndsCarryOver, KeptItemRows, TrueKept DEF ResumeExecution, outputVars, answerVars, wordVars
<1>7. CASE ExecutionFails(p)
  <2>1. CASE KeepDraft(p)
    BY <1>4, <1>7, <2>1 DEF ExecutionFails, wordVars
  <2>2. CASE UNCHANGED outputVars
    BY <1>7, <2>2, EndsCarryOver, KeptItemRows, TrueKept
       DEF ExecutionFails, outputVars, answerVars, wordVars
  <2> QED BY <1>7, <2>1, <2>2 DEF ExecutionFails
<1> QED BY <1>1, <1>2, <1>3, <1>5, <1>6, <1>7 DEF Execution

\* A claim adds the rows reused from what the run carries.
LEMMA ClaimedTrue ==
  ASSUME SharedTypeOK, ActionTypeOK, TrueInv, NEW p \in Procs, ClaimApprovedActions(p)
  PROVE  TrueInv'
<1>1. ASSUME NEW i \in Idx
      PROVE  TrueRow(ClaimedLedger[i], i)
  <2>1. TrueRow(ledger[i], i)
    BY DEF TrueInv, TrueRows
  <2>2. TrueRow(Reused(i), i)
    <3>1. CASE Reused(i) = Blank
      BY <3>1 DEF TrueRow, Blank, Row
    <3>2. CASE Reused(i).st = "reused"
      <4>1. Known(Reused(i).key, i)
        BY <3>2, ReusedKnown DEF TrueInv
      <4> QED BY <3>2, <4>1 DEF TrueRow
    <3> QED BY <3>1, <3>2, ReusedStatus
  <2>3. TrueRow(PriorRow(i), i)
    BY <2>1, <2>2 DEF PriorRow
  <2> QED BY <2>3 DEF ClaimedLedger, TrueRow, Blank, Row
<1>2. myLedger'[p] = ClaimedLedger /\ \A q \in Procs \ {p} : myLedger'[q] = myLedger[q]
  BY DEF ClaimApprovedActions, ActionTypeOK
<1>3. UNCHANGED <<ledger, providerVars, wordVars, snapVars, carried, answerVars>> /\ progress' = NoRows
  BY DEF ClaimApprovedActions
<1>4. TrueRows'
  <2>1. \A i \in Idx : TrueRow(ledger[i], i)' /\ TrueRow(progress[i], i)'
    BY <1>3 DEF TrueInv, TrueRows, TrueRow, Known, NoRows, Blank, Row, providerVars, wordVars
  <2>2. ASSUME NEW q \in Procs, NEW i \in Idx
        PROVE  TrueRow(myLedger[q][i], i)'
    <3>1. TrueRow(myLedger'[q][i], i)
      BY <1>1, <1>2 DEF TrueInv, TrueRows
    <3> QED BY <1>3, <3>1 DEF TrueRow, Known, providerVars, wordVars
  <2> QED BY <2>1, <2>2 DEF TrueRows
<1>5. LandedWasTried' /\ KnownKeys(carried)' /\ TrueSnaps'
  BY <1>3 DEF TrueInv, LandedWasTried, KnownKeys, Known, TrueSnaps, snapVars, providerVars, wordVars
<1>6. AnswersKept'
  BY <1>3, AnswersStay DEF answerVars, wordVars
<1> QED BY <1>4, <1>5, <1>6 DEF TrueInv

LEMMA SendTrue ==
  ASSUME ActionTypeOK, RecordTypeOK, ActsForARun, TrueInv, NEW p \in Procs, Send(p)
  PROVE  TrueInv'
<1> USE DEF Send
<1>1. PICK taken \in BOOLEAN, st \in {"landed", "failed", "unknown"} :
        /\ st = "landed" => taken
        /\ landed' = IF taken THEN [landed EXCEPT ![myRow[p]] = @ \cup {myRun[p]}] ELSE landed
        /\ Decide(p, st)
  OBVIOUS
<1>2. myRow[p] \in Idx
  BY DEF ActsForARun
<1>3. \A i \in Idx : /\ landed[i] \subseteq landed'[i]
                     /\ landed'[i] \subseteq landed[i] \cup (IF i = myRow[p] THEN {myRun[p]} ELSE {})
  BY <1>1, <1>2 DEF RecordTypeOK
<1>4. st = "landed" => myRun[p] \in landed'[myRow[p]]
  BY <1>1, <1>2 DEF RecordTypeOK
<1>5. UNCHANGED <<saidLanded, told, ledger, progress, carried, snapCarried, answers, reconciled>>
  BY DEF wordVars, outputVars, answerVars, snapVars
<1>7. TrueRows'
  <2>1. \A i \in Idx : TrueRow(ledger[i], i)' /\ TrueRow(progress[i], i)'
    BY <1>3, <1>5 DEF TrueInv, TrueRows, TrueRow, Known
  <2>2. ASSUME NEW q \in Procs, NEW i \in Idx
        PROVE  TrueRow(myLedger[q][i], i)'
    <3>1. CASE q = p /\ i = myRow[p]
      BY <1>1, <1>4, <3>1 DEF Decide, Row, TrueRow, ActionTypeOK
    <3>2. CASE ~(q = p /\ i = myRow[p])
      <4>1. myLedger'[q][i] = myLedger[q][i]
        BY <1>1, <3>2 DEF Decide, ActionTypeOK
      <4> QED BY <1>3, <1>5, <4>1 DEF TrueInv, TrueRows, TrueRow, Known
    <3> QED BY <3>1, <3>2
  <2> QED BY <2>1, <2>2 DEF TrueRows
<1>8. LandedWasTried'
  BY <1>3 DEF TrueInv, LandedWasTried
<1>9. KnownKeys(carried)' /\ TrueSnaps' /\ AnswersKept'
  <2>1. \A r \in Runs : \A i \in Idx : Known(r, i) => Known(r, i)'
    BY <1>3, <1>5 DEF Known
  <2> QED BY <1>5, <2>1 DEF TrueInv, KnownKeys, Known, TrueSnaps, AnswersKept, RowKey
<1> QED BY <1>7, <1>8, <1>9 DEF TrueInv

LEMMA ApplyTrue ==
  ASSUME SharedTypeOK, ActionTypeOK, ActsForARun, TrueInv, NEW p \in Procs, Apply(p)
  PROVE  TrueInv'
<1>1. CASE ClaimApprovedActions(p)
  BY <1>1, ClaimedTrue
<1>2. CASE Send(p)
  BY <1>2, SendTrue DEF SharedTypeOK
<1>3. CASE RefuseRow(p) \/ Authorise(p)
  <2>1. MyRowsCarryOver
    <3>1. ASSUME NEW st \in {"failed", "held"}, Decide(p, st)
          PROVE  MyRowsCarryOver
      BY <3>1 DEF Decide, Row, ActionTypeOK, MyRowsCarryOver, OldRow, LandedStatuses
    <3>2. CASE UNCHANGED myLedger
      BY <3>2 DEF MyRowsCarryOver, OldRow
    <3> QED BY <1>3, <3>1, <3>2 DEF RefuseRow, Authorise
  <2> QED BY <1>3, <2>1, KeptItemRows, TrueKept
       DEF RefuseRow, Authorise, outputVars, answerVars, snapVars, wordVars, SnapsCarryOver
<1>4. CASE RecordApplyOutcome(p)
  <2>1. ItemRowsCarryOver
    BY <1>4 DEF RecordApplyOutcome, SharedTypeOK, OutputTypeOK, ItemRowsCarryOver, OldRow
  <2> QED BY <1>4, <2>1, KeptCarryOver, TrueKept
       DEF RecordApplyOutcome, answerVars, snapVars, wordVars
<1>5. CASE RecordUnsentAfterStop(p)
  <2>1. ItemRowsCarryOver
    BY <1>5 DEF RecordUnsentAfterStop, ItemRowsCarryOver, OldRow, Row, LandedStatuses
  <2>2. AnswersKept'
    <3>1. ledger' = ledger \/ \A i \in Idx : answers[i] = "none"
      BY <1>5 DEF RecordUnsentAfterStop, TrueInv, AnswersKept
    <3> QED BY <1>5, <3>1 DEF RecordUnsentAfterStop, TrueInv, AnswersKept, RowKey, answerVars, wordVars
  <2>3. KnownKeys(carried') /\ \A q \in Procs : KnownKeys(snapCarried'[q])
    BY <1>5 DEF RecordUnsentAfterStop, TrueInv, TrueSnaps, snapVars
  <2> QED BY <1>5, <2>1, <2>2, <2>3, KeptCarryOver, TrueStays
       DEF RecordUnsentAfterStop, applyVars, snapVars, wordVars
<1>6. CASE ApplyThrows(p)
  BY <1>6, KeptItemRows, KeptCarryOver, TrueKept
     DEF ApplyThrows, outputVars, answerVars, applyVars, snapVars, wordVars
<1>7. CASE Recover(p)
  BY <1>7, EndsCarryOver, RecoveredTrue DEF Recover
<1>8. CASE FinishFailed(p) \/ StopOnQuestion(p)
  <2>1. Settled(myLedger[p]) \in [Idx -> Rows]
    BY SettledType DEF ActionTypeOK
  <2> QED BY <1>8, <2>1, EndsCarryOver, FailedTrue
       DEF FinishFailed, StopOnQuestion, answerVars, wordVars
<1>9. ASSUME Ends(p), state = "executing", ledger' = myLedger[p], progress' = NoRows,
             UNCHANGED <<providerVars, carried, answers, reconciled, told, saidLanded>>
      PROVE  TrueInv'
  <2>1. ItemRowsCarryOver
    BY <1>9 DEF ItemRowsCarryOver, OldRow, NoRows, Blank, Row, LandedStatuses
  <2> QED BY <1>9, <2>1, EndsCarryOver, TrueKept
<1>10. CASE SetAwaitingApproval(p)
  <2> USE <1>10 DEF SetAwaitingApproval
  <2>1. CASE HoldsClaim(p) /\ run = myRun[p] /\ phase # "none"
    BY <1>9, <2>1 DEF HoldsClaim, answerVars, wordVars
  <2>2. CASE ~(HoldsClaim(p) /\ run = myRun[p] /\ phase # "none")
    BY <2>2, EndsCarryOver, KeptItemRows, TrueKept DEF answerVars, wordVars
  <2> QED BY <2>1, <2>2
<1>11. CASE SetCompleted(p)
  <2> USE <1>11 DEF SetCompleted
  <2>1. CASE state = "executing" /\ run = myRun[p]
    BY <1>9, <2>1 DEF answerVars, wordVars
  <2>2. CASE ~(state = "executing" /\ run = myRun[p])
    BY <2>2, KeptItemRows, KeptCarryOver, TrueKept DEF answerVars, wordVars, applyVars, snapVars
  <2> QED BY <2>1, <2>2
<1> QED BY <1>1, <1>2, <1>3, <1>4, <1>5, <1>6, <1>7, <1>8, <1>10, <1>11 DEF Apply

LEMMA SchedulerTrue ==
  ASSUME SharedTypeOK, TrueInv, Scheduler
  PROVE  TrueInv'
<1>1. CASE ClaimRefused \/ ResumeHeldApplies
  BY <1>1, KeptItemRows, KeptCarryOver, TrueKept
     DEF ClaimRefused, ResumeHeldApplies, outputVars, answerVars, procVars, applyVars, snapVars, wordVars
<1>2. CASE ParkOnConnection \/ SweepStalled
  BY <1>2, KeptItemRows, KeptCarryOver, TrueKept
     DEF ParkOnConnection, SweepStalled, outputVars, answerVars, procVars, applyVars, snapVars, wordVars
<1>3. CASE FireSwitch
  BY <1>3, KeptCarryOver, RecoveredTrue DEF FireSwitch, procVars, applyVars, snapVars
<1> QED BY <1>1, <1>2, <1>3 DEF Scheduler

\* The manager's answers are kept as given, until a retry carries them over.
LEMMA ReconciledTrue ==
  ASSUME TrueInv, ReconcileFailed
  PROVE  TrueInv'
<1>1. PICK a \in [Idx -> {"none", "landed", "notSent"}] :
        /\ answers' = a
        /\ told' = told \cup {RowKey(i) : i \in {j \in Idx : a[j] = "notSent"}}
        /\ saidLanded' = saidLanded \cup {RowKey(i) : i \in {j \in Idx : a[j] = "landed"}}
  BY DEF ReconcileFailed
<1>2. UNCHANGED <<ledger, progress, carried, myLedger, snapCarried, providerVars>> /\ reconciled' = TRUE
  BY DEF ReconcileFailed, outputVars, procVars, applyVars, snapVars
<1>3. AnswersKept'
  BY <1>1, <1>2 DEF AnswersKept, RowKey
<1>4. KnownKeys(carried') /\ \A q \in Procs : KnownKeys(snapCarried'[q])
  BY <1>2 DEF TrueInv, TrueSnaps
<1>5. saidLanded \subseteq saidLanded'
  BY <1>1
<1> QED BY <1>2, <1>3, <1>4, <1>5, KeptItemRows, KeptCarryOver, TrueStays

LEMMA ManagerTrue ==
  ASSUME SharedTypeOK, TrueInv, Manager
  PROVE  TrueInv'
<1>1. CASE \E r \in Runs, S \in SUBSET Idx : ApproveActions(r, S)
  BY <1>1, KeptItemRows, KeptCarryOver, TrueKept
     DEF ApproveActions, outputVars, answerVars, procVars, applyVars, snapVars
<1>2. CASE \E r \in Runs : RejectActions(r)
  <2>1. /\ ledger' = Settled(ledger) /\ state = "actions-pending"
        /\ UNCHANGED <<progress, carried, answers, reconciled, myLedger, snapCarried, providerVars, wordVars>>
    BY <1>2 DEF RejectActions, answerVars, procVars, applyVars, snapVars
  <2>2. ItemRowsCarryOver
    BY <2>1, SettledCarryOver DEF ItemRowsCarryOver, OldRow, LandedStatuses, SharedTypeOK, OutputTypeOK
  <2> QED BY <2>1, <2>2, KeptCarryOver, TrueKept DEF wordVars
<1>3. CASE StopRun
  <2>1. UNCHANGED <<carried, answers, reconciled, myLedger, snapCarried, providerVars, wordVars>>
    BY <1>3 DEF StopRun, answerVars, procVars, applyVars, snapVars
  <2>2. CASE UNCHANGED <<ledger, progress>>
    BY <2>1, <2>2, KeptItemRows, KeptCarryOver, TrueKept DEF wordVars
  <2>3. CASE ledger' = InterruptedLedger("stopUnknown") /\ progress' = NoRows
    <3>1. ItemRowsCarryOver
      BY <2>3, InterruptedCarryOver DEF UnknownStatuses
    <3> QED BY <1>3, <2>1, <3>1, KeptCarryOver, TrueKept DEF StopRun, ApprovedNotStarted, wordVars
  <2> QED BY <1>3, <2>2, <2>3 DEF StopRun
<1>4. CASE ReconcileFailed
  BY <1>4, ReconciledTrue
<1>5. CASE RetryFailed
  <2>1. UNCHANGED <<ledger, progress, myLedger, snapCarried, providerVars, wordVars>>
    BY <1>5 DEF RetryFailed, procVars, applyVars, snapVars
  <2>2. KnownKeys(carried')
    BY <1>5, RetryAnswersKnown DEF RetryFailed, CarriedIntoRetry, TrueInv
  <2>3. AnswersKept'
    BY <1>5 DEF RetryFailed, AnswersKept, NoAnswers
  <2> QED BY <2>1, <2>2, <2>3, KeptItemRows, KeptCarryOver, TrueStays DEF TrueInv, TrueSnaps, wordVars
<1>6. CASE PlanAgain \/ SetPaused
  BY <1>6, KeptItemRows, KeptCarryOver, TrueKept
     DEF PlanAgain, SetPaused, outputVars, answerVars, procVars, applyVars, snapVars, wordVars
<1> QED BY <1>1, <1>2, <1>3, <1>4, <1>5, <1>6 DEF Manager

LEMMA TrueStep == TypeInv /\ TrueInv /\ [Next]_vars => TrueInv'
<1> SUFFICES ASSUME SharedTypeOK, ActionTypeOK, ActsForARun, TrueInv, [Next]_vars
             PROVE  TrueInv'
  BY DEF TypeInv, TypeOK, SharedTypeOK
<1>1. ASSUME NEW p \in Procs, Execution(p) \/ Apply(p)
      PROVE  TrueInv'
  BY <1>1, ExecutionTrue, ApplyTrue
<1>2. ASSUME NEW p \in Procs, Crash(p)
      PROVE  TrueInv'
  BY <1>2, EndsCarryOver, KeptItemRows, TrueKept DEF Crash, outputVars, answerVars, wordVars
<1>3. CASE Scheduler \/ Manager
  BY <1>3, SchedulerTrue, ManagerTrue
<1>4. CASE UNCHANGED vars
  BY <1>4, KeptItemRows, KeptCarryOver, TrueKept
     DEF vars, outputVars, answerVars, procVars, applyVars, snapVars, wordVars
<1> QED BY <1>1, <1>2, <1>3, <1>4 DEF Next

\* A write a run carries as landed, and so never sends again, is on the
\* provider or the manager said it is, through every retry and reconciliation.
THEOREM CarriedTrue == Spec => []CarriedIsTrue
<1>1. TypeInv /\ TrueInv => CarriedIsTrue
  BY DEF TypeInv, TypeOK, OutputTypeOK, TrueInv, KnownKeys, Known, CarriedIsTrue
<1> QED BY TypeInit, TypeStep, TrueInit, TrueStep, <1>1, PTL DEF Spec

-----------------------------------------------------------------------------
(* The form of the item's ledger and of an apply's, from the gate on. *)

AfterGate == Active /\ pending = run
OwnRow(row, r) == row.st \notin {"none", "reused"} => row.key = r

\* The apply that holds the claim acts for the run the row is under.
HolderIsOfRun == \A p \in Procs : pc[p] \in Applying /\ HoldsClaim(p) => myRun[p] = run

\* A row an apply settled, or left for the manager, stands for a write of its run.
OwnRows ==
  /\ AfterGate => \A i \in Idx : OwnRow(ledger[i], run)
  /\ attempt # NoAttempt => \A i \in Idx : OwnRow(progress[i], run)
  /\ \A p \in Procs : pc[p] \in Reporting => \A i \in Idx : OwnRow(myLedger[p][i], myRun[p])

\* A run that goes on has no failed row and none of unknown outcome.
HeldLedgerSettled ==
  AfterGate => \A i \in Idx : ledger[i].st \in {"none", "landed", "reused", "held", "awaiting"}

\* Only a stop, and what follows it, records the statuses of a stop.
Stops == {"stopUnknown", "notSent"}
NoStops ==
  \A i \in Idx : /\ progress[i].st \notin Stops
                 /\ \A p \in Procs : pc[p] \in Reporting => myLedger[p][i].st \notin Stops

\* The gate's own set is applied first, before anything of the run is recorded.
AutoStartsBlank == AfterGate /\ phase = "auto" => ledger = NoRows
GateForm == state = "executing" /\ attempt = NoAttempt /\ AfterGate => phase = "auto"
ApprovedWaits ==
  state = "actions-pending" /\ decided => \A i \in approved : ledger[i].st \in {"none", "awaiting"}

FormInv == /\ HolderIsOfRun /\ OwnRows /\ HeldLedgerSettled /\ NoStops
           /\ AutoStartsBlank /\ GateForm /\ ApprovedWaits

\* An apply's rows stay, or are settled by it.
MyRowsStay ==
  \A q \in Procs : pc'[q] \in Reporting =>
    /\ pc[q] \in Reporting /\ myRun'[q] = myRun[q]
    /\ \A i \in Idx : \/ myLedger'[q][i] = myLedger[q][i]
                      \/ myLedger'[q][i].key = myRun[q] /\ myLedger'[q][i].st \notin Stops \cup {"none"}

LEMMA EndsMyRows ==
  ASSUME ActionTypeOK, NEW p \in Procs, Ends(p)
  PROVE  MyRowsStay
BY DEF ActionTypeOK, Ends, MyRowsStay, Reporting

LEMMA KeptMyRows ==
  ASSUME UNCHANGED procVars
  PROVE  MyRowsStay
BY DEF procVars, applyVars, MyRowsStay

LEMMA MyRowsForm ==
  ASSUME FormInv, MyRowsStay
  PROVE  \A p \in Procs : pc'[p] \in Reporting => \A i \in Idx :
           OwnRow(myLedger'[p][i], myRun'[p]) /\ myLedger'[p][i].st \notin Stops
BY DEF FormInv, OwnRows, OwnRow, NoStops, MyRowsStay

LEMMA KeptForm ==
  ASSUME FormInv, ActionsStay, MyRowsStay,
         UNCHANGED <<state, run, pending, decided, approved, phase, attempt, ledger, progress>>
  PROVE  FormInv'
<1>1. HolderIsOfRun'
  BY DEF FormInv, HolderIsOfRun, ActionsStay, HoldsClaim, Applying
<1>2. OwnRows' /\ NoStops'
  BY MyRowsForm DEF FormInv, OwnRows, OwnRow, NoStops, AfterGate, Active
<1>3. HeldLedgerSettled' /\ AutoStartsBlank' /\ GateForm' /\ ApprovedWaits'
  BY DEF FormInv, HeldLedgerSettled, AutoStartsBlank, GateForm, ApprovedWaits, AfterGate, Active
<1> QED BY <1>1, <1>2, <1>3 DEF FormInv

LEMMA EndedForm ==
  ASSUME FormInv, MyRowsStay, state' \notin {"executing", "actions-pending"}, attempt' = NoAttempt,
         progress' = progress \/ progress' = NoRows
  PROVE  FormInv'
<1>1. HolderIsOfRun'
  BY DEF HolderIsOfRun, HoldsClaim
<1>2. OwnRows' /\ NoStops'
  BY MyRowsForm DEF FormInv, OwnRows, NoStops, AfterGate, Active, NoRows, Blank, Row, Stops
<1>3. HeldLedgerSettled' /\ AutoStartsBlank' /\ GateForm' /\ ApprovedWaits'
  BY DEF HeldLedgerSettled, AutoStartsBlank, GateForm, ApprovedWaits, AfterGate, Active
<1> QED BY <1>1, <1>2, <1>3 DEF FormInv

LEMMA FormInit == Init => FormInv
BY DEF Init, FormInv, HolderIsOfRun, OwnRows, HeldLedgerSettled, NoStops, AutoStartsBlank, GateForm,
       ApprovedWaits, AfterGate, Active, Applying, Reporting, NoRows, Blank, Row, Stops

LEMMA RecoveredForm ==
  ASSUME FormInv, ActionsStay, MyRowsStay, NEW r, NEW ph, RecoverInterruptedApply(r, ph),
         UNCHANGED RecoveryKeeps
  PROVE  FormInv'
<1>1. CASE state' = "failed" /\ attempt' = NoAttempt /\ progress' = NoRows
  BY <1>1, EndedForm
<1>2. CASE UNCHANGED <<state, phase, attempt, ledger, progress>>
  BY <1>2, KeptForm DEF RecoveryKeeps
<1> QED BY <1>1, <1>2 DEF RecoverInterruptedApply

LEMMA FailedForm ==
  ASSUME FormInv, ActionsStay, MyRowsStay, NEW p \in Procs, NEW led, ApplySetFailed(p, led)
  PROVE  FormInv'
<1>1. CASE FailInTransaction /\ progress' = NoRows
  BY <1>1, EndedForm DEF FailInTransaction, ClearClaim
<1>2. CASE UNCHANGED <<state, claimVars, switch, ledger, progress>>
  BY <1>2, KeptForm DEF claimVars
<1> QED BY <1>1, <1>2 DEF ApplySetFailed

LEMMA ExecutionForm ==
  ASSUME SharedTypeOK, ActionTypeOK, ActsForARun, ClaimInv, FormInv, NEW p \in Procs, Execution(p)
  PROVE  FormInv'
<1>1. CASE ReadItem(p)
  <2>1. ActionsStay /\ MyRowsStay
    BY <1>1 DEF ReadItem, ActionTypeOK, ActionsStay, MyRowsStay, Reporting, applyVars
  <2> QED BY <1>1, <2>1, KeptForm DEF ReadItem, claimVars, outputVars
<1>2. CASE ClaimExecution(p)
  <2>1. MyRowsStay
    BY <1>2 DEF ClaimExecution, ActionTypeOK, MyRowsStay, Reporting
  <2>2. ~AfterGate' /\ attempt' = NoAttempt /\ state' = "executing" /\ progress' = progress
    BY <1>2 DEF ClaimExecution, AfterGate, SharedTypeOK, ItemTypeOK, outputVars
  <2>3. HolderIsOfRun'
    BY <1>2 DEF ClaimExecution, ActionTypeOK, ClaimInv, AttemptsApart, HolderIsOfRun, HoldsClaim, Applying
  <2>4. OwnRows' /\ NoStops'
    BY <2>1, <2>2, MyRowsForm DEF FormInv, OwnRows, NoStops
  <2> QED BY <2>2, <2>3, <2>4
       DEF FormInv, HeldLedgerSettled, AutoStartsBlank, GateForm, ApprovedWaits
<1>3. CASE ClaimExecutionRefused(p) \/ MovedOn(p)
  BY <1>3, EndsStay, EndsMyRows, KeptForm DEF ClaimExecutionRefused, MovedOn, claimVars, outputVars
<1>4. CASE SetActionsPending(p)
  <2> USE <1>4 DEF SetActionsPending
  <2>1. PICK v \in [Idx -> {"auto", "held", "refused"}] : Gated(v)
    OBVIOUS
  <2>2. ledger' = NoRows /\ progress' = NoRows /\ attempt' = NoAttempt
    BY <2>1 DEF KeepDraft, Gated, FailInTransaction, ClearClaim
  <2>3. (state' = "executing" => phase' = "auto") /\ (state' = "actions-pending" => ~decided')
    BY <2>1 DEF Gated, FailInTransaction, BeforeGate
  <2>4. HolderIsOfRun'
    <3>1. ActionsStay
      BY EndsStay
    <3> QED BY <2>2, <3>1 DEF ClaimInv, AttemptsApart, HolderIsOfRun, HoldsClaim, ActionsStay, Applying
  <2>5. OwnRows' /\ NoStops'
    BY <2>2, EndsMyRows, MyRowsForm DEF FormInv, OwnRows, OwnRow, NoStops, NoRows, Blank, Row, Stops
  <2>6. HeldLedgerSettled' /\ AutoStartsBlank' /\ GateForm' /\ ApprovedWaits'
    BY <2>2, <2>3 DEF HeldLedgerSettled, AutoStartsBlank, GateForm, ApprovedWaits, NoRows, Blank, Row
  <2> QED BY <2>4, <2>5, <2>6 DEF FormInv
<1>5. CASE ResumeExecution(p)
  <2>1. state' \in {"plan-approved", "failed"} /\ attempt' = NoAttempt /\ progress' = progress
    BY <1>5 DEF ResumeExecution, BeforeGate, FailInTransaction, ClearClaim, outputVars
  <2> QED BY <1>5, <2>1, EndsMyRows, EndedForm DEF ResumeExecution
<1>6. CASE ExecutionFails(p)
  <2>1. state' = "failed" /\ attempt' = NoAttempt /\ (progress' = progress \/ progress' = NoRows)
    BY <1>6 DEF ExecutionFails, FailInTransaction, ClearClaim, KeepDraft, outputVars
  <2> QED BY <1>6, <2>1, EndsMyRows, EndedForm DEF ExecutionFails
<1> QED BY <1>1, <1>2, <1>3, <1>4, <1>5, <1>6 DEF Execution

\* What the claim makes of a row.
LEMMA ClaimedRow ==
  ASSUME NEW i \in Idx
  PROVE  \/ /\ ClaimedLedger[i] = ledger[i] /\ ~AutoPhase
            /\ ledger[i].st \notin {"none", "awaiting"}
         \/ ClaimedLedger[i] = Reused(i) /\ Reused(i).st = "reused"
         \/ /\ AutoPhase \/ ledger[i].st \in {"none", "awaiting"}
            /\ \/ i \in approved /\ ClaimedLedger[i] = Blank
               \/ i \notin approved /\ ClaimedLedger[i] \in {Row("awaiting", RunKey), Row("held", RunKey)}
<1>1. CASE ~AutoPhase /\ ledger[i].st \notin {"none", "awaiting"}
  BY <1>1 DEF ClaimedLedger, PriorRow, Blank, Row
<1>2. CASE AutoPhase \/ ledger[i].st \in {"none", "awaiting"}
  <2>1. PriorRow(i) = Reused(i)
    BY <1>2 DEF PriorRow
  <2>2. CASE Reused(i) = Blank
    BY <1>2, <2>1, <2>2 DEF ClaimedLedger
  <2>3. CASE Reused(i) # Blank
    BY <2>1, <2>3, ReusedStatus DEF ClaimedLedger
  <2> QED BY <2>2, <2>3
<1> QED BY <1>1, <1>2

LEMMA ClaimedForm ==
  ASSUME SharedTypeOK, ActionTypeOK, DecidedInv, ClaimInv, FormInv, NEW p \in Procs,
         ClaimApprovedActions(p)
  PROVE  FormInv'
<1>1. Claimable /\ AfterGate /\ RunKey = run
  BY ClaimableIsOfRun DEF ClaimApprovedActions, AfterGate
<1>2. /\ state' = "executing" /\ attempt' # NoAttempt /\ progress' = NoRows
      /\ UNCHANGED <<run, pending, decided, approved, phase, ledger>>
  BY DEF ClaimApprovedActions
<1>3. /\ pc'[p] = "apply" /\ myRun'[p] = run /\ myLedger'[p] = ClaimedLedger
      /\ \A q \in Procs : myAttempt[q] # attempt'
      /\ \A q \in Procs \ {p} : /\ pc'[q] = pc[q] /\ myRun'[q] = myRun[q]
                                /\ myLedger'[q] = myLedger[q] /\ myAttempt'[q] = myAttempt[q]
  BY <1>1 DEF ClaimApprovedActions, ActionTypeOK
<1>4. AfterGate'
  BY <1>1, <1>2 DEF AfterGate, Active
<1>5. HolderIsOfRun'
  BY <1>2, <1>3 DEF HolderIsOfRun, HoldsClaim
<1>6. \A i \in Idx : OwnRow(ledger[i], run) /\ ledger[i].st \notin Stops \cup {"failed", "unknown"}
  BY <1>1 DEF FormInv, OwnRows, HeldLedgerSettled, Stops
<1>7. \A i \in Idx : OwnRow(ClaimedLedger[i], run) /\ ClaimedLedger[i].st \notin Stops
  BY <1>1, <1>6, ClaimedRow DEF OwnRow, Blank, Row, Stops
<1>8. OwnRows'
  BY <1>2, <1>3, <1>4, <1>6, <1>7 DEF FormInv, OwnRows, OwnRow, NoRows, Blank, Row
<1>9. NoStops'
  BY <1>2, <1>3, <1>7 DEF FormInv, NoStops, NoRows, Blank, Row, Stops
<1>10. HeldLedgerSettled' /\ AutoStartsBlank' /\ GateForm' /\ ApprovedWaits'
  BY <1>1, <1>2, <1>4 DEF FormInv, HeldLedgerSettled, AutoStartsBlank, GateForm, ApprovedWaits
<1> QED BY <1>5, <1>8, <1>9, <1>10 DEF FormInv

LEMMA ApplyForm ==
  ASSUME SharedTypeOK, ActionTypeOK, ActsForARun, DecidedInv, ClaimInv, FormInv, NEW p \in Procs, Apply(p)
  PROVE  FormInv'
<1>1. CASE ClaimApprovedActions(p)
  BY <1>1, ClaimedForm
<1>2. CASE RefuseRow(p) \/ Authorise(p) \/ Send(p)
  <2>1. ASSUME NEW st \in {"failed", "held", "landed", "unknown"}, Decide(p, st)
        PROVE  \A q \in Procs, i \in Idx :
                 \/ myLedger'[q][i] = myLedger[q][i]
                 \/ myLedger'[q][i].key = myRun[q] /\ myLedger'[q][i].st \notin Stops \cup {"none"}
    BY <2>1 DEF Decide, Row, ActionTypeOK, Stops
  <2>2. (\E st \in {"failed", "held", "landed", "unknown"} : Decide(p, st)) \/ UNCHANGED myLedger
    BY <1>2 DEF RefuseRow, Authorise, Send
  <2>3. ActionsStay /\ (\A q \in Procs : pc'[q] \in Reporting => pc[q] \in Reporting) /\ UNCHANGED myRun
    BY <1>2 DEF RefuseRow, Authorise, Send, Undecided, UpTo, ActionTypeOK, ActionsStay, Applying, Reporting
  <2>4. MyRowsStay
    BY <2>1, <2>2, <2>3 DEF MyRowsStay
  <2> QED BY <1>2, <2>3, <2>4, KeptForm DEF RefuseRow, Authorise, Send, claimVars, outputVars
<1>3. CASE RecordApplyOutcome(p)
  <2> USE <1>3 DEF RecordApplyOutcome, UpTo
  <2>1. ActionsStay /\ MyRowsStay
    BY DEF ActionTypeOK, ActionsStay, Applying, MyRowsStay, Reporting
  <2>2. CASE ~HoldsClaim(p)
    BY <2>1, <2>2, KeptForm DEF claimVars
  <2>3. CASE HoldsClaim(p)
    <3>1. /\ progress' = [progress EXCEPT ![myRow[p]] = myLedger[p][myRow[p]]]
          /\ UNCHANGED <<state, run, pending, decided, approved, phase, attempt, ledger>>
      BY <2>3 DEF claimVars
    <3>2. /\ myRun[p] = run /\ OwnRow(myLedger[p][myRow[p]], run)
          /\ myLedger[p][myRow[p]].st \notin Stops
      BY <2>3 DEF FormInv, HolderIsOfRun, OwnRows, NoStops, Applying, Reporting
    <3>3. \A i \in Idx : progress'[i] \in {progress[i], myLedger[p][myRow[p]]}
      BY <3>1 DEF SharedTypeOK, OutputTypeOK
    <3>4. HolderIsOfRun'
      BY <2>1, <3>1 DEF FormInv, HolderIsOfRun, ActionsStay, HoldsClaim, Applying
    <3>5. OwnRows' /\ NoStops'
      BY <2>1, <3>1, <3>2, <3>3, MyRowsForm DEF FormInv, OwnRows, OwnRow, NoStops, AfterGate, Active
    <3>6. HeldLedgerSettled' /\ AutoStartsBlank' /\ GateForm' /\ ApprovedWaits'
      BY <3>1 DEF FormInv, HeldLedgerSettled, AutoStartsBlank, GateForm, ApprovedWaits, AfterGate, Active
    <3> QED BY <3>4, <3>5, <3>6 DEF FormInv
  <2> QED BY <2>2, <2>3
<1>4. CASE RecordUnsentAfterStop(p)
  <2>1. ActionsStay /\ MyRowsStay
    BY <1>4 DEF RecordUnsentAfterStop, ActionTypeOK, ActionsStay, Applying, MyRowsStay, Reporting, applyVars
  <2>2. CASE state = "failed"
    BY <1>4, <2>1, <2>2, EndedForm DEF RecordUnsentAfterStop, ClaimInv, ClaimIsOfRun, claimVars
  <2>3. CASE state # "failed"
    BY <1>4, <2>1, <2>3, KeptForm DEF RecordUnsentAfterStop, claimVars
  <2> QED BY <2>2, <2>3
<1>5. CASE ApplyThrows(p)
  <2>1. ActionsStay /\ MyRowsStay
    BY <1>5 DEF ApplyThrows, ActionTypeOK, ActionsStay, Applying, MyRowsStay, Reporting, applyVars
  <2> QED BY <1>5, <2>1, KeptForm DEF ApplyThrows, claimVars, outputVars
<1>6. CASE Recover(p)
  BY <1>6, EndsStay, EndsMyRows, RecoveredForm DEF Recover
<1>7. CASE FinishFailed(p) \/ StopOnQuestion(p)
  BY <1>7, EndsStay, EndsMyRows, FailedForm DEF FinishFailed, StopOnQuestion
<1>8. CASE SetAwaitingApproval(p)
  <2> USE <1>8 DEF SetAwaitingApproval
  <2>1. CASE HoldsClaim(p) /\ run = myRun[p] /\ phase # "none"
    <3>1. /\ state' = "actions-pending" /\ attempt' = NoAttempt /\ ~decided' /\ phase' = "none"
          /\ ledger' = myLedger[p] /\ progress' = NoRows /\ run' = run
      BY <2>1
    <3>2. \A i \in Idx : /\ OwnRow(myLedger[p][i], run)
                         /\ myLedger[p][i].st \notin Stops \cup FailedStatuses
      BY <2>1 DEF FormInv, OwnRows, NoStops, Reporting, Has
    <3>3. \A i \in Idx : myLedger[p][i].st \in {"none", "landed", "reused", "held", "awaiting"}
      BY <3>2 DEF ActionTypeOK, Rows, Blank, Row, Statuses, Stops, FailedStatuses
    <3>4. OwnRows' /\ NoStops'
      BY <3>1, <3>2, EndsMyRows, MyRowsForm DEF OwnRows, OwnRow, NoStops, NoRows, Blank, Row, Stops
    <3>5. HolderIsOfRun' /\ HeldLedgerSettled' /\ AutoStartsBlank' /\ GateForm' /\ ApprovedWaits'
      BY <3>1, <3>3 DEF HolderIsOfRun, HoldsClaim, HeldLedgerSettled, AutoStartsBlank, GateForm, ApprovedWaits
    <3> QED BY <3>4, <3>5 DEF FormInv
  <2>2. CASE ~(HoldsClaim(p) /\ run = myRun[p] /\ phase # "none")
    BY <2>2, EndsStay, EndsMyRows, KeptForm
  <2> QED BY <2>1, <2>2
<1>9. CASE SetCompleted(p)
  <2> USE <1>9 DEF SetCompleted
  <2>1. CASE state = "executing" /\ run = myRun[p]
    BY <2>1, EndsMyRows, EndedForm DEF ClearClaim
  <2>2. CASE ~(state = "executing" /\ run = myRun[p])
    <3>1. ActionsStay /\ MyRowsStay
      BY <2>2 DEF ActionTypeOK, ActionsStay, Applying, MyRowsStay, Reporting, applyVars
    <3> QED BY <2>2, <3>1, KeptForm DEF claimVars
  <2> QED BY <2>1, <2>2
<1> QED BY <1>1, <1>2, <1>3, <1>4, <1>5, <1>6, <1>7, <1>8, <1>9 DEF Apply

LEMMA SchedulerForm ==
  ASSUME FormInv, Scheduler
  PROVE  FormInv'
<1>1. CASE ClaimRefused \/ ResumeHeldApplies
  BY <1>1, KeptStay, KeptMyRows, KeptForm DEF ClaimRefused, ResumeHeldApplies, claimVars, outputVars
<1>2. CASE ParkOnConnection \/ SweepStalled
  BY <1>2, KeptMyRows, EndedForm DEF ParkOnConnection, SweepStalled, FailInTransaction, ClearClaim, outputVars
<1>3. CASE FireSwitch
  BY <1>3, KeptStay, KeptMyRows, RecoveredForm DEF FireSwitch
<1> QED BY <1>1, <1>2, <1>3 DEF Scheduler

LEMMA ManagerForm ==
  ASSUME ClaimInv, FormInv, Manager
  PROVE  FormInv'
<1>1. ASSUME NEW r \in Runs, NEW S \in SUBSET Idx, ApproveActions(r, S)
      PROVE  FormInv'
  <2>1. /\ state' = "actions-pending" /\ phase' = "approved" /\ approved' = S /\ S \subseteq Awaiting
        /\ UNCHANGED <<state, run, pending, attempt, ledger, progress, procVars>>
    BY <1>1 DEF ApproveActions, outputVars
  <2>2. HolderIsOfRun'
    BY <2>1 DEF HolderIsOfRun, HoldsClaim
  <2>3. OwnRows' /\ NoStops'
    BY <2>1, KeptMyRows, MyRowsForm DEF FormInv, OwnRows, NoStops, AfterGate, Active
  <2>4. HeldLedgerSettled' /\ AutoStartsBlank' /\ GateForm' /\ ApprovedWaits'
    BY <2>1 DEF FormInv, HeldLedgerSettled, AutoStartsBlank, GateForm, ApprovedWaits, AfterGate, Active,
                Awaiting
  <2> QED BY <2>2, <2>3, <2>4 DEF FormInv
<1>2. CASE (\E r \in Runs : RejectActions(r)) \/ StopRun \/ RetryFailed
  <2>1. /\ state' \in {"failed", "plan-approved"} /\ attempt' = NoAttempt
        /\ progress' \in {progress, NoRows} /\ UNCHANGED procVars
    BY <1>2 DEF RejectActions, StopRun, RetryFailed, FailInTransaction, ClearClaim
  <2> QED BY <2>1, KeptMyRows, EndedForm
<1>3. CASE ReconcileFailed \/ SetPaused
  BY <1>3, KeptStay, KeptMyRows, KeptForm DEF ReconcileFailed, SetPaused, claimVars, outputVars
<1>4. CASE PlanAgain
  <2>1. attempt = NoAttempt
    BY <1>4 DEF PlanAgain, ClaimInv, ClaimIsOfRun
  <2> QED BY <1>4, <2>1, KeptMyRows, EndedForm DEF PlanAgain, claimVars, outputVars
<1> QED BY <1>1, <1>2, <1>3, <1>4 DEF Manager

LEMMA FormStep == TypeInv /\ DecidedInv /\ ClaimInv /\ FormInv /\ [Next]_vars => FormInv'
<1> SUFFICES ASSUME SharedTypeOK, ActionTypeOK, ActsForARun, DecidedInv, ClaimInv, FormInv, [Next]_vars
             PROVE  FormInv'
  BY DEF TypeInv, TypeOK, SharedTypeOK
<1>1. ASSUME NEW p \in Procs, Execution(p) \/ Apply(p)
      PROVE  FormInv'
  BY <1>1, ExecutionForm, ApplyForm
<1>2. ASSUME NEW p \in Procs, Crash(p)
      PROVE  FormInv'
  BY <1>2, EndsStay, EndsMyRows, KeptForm DEF Crash, claimVars, outputVars
<1>3. CASE Scheduler \/ Manager
  BY <1>3, SchedulerForm, ManagerForm
<1>4. CASE UNCHANGED vars
  BY <1>4, KeptStay, KeptMyRows, KeptForm DEF vars, claimVars, outputVars
<1> QED BY <1>1, <1>2, <1>3, <1>4 DEF Next

-----------------------------------------------------------------------------
(* What is recorded as not sent. *)

\* A write nobody may still send, and that is not on the provider.
MaySend(p, r, i) == pc[p] \in {"apply", "sending"} /\ myRun[p] = r /\ myLedger[p][i].st = "none"
Closed(r, i) == r \notin landed[i] /\ \A p \in Procs : ~MaySend(p, r, i)
ClosedRow(row, i) == SentNothing(row) => Closed(row.key, i)

\* A row that says its write was not sent is right, but for one the item holds
\* for the manager while an apply of its run works on it.
ClosedRows ==
  \A i \in Idx :
    /\ ClosedRow(progress[i], i)
    /\ \A p \in Procs : pc[p] \in Reporting => ClosedRow(myLedger[p][i], i)
    /\ ClosedRow(ledger[i], i) \/ (state = "executing" /\ AfterGate /\ ledger[i].st = "awaiting")

\* An apply touches no row outside the approved list.
UnapprovedClosed ==
  attempt # NoAttempt =>
    \A i \in Idx \ approved : ledger[i].st \in {"none", "awaiting"} => Closed(run, i)

\* An apply has settled nothing ahead of its row, and a stop recorded no more.
Unsettled == {"none", "reused"}
AheadUnsent ==
  \A p \in Procs : pc[p] \in Reporting /\ HoldsClaim(p) =>
    \A i \in Idx : i \in approved /\ i > myRow[p] => myLedger[p][i].st \in Unsettled
StopUnknownAhead ==
  \A p \in Procs : pc[p] \in Reporting =>
    \A i \in Idx : i > myRow[p] /\ ledger[i] = Row("stopUnknown", myRun[p]) =>
      myLedger[p][i].st \in Unsettled

ClosedInv == ClosedRows /\ UnapprovedClosed /\ AheadUnsent /\ StopUnknownAhead

\* The same, of the state a step leads to.
ClosedAfter(r, i) ==
  /\ r \notin landed'[i]
  /\ \A p \in Procs : pc'[p] \in {"apply", "sending"} /\ myRun'[p] = r => myLedger'[p][i].st # "none"
ClosedRowAfter(row, i) == SentNothing(row) => ClosedAfter(row.key, i)

\* A step that opens no write: what lands was about to be sent.
SendsKept ==
  /\ \A q \in Procs : pc'[q] \in {"apply", "sending"} =>
       /\ pc[q] \in {"apply", "sending"} /\ myRun'[q] = myRun[q]
       /\ \A i \in Idx : myLedger'[q][i].st = "none" => myLedger[q][i].st = "none"
  /\ \A i \in Idx : \A r \in landed'[i] : r \in landed[i] \/ \E p \in Procs : MaySend(p, r, i)

LEMMA KeyStaysClosed ==
  ASSUME SendsKept, NEW r, NEW i \in Idx, Closed(r, i)
  PROVE  ClosedAfter(r, i)
BY DEF SendsKept, Closed, ClosedAfter, MaySend

LEMMA RowStaysClosed ==
  ASSUME SendsKept, NEW row, NEW i \in Idx, ClosedRow(row, i)
  PROVE  ClosedRowAfter(row, i)
BY KeyStaysClosed DEF ClosedRow, ClosedRowAfter

\* An apply's rows stay, or are settled, from the first to the last.
AppliesStay ==
  \A q \in Procs : pc'[q] \in Reporting =>
    /\ pc[q] \in Reporting /\ myRun'[q] = myRun[q] /\ myAttempt'[q] = myAttempt[q]
    /\ \A i \in Idx : /\ myLedger'[q][i] = myLedger[q][i] \/ ClosedRowAfter(myLedger'[q][i], i)
                      /\ i > myRow'[q] => i > myRow[q] /\ myLedger'[q][i] = myLedger[q][i]

LEMMA EndsApplies ==
  ASSUME ActionTypeOK, NEW p \in Procs, Ends(p), UNCHANGED landed
  PROVE  SendsKept /\ AppliesStay
<1>1. /\ pc'[p] = "idle"
      /\ \A q \in Procs \ {p} : /\ pc'[q] = pc[q] /\ myRun'[q] = myRun[q] /\ myRow'[q] = myRow[q]
                                /\ myLedger'[q] = myLedger[q] /\ myAttempt'[q] = myAttempt[q]
  BY DEF ActionTypeOK, Ends
<1> QED BY <1>1 DEF SendsKept, AppliesStay, Reporting

LEMMA KeptApplies ==
  ASSUME UNCHANGED <<procVars, landed>>
  PROVE  SendsKept /\ AppliesStay
BY DEF procVars, applyVars, SendsKept, AppliesStay

LEMMA AppliesClosed ==
  ASSUME ClosedInv, SendsKept, AppliesStay, NEW i \in Idx, NEW q \in Procs, pc'[q] \in Reporting
  PROVE  ClosedRowAfter(myLedger'[q][i], i)
<1>1. ClosedRow(myLedger[q][i], i)
  BY DEF ClosedInv, ClosedRows, AppliesStay
<1> QED BY <1>1, RowStaysClosed DEF AppliesStay

\* A stop's rows stay as they are.
LEMMA StopsStay ==
  ASSUME ClosedInv, AppliesStay, \A i \in Idx : ledger'[i] = ledger[i] \/ ledger'[i].st # "stopUnknown"
  PROVE  StopUnknownAhead'
BY DEF ClosedInv, StopUnknownAhead, AppliesStay, Row

\* The item stays as it is, but for what an apply reports.
LEMMA KeptClosed ==
  ASSUME ClosedInv, SendsKept, AppliesStay, UNCHANGED <<state, run, pending, attempt, approved, ledger>>,
         \A i \in Idx : progress'[i] = progress[i] \/ ClosedRowAfter(progress'[i], i)
  PROVE  ClosedInv'
<1>1. ClosedRows'
  <2>1. ASSUME NEW i \in Idx
        PROVE  /\ ClosedRowAfter(progress'[i], i)
               /\ ClosedRowAfter(ledger[i], i) \/ (state = "executing" /\ AfterGate /\ ledger[i].st = "awaiting")
    BY RowStaysClosed DEF ClosedInv, ClosedRows
  <2> QED BY <2>1, AppliesClosed
       DEF ClosedRows, ClosedRow, Closed, MaySend, ClosedRowAfter, ClosedAfter, AfterGate, Active
<1>2. UnapprovedClosed'
  BY KeyStaysClosed DEF ClosedInv, UnapprovedClosed, ClosedAfter, Closed, MaySend
<1>3. AheadUnsent'
  BY DEF ClosedInv, AheadUnsent, AppliesStay, HoldsClaim
<1> QED BY <1>1, <1>2, <1>3, StopsStay DEF ClosedInv

\* No claim is held after the step.
LEMMA UnclaimedClosed ==
  ASSUME ClaimInv, ClosedInv, SendsKept, AppliesStay, attempt' = NoAttempt, StopUnknownAhead',
         \A i \in Idx : ClosedRowAfter(progress'[i], i) /\ ClosedRowAfter(ledger'[i], i)
  PROVE  ClosedInv'
<1>1. ClosedRows'
  BY AppliesClosed DEF ClosedRows, ClosedRow, Closed, MaySend, ClosedRowAfter, ClosedAfter
<1>2. UnapprovedClosed'
  BY DEF UnapprovedClosed
<1>3. AheadUnsent'
  <2>1. \A q \in Procs : pc'[q] \in Reporting => myAttempt'[q] # NoAttempt
    BY DEF AppliesStay, ClaimInv, AttemptsApart, Reporting, Applying
  <2> QED BY <2>1 DEF AheadUnsent, HoldsClaim
<1> QED BY <1>1, <1>2, <1>3 DEF ClosedInv

LEMMA ClosedInit == Init => ClosedInv
BY DEF Init, ClosedInv, ClosedRows, UnapprovedClosed, AheadUnsent, StopUnknownAhead, ClosedRow,
       SentNothing, Reporting, NoRows, Blank, Row

LEMMA NoRowsClosed ==
  ASSUME NEW i \in Idx
  PROVE  ~SentNothing(NoRows[i])
BY DEF SentNothing, NoRows, Blank, Row

\* While no apply holds the claim, the ledger says only the truth.
LEMMA LedgerClosed ==
  ASSUME FormInv, ClosedInv, attempt = NoAttempt \/ state # "executing", NEW i \in Idx
  PROVE  ClosedRow(ledger[i], i)
BY DEF FormInv, GateForm, AutoStartsBlank, ClosedInv, ClosedRows, NoRows, Blank, Row

\* So does the one an interrupted apply leaves.
LEMMA InterruptedClosed ==
  ASSUME ClaimInv, ClosedInv, attempt # NoAttempt, NEW unknown \in UnknownStatuses, NEW i \in Idx
  PROVE  ClosedRow(InterruptedLedger(unknown)[i], i)
<1>1. RunKey = run
  BY DEF ClaimInv, ClaimIsOfRun, RunIsActive, Active, RunKey
<1>2. CASE i \notin approved /\ ledger[i].st \in {"none", "awaiting"}
  <2>1. Closed(run, i)
    BY <1>2 DEF ClosedInv, UnapprovedClosed
  <2> QED BY <1>1, <1>2, <2>1 DEF InterruptedLedger, ClosedRow, Row
<1>3. CASE i \notin approved /\ ledger[i].st \notin {"none", "awaiting"}
  BY <1>3 DEF InterruptedLedger, ClosedInv, ClosedRows
<1>4. CASE i \in approved
  BY <1>4 DEF InterruptedLedger, ClosedInv, ClosedRows, ClosedRow, SentNothing, Row, UnknownStatuses
<1> QED BY <1>2, <1>3, <1>4

LEMMA FailedClosed ==
  ASSUME SharedTypeOK, ActionTypeOK, ClaimInv, FormInv, ClosedInv, SendsKept, AppliesStay,
         NEW p \in Procs, pc[p] = "finish", ApplySetFailed(p, Settled(myLedger[p]))
  PROVE  ClosedInv'
<1>1. CASE FailInTransaction /\ ledger' = Settled(myLedger[p]) /\ progress' = NoRows
  <2>1. ASSUME NEW i \in Idx
        PROVE  ClosedRowAfter(ledger'[i], i) /\ ledger'[i].st # "stopUnknown"
    <3>1. ClosedRow(myLedger[p][i], i) /\ myLedger[p][i].st # "stopUnknown"
      BY DEF ClosedInv, ClosedRows, FormInv, NoStops, Stops, Reporting
    <3>2. /\ ledger'[i].key = myLedger[p][i].key /\ ledger'[i].st # "stopUnknown"
          /\ SentNothing(ledger'[i]) => SentNothing(myLedger[p][i])
      BY <1>1, <3>1 DEF Settled, SentNothing, ActionTypeOK, Rows, Row, Blank
    <3> QED BY <3>1, <3>2, KeyStaysClosed DEF ClosedRow, ClosedRowAfter
  <2>2. \A i \in Idx : ClosedRowAfter(progress'[i], i)
    BY <1>1, NoRowsClosed DEF ClosedRowAfter
  <2> QED BY <1>1, <2>1, <2>2, StopsStay, UnclaimedClosed DEF FailInTransaction, ClearClaim
<1>2. CASE UNCHANGED <<state, claimVars, switch, ledger, progress>>
  BY <1>2, KeptClosed DEF claimVars
<1> QED BY <1>1, <1>2 DEF ApplySetFailed

\* The rows of an item whose claim is over stay, with what they say.
LEMMA OverClosed ==
  ASSUME ClaimInv, FormInv, ClosedInv, SendsKept, AppliesStay, attempt' = NoAttempt,
         attempt = NoAttempt \/ state # "executing",
         ledger' = ledger \/ ledger' = NoRows, progress' = progress \/ progress' = NoRows
  PROVE  ClosedInv'
<1>1. ASSUME NEW i \in Idx
      PROVE  ClosedRowAfter(progress'[i], i) /\ ClosedRowAfter(ledger'[i], i)
  <2>1. ClosedRow(progress[i], i)
    BY DEF ClosedInv, ClosedRows
  <2>2. ClosedRowAfter(progress[i], i) /\ ClosedRowAfter(ledger[i], i) /\ ClosedRowAfter(NoRows[i], i)
    BY <2>1, LedgerClosed, RowStaysClosed, NoRowsClosed DEF ClosedRowAfter
  <2> QED BY <2>2
<1>2. \A i \in Idx : ledger'[i] = ledger[i] \/ ledger'[i].st # "stopUnknown"
  BY DEF NoRows, Blank, Row
<1> QED BY <1>1, <1>2, StopsStay, UnclaimedClosed

LEMMA RecoveredClosed ==
  ASSUME ClaimInv, FormInv, ClosedInv, SendsKept, AppliesStay, NEW r, NEW ph,
         RecoverInterruptedApply(r, ph), UNCHANGED RecoveryKeeps
  PROVE  ClosedInv'
<1>1. CASE /\ attempt # NoAttempt /\ attempt' = NoAttempt
           /\ ledger' = InterruptedLedger("unknown") /\ progress' = NoRows
  <2>1. ASSUME NEW i \in Idx
        PROVE  ClosedRowAfter(progress'[i], i) /\ ClosedRowAfter(ledger'[i], i)
    <3>1. ClosedRow(ledger'[i], i)
      BY <1>1, InterruptedClosed DEF UnknownStatuses
    <3> QED BY <1>1, <3>1, RowStaysClosed, NoRowsClosed DEF ClosedRowAfter
  <2>2. \A i \in Idx : ledger'[i] = ledger[i] \/ ledger'[i].st # "stopUnknown"
    BY <1>1 DEF InterruptedLedger, Row, FormInv, NoStops, Stops
  <2> QED BY <1>1, <2>1, <2>2, StopsStay, UnclaimedClosed
<1>2. CASE UNCHANGED <<state, attempt, ledger, progress>>
  BY <1>2, KeptClosed DEF RecoveryKeeps
<1> QED BY <1>1, <1>2 DEF RecoverInterruptedApply

LEMMA ExecutionClosed ==
  ASSUME SharedTypeOK, ActionTypeOK, ActsForARun, ClaimInv, FormInv, ClosedInv, NEW p \in Procs,
         Execution(p)
  PROVE  ClosedInv'
<1>1. CASE ReadItem(p)
  <2>1. SendsKept /\ AppliesStay
    BY <1>1 DEF ReadItem, ActionTypeOK, SendsKept, AppliesStay, Reporting, applyVars, providerVars
  <2> QED BY <1>1, <2>1, KeptClosed DEF ReadItem, claimVars, outputVars
<1>2. CASE ClaimExecution(p)
  <2>1. SendsKept /\ AppliesStay
    BY <1>2 DEF ClaimExecution, ActionTypeOK, SendsKept, AppliesStay, Reporting, providerVars
  <2> QED BY <1>2, <2>1, OverClosed DEF ClaimExecution, outputVars
<1>3. CASE ClaimExecutionRefused(p) \/ MovedOn(p)
  BY <1>3, EndsApplies, KeptClosed
     DEF ClaimExecutionRefused, MovedOn, claimVars, outputVars, providerVars
<1>4. CASE SetActionsPending(p)
  <2>1. attempt = NoAttempt /\ attempt' = NoAttempt /\ ledger' = NoRows /\ progress' = NoRows
    BY <1>4 DEF SetActionsPending, BeforeGate, KeepDraft, Gated, FailInTransaction, ClearClaim
  <2> QED BY <1>4, <2>1, EndsApplies, OverClosed DEF SetActionsPending, providerVars
<1>5. CASE ResumeExecution(p)
  <2>1. attempt = NoAttempt /\ attempt' = NoAttempt /\ ledger' = ledger /\ progress' = progress
    BY <1>5 DEF ResumeExecution, BeforeGate, FailInTransaction, ClearClaim, outputVars
  <2> QED BY <1>5, <2>1, EndsApplies, OverClosed DEF ResumeExecution, providerVars
<1>6. CASE ExecutionFails(p)
  <2>1. attempt = NoAttempt
    BY <1>6 DEF ExecutionFails, ClaimInv, AuthorsBeforeGate, Active, BeforeGate
  <2>2. /\ attempt' = NoAttempt /\ (ledger' = ledger \/ ledger' = NoRows)
        /\ (progress' = progress \/ progress' = NoRows)
    BY <1>6 DEF ExecutionFails, FailInTransaction, ClearClaim, KeepDraft, outputVars
  <2> QED BY <1>6, <2>1, <2>2, EndsApplies, OverClosed DEF ExecutionFails, providerVars
<1> QED BY <1>1, <1>2, <1>3, <1>4, <1>5, <1>6 DEF Execution

LEMMA ClaimedClosed ==
  ASSUME SharedTypeOK, ActionTypeOK, DecidedInv, ClaimInv, OnceInv, TrueInv, FormInv, ClosedInv,
         NEW p \in Procs, ClaimApprovedActions(p)
  PROVE  ClosedInv'
<1>1. Claimable /\ AfterGate /\ RunKey = run /\ (attempt = NoAttempt \/ state # "executing")
  BY ClaimableIsOfRun DEF ClaimApprovedActions, AfterGate, ClaimInv, ClaimIsOfRun, Claimable, AutoPhase
<1>2. /\ state' = "executing" /\ attempt' # NoAttempt /\ progress' = NoRows
      /\ UNCHANGED <<run, pending, approved, ledger, landed>>
  BY DEF ClaimApprovedActions, providerVars
<1>3. /\ pc'[p] = "apply" /\ myRun'[p] = run /\ myRow'[p] = 1 /\ myLedger'[p] = ClaimedLedger
      /\ \A q \in Procs : myAttempt[q] # attempt'
      /\ \A q \in Procs \ {p} : /\ pc'[q] = pc[q] /\ myRun'[q] = myRun[q] /\ myRow'[q] = myRow[q]
                                /\ myLedger'[q] = myLedger[q] /\ myAttempt'[q] = myAttempt[q]
  BY <1>1 DEF ClaimApprovedActions, ActionTypeOK
<1>4. AfterGate'
  BY <1>1, <1>2 DEF AfterGate, Active
<1>5. ASSUME NEW i \in Idx, NEW r, Closed(r, i), r # run \/ ClaimedLedger[i].st # "none"
      PROVE  ClosedAfter(r, i)
  BY <1>2, <1>3, <1>5 DEF Closed, MaySend, ClosedAfter
<1>6. ASSUME NEW i \in Idx, AutoPhase \/ ledger[i].st \in {"none", "awaiting"}
      PROVE  Closed(run, i)
  <2>1. <<run, i>> \notin tried
    BY <1>1, <1>6 DEF Claimable, AutoPhase, OnceInv, FreshRunUntried, HeldRunUntried, NotTried
  <2>2. run \notin landed[i]
    BY <2>1 DEF TrueInv, LandedWasTried
  <2> QED BY <1>1, <2>2, NobodyActsForIt DEF Closed, MaySend
<1>7. ASSUME NEW i \in Idx
      PROVE  ClosedRowAfter(ClaimedLedger[i], i)
  <2>1. CASE ClaimedLedger[i] = ledger[i] /\ ledger[i].st # "none"
    BY <1>1, <1>5, <2>1, LedgerClosed DEF ClosedRow, ClosedRowAfter
  <2>2. CASE /\ AutoPhase \/ ledger[i].st \in {"none", "awaiting"}
             /\ ClaimedLedger[i] \in {Row("awaiting", RunKey), Row("held", RunKey)}
    BY <1>1, <1>5, <1>6, <2>2 DEF ClosedRowAfter, Row
  <2>3. CASE ClaimedLedger[i].st = "reused" \/ ClaimedLedger[i] = Blank
    BY <2>3 DEF ClosedRowAfter, SentNothing, Blank, Row
  <2> QED BY <2>1, <2>2, <2>3, ClaimedRow
<1>8. ASSUME NEW i \in Idx, NEW q \in Procs \ {p}, pc[q] \in Reporting
      PROVE  ClosedRowAfter(myLedger[q][i], i)
  <2>1. ClosedRow(myLedger[q][i], i) /\ OwnRow(myLedger[q][i], myRun[q])
    BY <1>8 DEF ClosedInv, ClosedRows, FormInv, OwnRows
  <2>2. myRun[q] # run
    BY <1>1, <1>8, NobodyActsForIt DEF Reporting
  <2> QED BY <1>5, <2>1, <2>2 DEF ClosedRow, ClosedRowAfter, OwnRow, SentNothing
<1>9. ASSUME NEW i \in Idx
      PROVE  ClosedRowAfter(ledger[i], i) \/ ledger[i].st = "awaiting"
  <2>1. CASE ClaimedLedger[i].st # "none"
    BY <1>1, <1>5, <2>1, LedgerClosed DEF ClosedRow, ClosedRowAfter
  <2>2. CASE ClaimedLedger[i].st = "none"
    <3>1. ledger[i].st \in {"none", "awaiting"} \/ AutoPhase
      BY <2>2, ClaimedRow
    <3>2. AutoPhase => ledger[i].st = "none"
      BY <1>1 DEF AutoPhase, FormInv, AutoStartsBlank, NoRows, Blank, Row
    <3> QED BY <3>1, <3>2 DEF ClosedRowAfter, SentNothing
  <2> QED BY <2>1, <2>2
<1>10. ClosedRows'
  <2>1. \A i \in Idx : ClosedRow(progress[i], i)'
    BY <1>2, NoRowsClosed DEF ClosedRow
  <2>2. \A i \in Idx : (ClosedRow(ledger[i], i) \/ (state = "executing" /\ AfterGate /\ ledger[i].st = "awaiting"))'
    BY <1>2, <1>4, <1>9 DEF ClosedRow, Closed, MaySend, ClosedRowAfter, ClosedAfter
  <2>3. \A q \in Procs, i \in Idx : pc'[q] \in Reporting => ClosedRowAfter(myLedger'[q][i], i)
    BY <1>3, <1>7, <1>8
  <2>4. \A q \in Procs, i \in Idx : (pc[q] \in Reporting => ClosedRow(myLedger[q][i], i))'
    BY <2>3 DEF ClosedRow, Closed, MaySend, ClosedRowAfter, ClosedAfter
  <2> QED BY <2>1, <2>2, <2>4 DEF ClosedRows
<1>11. UnapprovedClosed'
  <2>1. \A i \in Idx \ approved : ledger[i].st \in {"none", "awaiting"} => ClosedAfter(run, i)
    BY <1>1, <1>5, <1>6, ClaimedRow DEF Row, Blank
  <2> QED BY <1>2, <2>1 DEF UnapprovedClosed, Closed, MaySend, ClosedAfter
<1>12. AheadUnsent'
  <2>1. \A i \in Idx : i \in approved => ClaimedLedger[i].st \in Unsettled
    BY <1>1, ClaimedRow DEF Claimable, FormInv, ApprovedWaits, Unsettled, Blank, Row
  <2> QED BY <1>2, <1>3, <2>1 DEF AheadUnsent, HoldsClaim
<1>13. StopUnknownAhead'
  <2>1. \A i \in Idx : ledger[i].st # "stopUnknown"
    BY <1>1 DEF FormInv, HeldLedgerSettled
  <2> QED BY <1>2, <2>1 DEF StopUnknownAhead, Row
<1> QED BY <1>10, <1>11, <1>12, <1>13 DEF ClosedInv

\* An apply settles a row that was open, of a run nobody else acts for.
LEMMA SettlesApplies ==
  ASSUME ActionTypeOK, ClaimInv, OnceInv, TrueInv, NEW p \in Procs,
         pc[p] \in {"apply", "sending"}, myRow[p] \in Idx, myLedger[p][myRow[p]].st = "none",
         NEW st \in Statuses \ {"none"}, Decide(p, st), UNCHANGED <<myRun, myAttempt, myRow>>,
         pc'[p] \in {"apply", "sending"}, \A q \in Procs \ {p} : pc'[q] = pc[q],
         \A i \in Idx : landed'[i] \subseteq landed[i] \cup (IF i = myRow[p] THEN {myRun[p]} ELSE {}),
         SentNothing(Row(st, myRun[p])) => landed' = landed
  PROVE  SendsKept /\ AppliesStay
<1>1. /\ myLedger'[p][myRow[p]] = Row(st, myRun[p])
      /\ \A i \in Idx \ {myRow[p]} : myLedger'[p][i] = myLedger[p][i]
      /\ \A q \in Procs \ {p} : myLedger'[q] = myLedger[q]
  BY DEF Decide, ActionTypeOK
<1>2. SendsKept
  <2>1. \A q \in Procs : pc'[q] \in {"apply", "sending"} =>
          /\ pc[q] \in {"apply", "sending"} /\ myRun'[q] = myRun[q]
          /\ \A i \in Idx : myLedger'[q][i].st = "none" => myLedger[q][i].st = "none"
    BY <1>1 DEF Row
  <2>2. MaySend(p, myRun[p], myRow[p])
    BY DEF MaySend
  <2> QED BY <2>1, <2>2 DEF SendsKept
<1>3. ClosedRowAfter(Row(st, myRun[p]), myRow[p])
  <2>1. SentNothing(Row(st, myRun[p])) => myRun[p] \notin landed'[myRow[p]]
    BY DEF OnceInv, RowsUntried, NotTried, TrueInv, LandedWasTried
  <2>2. \A q \in Procs \ {p} : pc[q] \in {"apply", "sending"} => myRun[q] # myRun[p]
    BY DEF ClaimInv, RunsApart
  <2> QED BY <1>1, <2>1, <2>2 DEF ClosedRowAfter, ClosedAfter, Row
<1>4. AppliesStay
  <2>1. ASSUME NEW i \in Idx
        PROVE  /\ myLedger'[p][i] = myLedger[p][i] \/ ClosedRowAfter(myLedger'[p][i], i)
               /\ i > myRow[p] => myLedger'[p][i] = myLedger[p][i]
    <3>1. CASE i = myRow[p]
      BY <1>1, <1>3, <3>1
    <3>2. CASE i # myRow[p]
      BY <1>1, <3>2
    <3> QED BY <3>1, <3>2
  <2> QED BY <1>1, <2>1 DEF AppliesStay, Reporting
<1> QED BY <1>2, <1>4

\* A stop's row that was never sent is recorded so.
LEMMA UnsentClosed ==
  ASSUME SharedTypeOK, ActionTypeOK, ActsForARun, ClaimInv, OnceInv, TrueInv, FormInv, ClosedInv,
         NEW p \in Procs, RecordUnsentAfterStop(p), SendsKept, AppliesStay
  PROVE  ClosedInv'
<1>0. /\ pc[p] = "lost" /\ pc'[p] = "recover" /\ UNCHANGED <<state, run, pending, attempt, approved, progress>>
      /\ UNCHANGED <<myRun, landed>> /\ \A q \in Procs \ {p} : pc'[q] = pc[q]
  BY DEF RecordUnsentAfterStop, ActionTypeOK, claimVars, applyVars, providerVars
<1>1. CASE ledger' = ledger
  BY <1>0, <1>1, KeptClosed
<1>2. CASE /\ state = "failed"
           /\ ledger' = [i \in Idx |->
                           IF i >= FirstUnsent(p) /\ ledger[i] = Row("stopUnknown", myRun[p])
                           THEN Row("notSent", myRun[p]) ELSE ledger[i]]
  <2>1. attempt = NoAttempt
    BY <1>2 DEF ClaimInv, ClaimIsOfRun
  <2>2. ASSUME NEW i \in Idx, i >= FirstUnsent(p), ledger[i] = Row("stopUnknown", myRun[p])
        PROVE  ClosedAfter(myRun[p], i)
    <3>1. myRun[p] \notin landed[i]
      <4>1. CASE i > myRow[p]
        BY <1>0, <2>2, <4>1 DEF ClosedInv, StopUnknownAhead, Reporting, Unsettled, OnceInv, RowsUntried,
                                NotTried, TrueInv, LandedWasTried
      <4>2. CASE i = myRow[p] /\ SentNothing(myLedger[p][i])
        BY <1>0, <4>2 DEF ClosedInv, ClosedRows, ClosedRow, Closed, FormInv, OwnRows, OwnRow, SentNothing,
                          Reporting
      <4>3. myRow[p] \in Int
        BY DEF ActionTypeOK
      <4> QED BY <2>2, <4>1, <4>2, <4>3 DEF FirstUnsent
    <3>2. \A q \in Procs \ {p} : pc[q] \in {"apply", "sending"} => myRun[q] # myRun[p]
      BY <1>0 DEF ClaimInv, RunsApart
    <3> QED BY <1>0, <3>1, <3>2 DEF ClosedAfter
  <2>3. ASSUME NEW i \in Idx
        PROVE  ClosedRowAfter(progress'[i], i) /\ ClosedRowAfter(ledger'[i], i)
    <3>1. ClosedRow(progress[i], i) /\ ClosedRow(ledger[i], i)
      BY <2>1, LedgerClosed DEF ClosedInv, ClosedRows
    <3> QED BY <1>0, <1>2, <2>2, <3>1, RowStaysClosed DEF ClosedRowAfter, Row
  <2>4. \A i \in Idx : ledger'[i] = ledger[i] \/ ledger'[i].st # "stopUnknown"
    BY <1>2 DEF Row
  <2> QED BY <1>0, <2>1, <2>3, <2>4, StopsStay, UnclaimedClosed
<1> QED BY <1>1, <1>2 DEF RecordUnsentAfterStop

LEMMA ApplyClosed ==
  ASSUME SharedTypeOK, ActionTypeOK, ActsForARun, DecidedInv, ClaimInv, OnceInv, TrueInv, FormInv,
         ClosedInv, NEW p \in Procs, Apply(p)
  PROVE  ClosedInv'
<1>1. CASE ClaimApprovedActions(p)
  BY <1>1, ClaimedClosed
<1>2. CASE RefuseRow(p) \/ Authorise(p)
  <2>1. /\ pc[p] = "apply" /\ myRow[p] \in Idx /\ myLedger[p][myRow[p]].st = "none"
        /\ UNCHANGED <<myRun, myAttempt, myRow, landed>>
    BY <1>2 DEF RefuseRow, Authorise, Undecided, UpTo, providerVars
  <2>2. CASE \E st \in {"failed", "held"} : Decide(p, st) /\ UNCHANGED pc
    <3>1. SendsKept /\ AppliesStay
      BY <2>1, <2>2, SettlesApplies DEF Statuses
    <3> QED BY <1>2, <3>1, KeptClosed DEF RefuseRow, Authorise, claimVars, outputVars
  <2>3. CASE pc' = [pc EXCEPT ![p] = "sending"] /\ UNCHANGED myLedger
    <3>1. SendsKept /\ AppliesStay
      BY <2>1, <2>3 DEF ActionTypeOK, SendsKept, AppliesStay, Reporting
    <3> QED BY <1>2, <3>1, KeptClosed DEF RefuseRow, Authorise, claimVars, outputVars
  <2> QED BY <1>2, <2>2, <2>3 DEF RefuseRow, Authorise
<1>3. CASE Send(p)
  <2>1. /\ pc[p] = "sending" /\ myRow[p] \in Idx /\ myLedger[p][myRow[p]].st = "none"
        /\ UNCHANGED <<myRun, myAttempt, myRow>> /\ pc' = [pc EXCEPT ![p] = "apply"]
    BY <1>3 DEF Send, ActsForARun, DecidedInv, SendsBlank
  <2>2. PICK taken \in BOOLEAN, st \in {"landed", "failed", "unknown"} :
          /\ st = "failed" => ~taken
          /\ landed' = IF taken THEN [landed EXCEPT ![myRow[p]] = @ \cup {myRun[p]}] ELSE landed
          /\ Decide(p, st)
    BY <1>3 DEF Send
  <2>3. \A i \in Idx : landed'[i] \subseteq landed[i] \cup (IF i = myRow[p] THEN {myRun[p]} ELSE {})
    BY <2>1, <2>2 DEF SharedTypeOK, RecordTypeOK
  <2>4. SentNothing(Row(st, myRun[p])) => landed' = landed
    BY <2>2 DEF SentNothing, Row
  <2>5. pc'[p] = "apply" /\ \A q \in Procs \ {p} : pc'[q] = pc[q]
    BY <2>1 DEF ActionTypeOK
  <2>6. SendsKept /\ AppliesStay
    BY <2>1, <2>2, <2>3, <2>4, <2>5, SettlesApplies DEF Statuses
  <2> QED BY <1>3, <2>6, KeptClosed DEF Send, claimVars, outputVars
<1>4. CASE RecordApplyOutcome(p)
  <2> USE <1>4 DEF RecordApplyOutcome, UpTo
  <2>1. SendsKept /\ AppliesStay
    BY DEF ActionTypeOK, SendsKept, AppliesStay, Reporting, providerVars
  <2>2. \A i \in Idx : progress'[i] \in {progress[i], myLedger[p][i]}
    BY DEF SharedTypeOK, OutputTypeOK
  <2>3. \A i \in Idx : progress'[i] = progress[i] \/ ClosedRowAfter(progress'[i], i)
    BY <2>1, <2>2, RowStaysClosed DEF ClosedInv, ClosedRows, Reporting
  <2> QED BY <2>1, <2>3, KeptClosed DEF claimVars
<1>5. CASE RecordUnsentAfterStop(p)
  <2>1. SendsKept /\ AppliesStay
    BY <1>5 DEF RecordUnsentAfterStop, ActionTypeOK, SendsKept, AppliesStay, Reporting, applyVars, providerVars
  <2> QED BY <1>5, <2>1, UnsentClosed
<1>6. CASE ApplyThrows(p)
  <2>1. SendsKept /\ AppliesStay
    BY <1>6 DEF ApplyThrows, ActionTypeOK, SendsKept, AppliesStay, Reporting, applyVars, providerVars
  <2> QED BY <1>6, <2>1, KeptClosed DEF ApplyThrows, claimVars, outputVars
<1>7. CASE Recover(p)
  BY <1>7, EndsApplies, RecoveredClosed DEF Recover, RecoveryKeeps, providerVars
<1>8. CASE FinishFailed(p) \/ StopOnQuestion(p)
  BY <1>8, EndsApplies, FailedClosed DEF FinishFailed, StopOnQuestion, providerVars
<1>9. ASSUME Ends(p), pc[p] = "finish", attempt' = NoAttempt, ledger' = myLedger[p], progress' = NoRows,
             UNCHANGED landed
      PROVE  ClosedInv'
  <2>1. ASSUME NEW i \in Idx
        PROVE  ClosedRowAfter(ledger'[i], i) /\ ClosedRowAfter(progress'[i], i) /\ ledger'[i].st # "stopUnknown"
    <3>1. ClosedRow(ledger'[i], i) /\ ledger'[i].st # "stopUnknown"
      BY <1>9 DEF ClosedInv, ClosedRows, FormInv, NoStops, Stops, Reporting
    <3> QED BY <1>9, <3>1, EndsApplies, RowStaysClosed, NoRowsClosed DEF ClosedRowAfter
  <2> QED BY <1>9, <2>1, EndsApplies, StopsStay, UnclaimedClosed
<1>10. CASE SetAwaitingApproval(p)
  <2> USE <1>10 DEF SetAwaitingApproval
  <2>1. CASE HoldsClaim(p) /\ run = myRun[p] /\ phase # "none"
    BY <1>9, <2>1 DEF providerVars
  <2>2. CASE ~(HoldsClaim(p) /\ run = myRun[p] /\ phase # "none")
    BY <2>2, EndsApplies, KeptClosed DEF providerVars
  <2> QED BY <2>1, <2>2
<1>11. CASE SetCompleted(p)
  <2> USE <1>11 DEF SetCompleted
  <2>1. CASE state = "executing" /\ run = myRun[p]
    BY <1>9, <2>1 DEF ClearClaim, providerVars
  <2>2. CASE ~(state = "executing" /\ run = myRun[p])
    <3>1. SendsKept /\ AppliesStay
      BY <2>2 DEF ActionTypeOK, SendsKept, AppliesStay, Reporting, applyVars, providerVars
    <3> QED BY <2>2, <3>1, KeptClosed DEF claimVars
  <2> QED BY <2>1, <2>2
<1> QED BY <1>1, <1>2, <1>3, <1>4, <1>5, <1>6, <1>7, <1>8, <1>10, <1>11 DEF Apply

LEMMA SchedulerClosed ==
  ASSUME ClaimInv, FormInv, ClosedInv, Scheduler
  PROVE  ClosedInv'
<1>1. CASE ClaimRefused \/ ResumeHeldApplies
  BY <1>1, KeptApplies, KeptClosed DEF ClaimRefused, ResumeHeldApplies, claimVars, outputVars, providerVars
<1>2. CASE ParkOnConnection \/ SweepStalled
  <2>1. attempt = NoAttempt \/ state # "executing"
    BY <1>2 DEF ParkOnConnection, Claimable, SweepStalled, BeforeGate
  <2> QED BY <1>2, <2>1, KeptApplies, OverClosed
       DEF ParkOnConnection, SweepStalled, FailInTransaction, ClearClaim, outputVars, providerVars
<1>3. CASE FireSwitch
  BY <1>3, KeptApplies, RecoveredClosed DEF FireSwitch, RecoveryKeeps, providerVars
<1> QED BY <1>1, <1>2, <1>3 DEF Scheduler

\* A stop of an apply in flight: what it had not reported is of unknown outcome.
LEMMA StoppedClosed ==
  ASSUME ClaimInv, FormInv, ClosedInv, StopRun
  PROVE  ClosedInv'
<1>1. SendsKept /\ AppliesStay /\ attempt' = NoAttempt
  BY KeptApplies DEF StopRun, FailInTransaction, ClearClaim, providerVars
<1>2. CASE UNCHANGED <<ledger, progress>> /\ (attempt = NoAttempt \/ pending = 0)
  <2>1. attempt = NoAttempt
    BY <1>2 DEF ClaimInv, ClaimIsOfRun, RunIsActive, Active
  <2> QED BY <1>1, <1>2, <2>1, OverClosed
<1>3. CASE attempt # NoAttempt /\ ledger' = InterruptedLedger("stopUnknown") /\ progress' = NoRows
  <2>1. ASSUME NEW i \in Idx
        PROVE  ClosedRowAfter(progress'[i], i) /\ ClosedRowAfter(ledger'[i], i)
    <3>1. ClosedRow(ledger'[i], i)
      BY <1>3, InterruptedClosed DEF UnknownStatuses
    <3> QED BY <1>1, <1>3, <3>1, RowStaysClosed, NoRowsClosed DEF ClosedRowAfter
  <2>2. AfterGate /\ state = "executing"
    BY <1>3 DEF ClaimInv, ClaimIsOfRun, AfterGate, Active
  <2>3. ASSUME NEW q \in Procs, pc[q] \in Reporting, NEW i \in Idx, i > myRow[q],
               ledger'[i] = Row("stopUnknown", myRun[q])
        PROVE  myLedger[q][i].st \in Unsettled
    <3>1. i \in approved /\ myRun[q] = run
      BY <1>3, <2>2, <2>3
         DEF InterruptedLedger, Row, FormInv, HeldLedgerSettled, NoStops, Stops, RunKey, ClaimInv,
             RunIsActive, Active
    <3>2. HoldsClaim(q)
      BY <2>2, <2>3, <3>1 DEF AfterGate, ClaimInv, OneHolder, Reporting, Applying
    <3> QED BY <2>3, <3>1, <3>2 DEF ClosedInv, AheadUnsent
  <2>4. StopUnknownAhead'
    BY <2>3 DEF StopRun, procVars, applyVars, StopUnknownAhead
  <2> QED BY <1>1, <2>1, <2>4, UnclaimedClosed
<1> QED BY <1>2, <1>3 DEF StopRun

LEMMA ManagerClosed ==
  ASSUME SharedTypeOK, ClaimInv, FormInv, ClosedInv, Manager
  PROVE  ClosedInv'
<1>1. CASE \E r \in Runs, S \in SUBSET Idx : ApproveActions(r, S)
  <2>1. attempt = NoAttempt
    BY <1>1 DEF ApproveActions, ClaimInv, ClaimIsOfRun
  <2> QED BY <1>1, <2>1, KeptApplies, OverClosed DEF ApproveActions, outputVars, providerVars
<1>2. CASE \E r \in Runs : RejectActions(r)
  <2>1. /\ attempt = NoAttempt /\ attempt' = NoAttempt /\ ledger' = Settled(ledger)
        /\ UNCHANGED <<progress, procVars, providerVars>>
    BY <1>2 DEF RejectActions, ClaimInv, ClaimIsOfRun, ClearClaim
  <2>2. SendsKept /\ AppliesStay
    BY <2>1, KeptApplies DEF providerVars
  <2>3. ASSUME NEW i \in Idx
        PROVE  /\ ClosedRowAfter(progress'[i], i) /\ ClosedRowAfter(ledger'[i], i)
               /\ ledger'[i] = ledger[i] \/ ledger'[i].st # "stopUnknown"
    <3>1. ClosedRow(progress[i], i) /\ ClosedRow(ledger[i], i)
      BY <2>1, LedgerClosed DEF ClosedInv, ClosedRows
    <3>2. /\ ledger'[i].key = ledger[i].key /\ (SentNothing(ledger'[i]) => SentNothing(ledger[i]))
          /\ ledger'[i] = ledger[i] \/ ledger'[i].st # "stopUnknown"
      BY <2>1 DEF Settled, SentNothing, SharedTypeOK, OutputTypeOK, Rows, Row, Blank
    <3> QED BY <2>1, <2>2, <3>1, <3>2, KeyStaysClosed, RowStaysClosed DEF ClosedRow, ClosedRowAfter
  <2> QED BY <2>1, <2>2, <2>3, StopsStay, UnclaimedClosed
<1>3. CASE StopRun
  BY <1>3, StoppedClosed
<1>4. CASE ReconcileFailed \/ SetPaused
  BY <1>4, KeptApplies, KeptClosed DEF ReconcileFailed, SetPaused, claimVars, outputVars, providerVars
<1>5. CASE RetryFailed
  BY <1>5, KeptApplies, OverClosed DEF RetryFailed, providerVars
<1>6. CASE PlanAgain
  <2>1. attempt = NoAttempt
    BY <1>6 DEF PlanAgain, ClaimInv, ClaimIsOfRun
  <2> QED BY <1>6, <2>1, KeptApplies, OverClosed DEF PlanAgain, claimVars, outputVars, providerVars
<1> QED BY <1>1, <1>2, <1>3, <1>4, <1>5, <1>6 DEF Manager

LEMMA ClosedStep ==
  TypeInv /\ DecidedInv /\ ClaimInv /\ OnceInv /\ TrueInv /\ FormInv /\ ClosedInv /\ [Next]_vars
    => ClosedInv'
<1> SUFFICES ASSUME SharedTypeOK, ActionTypeOK, ActsForARun, DecidedInv, ClaimInv, OnceInv, TrueInv,
                    FormInv, ClosedInv, [Next]_vars
             PROVE  ClosedInv'
  BY DEF TypeInv, TypeOK, SharedTypeOK
<1>1. ASSUME NEW p \in Procs, Execution(p) \/ Apply(p)
      PROVE  ClosedInv'
  BY <1>1, ExecutionClosed, ApplyClosed
<1>2. ASSUME NEW p \in Procs, Crash(p)
      PROVE  ClosedInv'
  BY <1>2, EndsApplies, KeptClosed DEF Crash, claimVars, outputVars, providerVars
<1>3. CASE Scheduler \/ Manager
  BY <1>3, SchedulerClosed, ManagerClosed
<1>4. CASE UNCHANGED vars
  BY <1>4, KeptApplies, KeptClosed DEF vars, claimVars, outputVars, providerVars
<1> QED BY <1>1, <1>2, <1>3, <1>4 DEF Next

\* A row that says its write was not sent is right, and stays right: no apply,
\* stopped, overtaken or late, is about to send it (recordUnsentAfterStop,
\* interruptedApplyLedger).
THEOREM DenialTrue == Spec => []DenialIsTrue
<1>1. DecidedInv /\ ClosedInv /\ ActsForARun => DenialIsTrue
  BY DEF DecidedInv, SendsBlank, ActsForARun, ClosedInv, ClosedRows, ClosedRow, Closed, MaySend,
         DenialIsTrue, RowKey
<1> QED BY TypeInit, TypeStep, DecidedInit, DecidedStep, ClaimInit, ClaimStep, OnceInit, OnceStep,
           TrueInit, TrueStep, FormInit, FormStep, ClosedInit, ClosedStep, <1>1, PTL DEF Spec, TypeInv

-----------------------------------------------------------------------------
(* What a completed item rests on. *)

\* An apply has decided every row behind it.
BehindDecided ==
  \A p \in Procs : pc[p] \in Reporting =>
    \A i \in Idx : i < myRow[p] \/ pc[p] = "finish" => myLedger[p][i].st # "none"

\* A reused row stands for a write the run carries.
ReusedCarried ==
  /\ AfterGate => \A i \in Idx : ledger[i].st = "reused" => RowKey(i) \in carried
  /\ \A p \in Procs : pc[p] \in Reporting /\ HoldsClaim(p) =>
       \A i \in Idx : myLedger[p][i].st = "reused" => <<myLedger[p][i].key, i>> \in carried

CompleteInv == BehindDecided /\ ReusedCarried /\ CompletedIsTrue

DecidedStay ==
  \A q \in Procs : pc'[q] \in Reporting =>
    /\ pc[q] \in Reporting /\ myAttempt'[q] = myAttempt[q]
    /\ \A i \in Idx :
         /\ i < myRow'[q] \/ pc'[q] = "finish" =>
              i < myRow[q] \/ pc[q] = "finish" \/ myLedger[q][i].st # "none"
         /\ \/ myLedger'[q][i] = myLedger[q][i]
            \/ myLedger'[q][i].st \notin {"none", "reused"}

LandedGrows == \A i \in Idx : landed[i] \subseteq landed'[i]

LEMMA EndsDecided ==
  ASSUME ActionTypeOK, NEW p \in Procs, Ends(p)
  PROVE  DecidedStay
<1>1. /\ pc'[p] = "idle"
      /\ \A q \in Procs \ {p} : /\ pc'[q] = pc[q] /\ myRow'[q] = myRow[q]
                                /\ myLedger'[q] = myLedger[q] /\ myAttempt'[q] = myAttempt[q]
  BY DEF ActionTypeOK, Ends
<1> QED BY <1>1 DEF DecidedStay, Reporting

LEMMA KeptDecided ==
  ASSUME UNCHANGED procVars
  PROVE  DecidedStay
BY DEF procVars, applyVars, DecidedStay

LEMMA BehindStays ==
  ASSUME CompleteInv, DecidedStay
  PROVE  BehindDecided'
BY DEF CompleteInv, BehindDecided, DecidedStay

LEMMA KeptComplete ==
  ASSUME CompleteInv, DecidedStay, LandedGrows, UNCHANGED <<state, run, pending, attempt, ledger, carried>>
  PROVE  CompleteInv'
<1>1. ReusedCarried'
  BY DEF CompleteInv, ReusedCarried, DecidedStay, AfterGate, Active, RowKey, HoldsClaim
<1>2. CompletedIsTrue'
  BY DEF CompleteInv, CompletedIsTrue, LandedGrows, RowKey
<1> QED BY <1>1, <1>2, BehindStays DEF CompleteInv

LEMMA UnclaimedComplete ==
  ASSUME ClaimInv, CompleteInv, DecidedStay, attempt' = NoAttempt, state' # "completed",
         AfterGate' => \A i \in Idx : ledger'[i].st = "reused" => <<ledger'[i].key, i>> \in carried'
  PROVE  CompleteInv'
<1>1. \A q \in Procs : pc'[q] \in Reporting => myAttempt'[q] # NoAttempt
  BY DEF DecidedStay, ClaimInv, AttemptsApart, Reporting, Applying
<1>2. ReusedCarried'
  BY <1>1 DEF ReusedCarried, HoldsClaim, RowKey
<1>3. CompletedIsTrue'
  BY DEF CompletedIsTrue
<1> QED BY <1>2, <1>3, BehindStays DEF CompleteInv

LEMMA EndedComplete ==
  ASSUME ClaimInv, CompleteInv, DecidedStay, attempt' = NoAttempt,
         state' \notin {"executing", "actions-pending", "completed"}
  PROVE  CompleteInv'
BY UnclaimedComplete DEF AfterGate, Active

LEMMA CompleteInit == Init => CompleteInv
BY DEF Init, CompleteInv, BehindDecided, ReusedCarried, CompletedIsTrue, AfterGate, Active, Reporting

LEMMA RecoveredComplete ==
  ASSUME ClaimInv, CompleteInv, DecidedStay, NEW r, NEW ph, RecoverInterruptedApply(r, ph),
         UNCHANGED RecoveryKeeps
  PROVE  CompleteInv'
<1>1. CASE state' = "failed" /\ attempt' = NoAttempt
  BY <1>1, EndedComplete
<1>2. CASE UNCHANGED <<state, attempt, ledger>>
  BY <1>2, KeptComplete DEF RecoveryKeeps, providerVars, LandedGrows
<1> QED BY <1>1, <1>2 DEF RecoverInterruptedApply

LEMMA FailedComplete ==
  ASSUME ClaimInv, CompleteInv, DecidedStay, NEW p \in Procs, NEW led, ApplySetFailed(p, led),
         UNCHANGED <<landed, carried>>
  PROVE  CompleteInv'
<1>1. CASE FailInTransaction
  BY <1>1, EndedComplete DEF FailInTransaction, ClearClaim
<1>2. CASE UNCHANGED <<state, claimVars, switch, ledger, progress>>
  BY <1>2, KeptComplete DEF claimVars, LandedGrows
<1> QED BY <1>1, <1>2 DEF ApplySetFailed

LEMMA ExecutionComplete ==
  ASSUME SharedTypeOK, ActionTypeOK, ClaimInv, CompleteInv, NEW p \in Procs, Execution(p)
  PROVE  CompleteInv'
<1>1. CASE ReadItem(p)
  <2>1. DecidedStay
    BY <1>1 DEF ReadItem, ActionTypeOK, DecidedStay, Reporting, applyVars
  <2> QED BY <1>1, <2>1, KeptComplete DEF ReadItem, claimVars, outputVars, providerVars, LandedGrows
<1>2. CASE ClaimExecution(p)
  <2>1. DecidedStay
    BY <1>2 DEF ClaimExecution, ActionTypeOK, DecidedStay, Reporting
  <2>2. ~AfterGate'
    BY <1>2 DEF ClaimExecution, AfterGate, SharedTypeOK, ItemTypeOK
  <2> QED BY <1>2, <2>1, <2>2, UnclaimedComplete DEF ClaimExecution
<1>3. CASE ClaimExecutionRefused(p) \/ MovedOn(p)
  BY <1>3, EndsDecided, KeptComplete
     DEF ClaimExecutionRefused, MovedOn, claimVars, outputVars, providerVars, LandedGrows
<1>4. CASE SetActionsPending(p)
  <2>1. attempt' = NoAttempt /\ state' # "completed" /\ \A i \in Idx : ledger'[i].st # "reused"
    BY <1>4 DEF SetActionsPending, BeforeGate, KeepDraft, Gated, FailInTransaction, ClearClaim, NoRows,
                Blank, Row
  <2> QED BY <1>4, <2>1, EndsDecided, UnclaimedComplete DEF SetActionsPending
<1>5. CASE ResumeExecution(p) \/ ExecutionFails(p)
  <2>1. attempt' = NoAttempt /\ state' \in {"plan-approved", "failed"}
    BY <1>5 DEF ResumeExecution, ExecutionFails, BeforeGate, FailInTransaction, ClearClaim
  <2> QED BY <1>5, <2>1, EndsDecided, EndedComplete DEF ResumeExecution, ExecutionFails
<1> QED BY <1>1, <1>2, <1>3, <1>4, <1>5 DEF Execution

LEMMA ClaimedComplete ==
  ASSUME SharedTypeOK, ActionTypeOK, DecidedInv, ClaimInv, TrueInv, CompleteInv, NEW p \in Procs,
         ClaimApprovedActions(p)
  PROVE  CompleteInv'
<1>1. Claimable /\ AfterGate
  BY ClaimableIsOfRun DEF ClaimApprovedActions, AfterGate
<1>2. state' = "executing" /\ UNCHANGED <<run, pending, ledger, carried>>
  BY DEF ClaimApprovedActions
<1>3. /\ pc'[p] = "apply" /\ myRow'[p] = 1 /\ myLedger'[p] = ClaimedLedger
      /\ \A q \in Procs : myAttempt[q] # attempt'
      /\ \A q \in Procs \ {p} : /\ pc'[q] = pc[q] /\ myRow'[q] = myRow[q]
                                /\ myLedger'[q] = myLedger[q] /\ myAttempt'[q] = myAttempt[q]
  BY DEF ClaimApprovedActions, ActionTypeOK
<1>4. BehindDecided'
  BY <1>3 DEF CompleteInv, BehindDecided
<1>5. ASSUME NEW i \in Idx, ClaimedLedger[i].st = "reused"
      PROVE  <<ClaimedLedger[i].key, i>> \in carried
  <2>1. ClaimedLedger[i] = ledger[i] \/ ClaimedLedger[i] = Reused(i)
    BY <1>5, ClaimedRow DEF Blank, Row
  <2>2. CASE ClaimedLedger[i] = ledger[i]
    BY <1>1, <1>5, <2>2 DEF CompleteInv, ReusedCarried, RowKey
  <2>3. CASE ClaimedLedger[i] = Reused(i)
    BY <1>5, <2>3, ReusedKnown DEF TrueInv
  <2> QED BY <2>1, <2>2, <2>3
<1>6. ReusedCarried'
  BY <1>1, <1>2, <1>3, <1>5 DEF CompleteInv, ReusedCarried, HoldsClaim, AfterGate, Active, RowKey
<1> QED BY <1>2, <1>4, <1>6 DEF CompleteInv, CompletedIsTrue

LEMMA SettlesDecided ==
  ASSUME ActionTypeOK, NEW p \in Procs, pc[p] \in {"apply", "sending"}, myRow[p] \in Idx,
         NEW st \in Statuses \ {"none", "reused"}, Decide(p, st), UNCHANGED <<myAttempt, myRow>>,
         pc'[p] \in {"apply", "sending"}, \A q \in Procs \ {p} : pc'[q] = pc[q]
  PROVE  DecidedStay
<1>1. /\ myLedger'[p][myRow[p]] = Row(st, myRun[p])
      /\ \A i \in Idx \ {myRow[p]} : myLedger'[p][i] = myLedger[p][i]
      /\ \A q \in Procs \ {p} : myLedger'[q] = myLedger[q]
  BY DEF Decide, ActionTypeOK
<1>2. \A i \in Idx : myLedger'[p][i] = myLedger[p][i] \/ myLedger'[p][i].st \notin {"none", "reused"}
  BY <1>1 DEF Row
<1> QED BY <1>1, <1>2 DEF DecidedStay, Reporting

LEMMA ReportedComplete ==
  ASSUME SharedTypeOK, ActionTypeOK, CompleteInv, NEW p \in Procs, RecordApplyOutcome(p)
  PROVE  CompleteInv'
<1>1. /\ pc[p] = "apply" /\ myRow[p] \in Idx /\ myLedger[p][myRow[p]].st # "none"
      /\ UNCHANGED <<myLedger, myAttempt, state, run, pending, attempt, ledger, carried, landed>>
      /\ \A q \in Procs \ {p} : pc'[q] = pc[q] /\ myRow'[q] = myRow[q]
  BY DEF RecordApplyOutcome, UpTo, ActionTypeOK, claimVars, providerVars
<1>2. \/ pc'[p] = "lost" /\ myRow'[p] = myRow[p]
      \/ myRow'[p] = myRow[p] + 1 /\ (pc'[p] = "finish" => myRow[p] = N)
  BY DEF RecordApplyOutcome, UpTo, ActionTypeOK
<1>3. ASSUME NEW i \in Idx, i < myRow'[p] \/ pc'[p] = "finish"
      PROVE  i < myRow[p] \/ i = myRow[p]
  BY <1>1, <1>2, <1>3
<1>4. DecidedStay
  <2>1. ASSUME NEW i \in Idx, i < myRow'[p] \/ pc'[p] = "finish"
        PROVE  i < myRow[p] \/ myLedger[p][i].st # "none"
    BY <1>1, <1>3, <2>1
  <2> QED BY <1>1, <2>1 DEF DecidedStay, Reporting
<1> QED BY <1>1, <1>4, KeptComplete DEF LandedGrows

\* A run completes on the rows of the apply that holds its claim.
LEMMA CompletedComplete ==
  ASSUME SharedTypeOK, ActionTypeOK, ActsForARun, ClaimInv, TrueInv, FormInv, CompleteInv,
         NEW p \in Procs, SetCompleted(p), state = "executing", run = myRun[p]
  PROVE  CompleteInv'
<1>1. /\ pc[p] = "finish" /\ Ends(p) /\ state' = "completed" /\ ledger' = myLedger[p]
      /\ attempt' = NoAttempt /\ UNCHANGED <<carried, landed>>
  BY DEF SetCompleted, ClearClaim, providerVars
<1>2. HoldsClaim(p)
  BY <1>1 DEF ClaimInv, OneHolder, Applying, Active, HoldsClaim
<1>3. ASSUME NEW i \in Idx
      PROVE  myLedger[p][i].st \in {"landed", "reused", "held"}
  <2>1. myLedger[p][i].st \in Statuses
    BY DEF ActionTypeOK, Rows, Blank, Row, Statuses
  <2>2. myLedger[p][i].st \notin {"none"} \cup Stops
    BY <1>1 DEF CompleteInv, BehindDecided, FormInv, NoStops, Reporting
  <2>3. myLedger[p][i].st \notin FailedStatuses \cup {"awaiting"}
    BY DEF SetCompleted, Has
  <2> QED BY <2>1, <2>2, <2>3 DEF Statuses, Stops, FailedStatuses
<1>4. CompletedIsTrue'
  <2>1. ASSUME NEW i \in Idx
        PROVE  /\ myLedger[p][i].st = "landed" => myLedger[p][i].key \in landed[i]
               /\ myLedger[p][i].st = "reused" => <<myLedger[p][i].key, i>> \in carried
    BY <1>1, <1>2 DEF TrueInv, TrueRows, TrueRow, CompleteInv, ReusedCarried, Reporting
  <2> QED BY <1>1, <1>3, <2>1 DEF CompletedIsTrue, RowKey
<1>5. \A q \in Procs : pc'[q] \in Reporting => myAttempt'[q] # NoAttempt
  BY <1>1, EndsDecided DEF DecidedStay, ClaimInv, AttemptsApart, Reporting, Applying
<1>6. ReusedCarried'
  BY <1>1, <1>5 DEF ReusedCarried, AfterGate, Active, HoldsClaim
<1> QED BY <1>1, <1>4, <1>6, EndsDecided, BehindStays DEF CompleteInv

LEMMA ApplyComplete ==
  ASSUME SharedTypeOK, ActionTypeOK, ActsForARun, DecidedInv, ClaimInv, TrueInv, FormInv, CompleteInv,
         NEW p \in Procs, Apply(p)
  PROVE  CompleteInv'
<1>1. CASE ClaimApprovedActions(p)
  BY <1>1, ClaimedComplete
<1>2. CASE RefuseRow(p) \/ Authorise(p) \/ Send(p)
  <2>1. /\ UNCHANGED <<myRun, myAttempt, myRow, state, run, pending, attempt, ledger, carried>>
        /\ pc[p] \in {"apply", "sending"} /\ myRow[p] \in Idx
        /\ pc'[p] \in {"apply", "sending"} /\ \A q \in Procs \ {p} : pc'[q] = pc[q]
    BY <1>2 DEF RefuseRow, Authorise, Send, Undecided, UpTo, ActionTypeOK, ActsForARun, claimVars, outputVars
  <2>2. LandedGrows
    BY <1>2 DEF RefuseRow, Authorise, Send, providerVars, LandedGrows, SharedTypeOK, RecordTypeOK
  <2>3. (\E st \in {"failed", "held", "landed", "unknown"} : Decide(p, st)) \/ UNCHANGED myLedger
    BY <1>2 DEF RefuseRow, Authorise, Send
  <2>4. DecidedStay
    <3>1. CASE \E st \in {"failed", "held", "landed", "unknown"} : Decide(p, st)
      BY <2>1, <3>1, SettlesDecided DEF Statuses
    <3>2. CASE UNCHANGED myLedger
      BY <2>1, <3>2 DEF DecidedStay, Reporting
    <3> QED BY <2>3, <3>1, <3>2
  <2> QED BY <2>1, <2>2, <2>4, KeptComplete
<1>3. CASE RecordApplyOutcome(p)
  BY <1>3, ReportedComplete
<1>4. CASE RecordUnsentAfterStop(p)
  <2>1. DecidedStay
    BY <1>4 DEF RecordUnsentAfterStop, ActionTypeOK, DecidedStay, Reporting, applyVars
  <2>2. CASE state = "failed"
    BY <1>4, <2>1, <2>2, EndedComplete DEF RecordUnsentAfterStop, ClaimInv, ClaimIsOfRun, claimVars
  <2>3. CASE state # "failed"
    BY <1>4, <2>1, <2>3, KeptComplete DEF RecordUnsentAfterStop, claimVars, providerVars, LandedGrows
  <2> QED BY <2>2, <2>3
<1>5. CASE ApplyThrows(p)
  <2>1. DecidedStay
    BY <1>5 DEF ApplyThrows, ActionTypeOK, DecidedStay, Reporting, applyVars
  <2> QED BY <1>5, <2>1, KeptComplete DEF ApplyThrows, claimVars, outputVars, providerVars, LandedGrows
<1>6. CASE Recover(p)
  BY <1>6, EndsDecided, RecoveredComplete DEF Recover
<1>7. CASE FinishFailed(p) \/ StopOnQuestion(p)
  BY <1>7, EndsDecided, FailedComplete DEF FinishFailed, StopOnQuestion, providerVars
<1>8. CASE SetAwaitingApproval(p)
  <2> USE <1>8 DEF SetAwaitingApproval
  <2>1. CASE HoldsClaim(p) /\ run = myRun[p] /\ phase # "none"
    <3>1. \A i \in Idx : myLedger[p][i].st = "reused" => <<myLedger[p][i].key, i>> \in carried
      BY <2>1 DEF CompleteInv, ReusedCarried, Reporting
    <3> QED BY <2>1, <3>1, EndsDecided, UnclaimedComplete
  <2>2. CASE ~(HoldsClaim(p) /\ run = myRun[p] /\ phase # "none")
    BY <2>2, EndsDecided, KeptComplete DEF providerVars, LandedGrows
  <2> QED BY <2>1, <2>2
<1>9. CASE SetCompleted(p)
  <2>1. CASE state = "executing" /\ run = myRun[p]
    BY <1>9, <2>1, CompletedComplete
  <2>2. CASE ~(state = "executing" /\ run = myRun[p])
    <3> USE <1>9, <2>2 DEF SetCompleted
    <3>1. DecidedStay
      BY DEF ActionTypeOK, DecidedStay, Reporting, applyVars
    <3> QED BY <3>1, KeptComplete DEF claimVars, providerVars, LandedGrows
  <2> QED BY <2>1, <2>2
<1> QED BY <1>1, <1>2, <1>3, <1>4, <1>5, <1>6, <1>7, <1>8, <1>9 DEF Apply

LEMMA SchedulerComplete ==
  ASSUME ClaimInv, CompleteInv, Scheduler
  PROVE  CompleteInv'
<1>1. CASE ClaimRefused \/ ResumeHeldApplies
  BY <1>1, KeptDecided, KeptComplete
     DEF ClaimRefused, ResumeHeldApplies, claimVars, outputVars, providerVars, LandedGrows
<1>2. CASE ParkOnConnection \/ SweepStalled
  BY <1>2, KeptDecided, EndedComplete DEF ParkOnConnection, SweepStalled, FailInTransaction, ClearClaim
<1>3. CASE FireSwitch
  BY <1>3, KeptDecided, RecoveredComplete DEF FireSwitch
<1> QED BY <1>1, <1>2, <1>3 DEF Scheduler

LEMMA ManagerComplete ==
  ASSUME ClaimInv, CompleteInv, Manager
  PROVE  CompleteInv'
<1>1. CASE \E r \in Runs, S \in SUBSET Idx : ApproveActions(r, S)
  BY <1>1, KeptDecided, KeptComplete DEF ApproveActions, outputVars, providerVars, LandedGrows
<1>2. CASE (\E r \in Runs : RejectActions(r)) \/ StopRun \/ RetryFailed
  BY <1>2, KeptDecided, EndedComplete DEF RejectActions, StopRun, RetryFailed, FailInTransaction, ClearClaim
<1>3. CASE ReconcileFailed \/ SetPaused
  BY <1>3, KeptDecided, KeptComplete
     DEF ReconcileFailed, SetPaused, claimVars, outputVars, providerVars, LandedGrows
<1>4. CASE PlanAgain
  BY <1>4, KeptDecided, EndedComplete DEF PlanAgain, claimVars, ClaimInv, ClaimIsOfRun
<1> QED BY <1>1, <1>2, <1>3, <1>4 DEF Manager

LEMMA CompleteStep ==
  TypeInv /\ DecidedInv /\ ClaimInv /\ TrueInv /\ FormInv /\ CompleteInv /\ [Next]_vars => CompleteInv'
<1> SUFFICES ASSUME SharedTypeOK, ActionTypeOK, ActsForARun, DecidedInv, ClaimInv, TrueInv, FormInv,
                    CompleteInv, [Next]_vars
             PROVE  CompleteInv'
  BY DEF TypeInv, TypeOK, SharedTypeOK
<1>1. ASSUME NEW p \in Procs, Execution(p) \/ Apply(p)
      PROVE  CompleteInv'
  BY <1>1, ExecutionComplete, ApplyComplete
<1>2. ASSUME NEW p \in Procs, Crash(p)
      PROVE  CompleteInv'
  BY <1>2, EndsDecided, KeptComplete DEF Crash, claimVars, outputVars, providerVars, LandedGrows
<1>3. CASE Scheduler \/ Manager
  BY <1>3, SchedulerComplete, ManagerComplete
<1>4. CASE UNCHANGED vars
  BY <1>4, KeptDecided, KeptComplete DEF vars, claimVars, outputVars, providerVars, LandedGrows
<1> QED BY <1>1, <1>2, <1>3, <1>4 DEF Next

\* A completed item rests on the provider: every row of it landed, was reused
\* from a write carried as landed, or was held (setCompleted, which only the
\* apply that holds the row's claim reaches with its own rows).
THEOREM CompletedTrue == Spec => []CompletedIsTrue
<1>1. CompleteInv => CompletedIsTrue
  BY DEF CompleteInv
<1> QED BY TypeInit, TypeStep, DecidedInit, DecidedStep, ClaimInit, ClaimStep, TrueInit, TrueStep,
           FormInit, FormStep, CompleteInit, CompleteStep, <1>1, PTL DEF Spec, TypeInv

=============================================================================

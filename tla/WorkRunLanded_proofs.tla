------------------------ MODULE WorkRunLanded_proofs ------------------------
(***************************************************************************)
(* What landed under one run of WorkRun is not forgotten, and is not sent  *)
(* again by a later one, but where the manager said it was not sent or a   *)
(* run was claimed on a stale read.  The invariant follows a write from    *)
(* the provider into the report of its apply, into the item's ledger, into *)
(* what a retry carries, into what the author of the next run read, and    *)
(* into the rows the next apply reuses.  With this, the single send of a   *)
(* key and the decided sends, WorkRun implements WriteOnce.                *)
(***************************************************************************)
EXTENDS WorkRunRecord_proofs, WorkRunWriteOnce, WellFoundedInduction

\* What is carried, and what was answered, is of the runs before this one.
OldKeys(S) == \A k \in S : k[1] <= runs /\ (Active => k[1] # run)
PastRow(row) == row.key <= runs
OldRecords ==
  /\ OldKeys(carried) /\ OldKeys(unsent) /\ OldKeys(told)
  /\ \A p \in Procs : OldKeys(snapCarried[p]) /\ OldKeys(snapUnsent[p])
OldLedgers ==
  \A i \in Idx : /\ PastRow(ledger[i]) /\ PastRow(progress[i])
                 /\ \A p \in Procs : PastRow(myLedger[p][i])

OldInv == OldRecords /\ OldLedgers /\ \A t \in stale : t <= runs

USE NAssumption, RunsAssumption, ResumesAssumption, AttemptsAssumption DEF Idx, Runs, Keys

-----------------------------------------------------------------------------
(* Whatever is recorded is of a run that was claimed. *)

\* A step that claims no run, and the rows it leaves.
NoNewRun == UNCHANGED <<runs, stale>> /\ (Active' => Active /\ run' = run)
RowsStayOld ==
  \A i \in Idx : /\ PastRow(ledger'[i]) /\ PastRow(progress'[i])
                 /\ \A q \in Procs : PastRow(myLedger'[q][i])

LEMMA OldStays ==
  ASSUME OldInv, NoNewRun, RowsStayOld, OldKeys(carried'), OldKeys(unsent'), OldKeys(told'),
         \A q \in Procs : OldKeys(snapCarried'[q]) /\ OldKeys(snapUnsent'[q])
  PROVE  OldInv'
BY DEF OldInv, NoNewRun, RowsStayOld, OldKeys, PastRow, OldRecords, OldLedgers

\* The actions' reads are theirs, or are dropped.
SnapsStay ==
  \A q \in Procs : /\ snapCarried'[q] \in {{}, snapCarried[q]}
                   /\ snapUnsent'[q] \in {{}, snapUnsent[q]}

LEMMA OldKept ==
  ASSUME OldInv, NoNewRun, RowsStayOld, SnapsStay, UNCHANGED <<carried, unsent, told>>
  PROVE  OldInv'
<1>1. \A q \in Procs : OldKeys(snapCarried'[q]) /\ OldKeys(snapUnsent'[q])
  BY DEF OldInv, OldRecords, SnapsStay, OldKeys
<1> QED BY <1>1, OldStays DEF OldInv, OldRecords

LEMMA KeptSnaps ==
  ASSUME UNCHANGED snapVars
  PROVE  SnapsStay
BY DEF snapVars, SnapsStay

LEMMA KeptOldRows ==
  ASSUME OldInv, UNCHANGED <<ledger, progress, myLedger>>
  PROVE  RowsStayOld
BY DEF OldInv, OldLedgers, RowsStayOld

LEMMA NoRowsOld ==
  ASSUME SharedTypeOK, NEW i \in Idx
  PROVE  PastRow(NoRows[i])
BY DEF SharedTypeOK, ItemTypeOK, PastRow, NoRows, Blank, Row

LEMMA EndsOld ==
  ASSUME SharedTypeOK, ActionTypeOK, OldInv, NEW p \in Procs, Ends(p)
  PROVE  SnapsStay /\ \A i \in Idx, q \in Procs : PastRow(myLedger'[q][i])
<1>1. /\ myLedger'[p] = NoRows /\ snapCarried'[p] = {} /\ snapUnsent'[p] = {}
      /\ \A q \in Procs \ {p} : /\ myLedger'[q] = myLedger[q]
                                /\ snapCarried'[q] = snapCarried[q] /\ snapUnsent'[q] = snapUnsent[q]
  BY DEF ActionTypeOK, Ends
<1> QED BY <1>1, NoRowsOld DEF SnapsStay, OldInv, OldLedgers

LEMMA EndsOldRows ==
  ASSUME SharedTypeOK, ActionTypeOK, OldInv, NEW p \in Procs, Ends(p),
         \A i \in Idx : PastRow(ledger'[i]) /\ PastRow(progress'[i])
  PROVE  SnapsStay /\ RowsStayOld
BY EndsOld DEF RowsStayOld

LEMMA SettledOld ==
  ASSUME NEW led, \A i \in Idx : PastRow(led[i]), NEW i \in Idx
  PROVE  PastRow(Settled(led)[i])
BY DEF Settled, PastRow

LEMMA InterruptedOld ==
  ASSUME SharedTypeOK, ClaimInv, OldInv, pending = run, NEW unknown, NEW i \in Idx
  PROVE  PastRow(InterruptedLedger(unknown)[i])
<1>1. RunKey <= runs
  BY DEF RunKey, ClaimInv, LastRun, SharedTypeOK, ItemTypeOK
<1> QED BY <1>1 DEF InterruptedLedger, PastRow, Row, OldInv, OldLedgers

\* What an ended item's output tells of its writes.
LEMMA WritesOld ==
  ASSUME OldInv, ~Active, NEW a
  PROVE  OldKeys(LandedWrites(a)) /\ OldKeys(NotSentWrites(a))
<1>1. \A k \in NotSentWrites(a) : k[1] <= runs
  BY DEF NotSentWrites, RowKey, OldInv, OldLedgers, PastRow
<1>2. ASSUME NEW k \in LandedWrites(a)
      PROVE  k[1] <= runs
  <2>1. k \in carried \/ \E i \in Idx : k = <<ledger[i].key, i>>
    BY <1>2 DEF LandedWrites, RowKey
  <2> QED BY <2>1 DEF OldInv, OldRecords, OldKeys, OldLedgers, PastRow
<1> QED BY <1>1, <1>2 DEF OldKeys

LEMMA OldInit == Init => OldInv
BY DEF Init, OldInv, OldRecords, OldLedgers, OldKeys, PastRow, NoRows, Blank, Row

LEMMA RecoveredOld ==
  ASSUME SharedTypeOK, ClaimInv, OldInv, NEW r, NEW ph, RecoverInterruptedApply(r, ph), NEW i \in Idx
  PROVE  PastRow(ledger'[i]) /\ PastRow(progress'[i])
<1>1. CASE attempt # NoAttempt /\ ledger' = InterruptedLedger("unknown") /\ progress' = NoRows
  BY <1>1, InterruptedOld, NoRowsOld DEF ClaimInv, ClaimIsOfRun
<1>2. CASE UNCHANGED <<ledger, progress>>
  BY <1>2 DEF OldInv, OldLedgers
<1> QED BY <1>1, <1>2 DEF RecoverInterruptedApply

LEMMA RecoveredNoRun ==
  ASSUME NEW r, NEW ph, RecoverInterruptedApply(r, ph), UNCHANGED RecoveryKeeps
  PROVE  NoNewRun /\ UNCHANGED <<carried, unsent, told>>
BY DEF RecoverInterruptedApply, RecoveryKeeps, wordVars, NoNewRun, Active, Unclaimed, AutoPhase, ScheduleApply

LEMMA ExecutionOld ==
  ASSUME SharedTypeOK, ActionTypeOK, ActsForARun, ClaimInv, OldInv, NEW p \in Procs, Execution(p)
  PROVE  OldInv'
<1>1. CASE ReadItem(p)
  <2>1. /\ ~Active /\ NoNewRun /\ RowsStayOld /\ UNCHANGED <<carried, unsent, told>>
    BY <1>1, KeptOldRows DEF ReadItem, Active, NoNewRun, outputVars, applyVars, wordVars
  <2>2. \A q \in Procs : OldKeys(snapCarried'[q]) /\ OldKeys(snapUnsent'[q])
    BY <1>1, <2>1, WritesOld DEF ReadItem, ActionTypeOK, OldInv, OldRecords
  <2> QED BY <2>1, <2>2, OldStays DEF OldInv, OldRecords
<1>2. CASE ClaimExecution(p)
  <2>1. /\ runs' = runs + 1 /\ run' = runs + 1 /\ UNCHANGED <<outputVars, myLedger, snapVars, told>>
        /\ stale' \subseteq stale \cup {runs + 1}
    BY <1>2 DEF ClaimExecution
  <2>2. runs \in Int /\ \A k \in Keys : k[1] \in Int
    BY DEF SharedTypeOK, ItemTypeOK
  <2>3. ASSUME NEW k \in Keys, k[1] <= runs
        PROVE  k[1] <= runs' /\ k[1] # run'
    BY <2>1, <2>2, <2>3
  <2>4. OldRecords'
    BY <2>1, <2>3 DEF OldInv, OldRecords, OldKeys, outputVars, snapVars, SharedTypeOK, OutputTypeOK,
                      RecordTypeOK, ActionTypeOK
  <2>5. OldLedgers'
    <3>1. ASSUME NEW row \in Rows, PastRow(row)
          PROVE  row.key <= runs'
      BY <2>1, <2>2, <3>1 DEF PastRow, Rows, Blank, Row
    <3> QED BY <2>1, <3>1 DEF OldInv, OldLedgers, PastRow, outputVars, SharedTypeOK, OutputTypeOK, ActionTypeOK
  <2>6. \A t \in stale' : t <= runs'
    BY <2>1, <2>2 DEF OldInv, SharedTypeOK, RecordTypeOK
  <2> QED BY <2>4, <2>5, <2>6 DEF OldInv
<1>3. CASE ClaimExecutionRefused(p) \/ MovedOn(p)
  <2>1. NoNewRun /\ UNCHANGED <<ledger, progress, carried, unsent, told>>
    BY <1>3 DEF ClaimExecutionRefused, MovedOn, NoNewRun, Active, claimVars, outputVars, wordVars
  <2> QED BY <1>3, <2>1, EndsOldRows, OldKept DEF ClaimExecutionRefused, MovedOn, OldInv, OldLedgers
<1>4. CASE SetActionsPending(p) \/ ResumeExecution(p) \/ ExecutionFails(p)
  <2>1. /\ Ends(p) /\ NoNewRun /\ told' = told
        /\ KeepDraft(p) \/ UNCHANGED outputVars
    BY <1>4 DEF SetActionsPending, Gated, ResumeExecution, ExecutionFails, FailInTransaction, BeforeGate,
                NoNewRun, Active, wordVars
  <2>2. \A i \in Idx : PastRow(ledger'[i]) /\ PastRow(progress'[i])
    BY <2>1, NoRowsOld DEF KeepDraft, outputVars, OldInv, OldLedgers
  <2>3. \A q \in Procs : OldKeys(snapCarried'[q]) /\ OldKeys(snapUnsent'[q])
    BY <2>1, EndsOld DEF OldInv, OldRecords, SnapsStay, OldKeys
  <2>4. OldKeys(carried') /\ OldKeys(unsent') /\ OldKeys(told')
    BY <2>1 DEF KeepDraft, outputVars, OldInv, OldRecords
  <2> QED BY <2>1, <2>2, <2>3, <2>4, EndsOldRows, OldStays
<1> QED BY <1>1, <1>2, <1>3, <1>4 DEF Execution

LEMMA ClaimedOld ==
  ASSUME SharedTypeOK, ActionTypeOK, DecidedInv, ClaimInv, TrueInv, OldInv, NEW p \in Procs,
         ClaimApprovedActions(p)
  PROVE  OldInv'
<1>1. RunKey = run /\ Active /\ run <= runs
  BY ClaimableIsOfRun DEF ClaimApprovedActions, ClaimInv, LastRun, SharedTypeOK, ItemTypeOK
<1>2. \A i \in Idx : PastRow(ClaimedLedger[i])
  <2>1. ASSUME NEW i \in Idx, Reused(i).st = "reused"
        PROVE  PastRow(Reused(i))
    BY <2>1, ReusedKnown DEF TrueInv, OldInv, OldRecords, OldKeys, PastRow
  <2>2. PastRow(Blank) /\ \A st : PastRow(Row(st, run))
    BY <1>1 DEF PastRow, Blank, Row, SharedTypeOK, ItemTypeOK
  <2> QED BY <1>1, <2>1, <2>2, ClaimedRow DEF OldInv, OldLedgers
<1>3. \A i \in Idx, q \in Procs : PastRow(myLedger'[q][i])
  BY <1>2 DEF ClaimApprovedActions, ActionTypeOK, OldInv, OldLedgers
<1>4. RowsStayOld
  BY <1>3, NoRowsOld DEF ClaimApprovedActions, RowsStayOld, OldInv, OldLedgers
<1>5. NoNewRun /\ UNCHANGED <<carried, unsent, told, snapVars>>
  BY <1>1 DEF ClaimApprovedActions, NoNewRun, wordVars
<1> QED BY <1>4, <1>5, KeptSnaps, OldKept

LEMMA ApplyOld ==
  ASSUME SharedTypeOK, ActionTypeOK, ActsForARun, DecidedInv, ClaimInv, TrueInv, OldInv,
         NEW p \in Procs, Apply(p)
  PROVE  OldInv'
<1>1. CASE ClaimApprovedActions(p)
  BY <1>1, ClaimedOld
<1>2. CASE RefuseRow(p) \/ Authorise(p) \/ Send(p)
  <2>1. NoNewRun /\ UNCHANGED <<ledger, progress, carried, unsent, told, snapVars>>
    BY <1>2 DEF RefuseRow, Authorise, Send, NoNewRun, Active, claimVars, outputVars, wordVars
  <2>2. ASSUME NEW i \in Idx, NEW q \in Procs
        PROVE  PastRow(myLedger'[q][i])
    <3>1. myLedger'[q][i] = myLedger[q][i] \/ myLedger'[q][i].key = myRun[p]
      <4>1. (\E st : Decide(p, st)) \/ UNCHANGED myLedger
        BY <1>2 DEF RefuseRow, Authorise, Send
      <4>2. ASSUME NEW st, Decide(p, st)
            PROVE  myLedger'[q][i] = myLedger[q][i] \/ myLedger'[q][i].key = myRun[p]
        BY <4>2 DEF Decide, Row, ActionTypeOK
      <4> QED BY <4>1, <4>2
    <3> QED BY <3>1 DEF OldInv, OldLedgers, PastRow, ClaimInv, LastRun
  <2> QED BY <2>1, <2>2, KeptSnaps, OldKept DEF RowsStayOld, OldInv, OldLedgers
<1>3. CASE RecordApplyOutcome(p)
  <2>1. NoNewRun /\ UNCHANGED <<ledger, myLedger, carried, unsent, told, snapVars>>
    BY <1>3 DEF RecordApplyOutcome, NoNewRun, Active, claimVars, wordVars
  <2>2. \A i \in Idx : progress'[i] = progress[i] \/ progress'[i] = myLedger[p][i]
    BY <1>3 DEF RecordApplyOutcome, SharedTypeOK, OutputTypeOK
  <2>3. RowsStayOld
    BY <2>1, <2>2 DEF RowsStayOld, OldInv, OldLedgers
  <2> QED BY <2>1, <2>3, KeptSnaps, OldKept
<1>4. CASE RecordUnsentAfterStop(p)
  <2>1. NoNewRun /\ UNCHANGED <<progress, myLedger, carried, unsent, told, snapVars>>
    BY <1>4 DEF RecordUnsentAfterStop, NoNewRun, Active, claimVars, applyVars, wordVars
  <2>2. \A i \in Idx : ledger'[i] = ledger[i] \/ ledger'[i].key = myRun[p]
    BY <1>4 DEF RecordUnsentAfterStop, Row
  <2>3. RowsStayOld
    BY <2>1, <2>2 DEF RowsStayOld, OldInv, OldLedgers, PastRow, ClaimInv, LastRun
  <2> QED BY <2>1, <2>3, KeptSnaps, OldKept
<1>5. CASE ApplyThrows(p)
  BY <1>5, KeptSnaps, KeptOldRows, OldKept
     DEF ApplyThrows, NoNewRun, Active, claimVars, outputVars, applyVars, wordVars
<1>6. CASE Recover(p)
  BY <1>6, RecoveredOld, RecoveredNoRun, EndsOldRows, OldKept DEF Recover
<1>7. CASE FinishFailed(p) \/ StopOnQuestion(p) \/ SetAwaitingApproval(p) \/ (SetCompleted(p) /\ Ends(p))
  <2>1. Ends(p) /\ NoNewRun /\ UNCHANGED <<carried, unsent, told>>
    BY <1>7 DEF FinishFailed, StopOnQuestion, SetAwaitingApproval, SetCompleted, ApplySetFailed,
                FailInTransaction, ClearClaim, NoNewRun, Active, HoldsClaim, claimVars, wordVars
  <2>2. /\ ledger' \in {ledger, myLedger[p], Settled(myLedger[p])}
        /\ progress' \in {progress, NoRows}
    BY <1>7 DEF FinishFailed, StopOnQuestion, SetAwaitingApproval, SetCompleted, ApplySetFailed
  <2>3. \A i \in Idx : PastRow(ledger'[i]) /\ PastRow(progress'[i])
    BY <2>2, SettledOld, NoRowsOld DEF OldInv, OldLedgers
  <2> QED BY <2>1, <2>3, EndsOldRows, OldKept
<1>8. CASE SetCompleted(p) /\ ~Ends(p)
  <2>1. /\ NoNewRun
        /\ UNCHANGED <<ledger, progress, myLedger, carried, unsent, told, snapVars>>
    BY <1>8 DEF SetCompleted, NoNewRun, Active, claimVars, applyVars, wordVars
  <2> QED BY <2>1, KeptSnaps, KeptOldRows, OldKept
<1> QED BY <1>1, <1>2, <1>3, <1>4, <1>5, <1>6, <1>7, <1>8 DEF Apply

LEMMA SchedulerOld ==
  ASSUME SharedTypeOK, ClaimInv, OldInv, Scheduler
  PROVE  OldInv'
<1>1. CASE ClaimRefused \/ ResumeHeldApplies \/ ParkOnConnection \/ SweepStalled
  BY <1>1, KeptSnaps, KeptOldRows, OldKept
     DEF ClaimRefused, ResumeHeldApplies, ParkOnConnection, SweepStalled, FailInTransaction, ClearClaim,
         NoNewRun, Active, claimVars, outputVars, procVars, applyVars, wordVars
<1>2. CASE FireSwitch
  <2>1. UNCHANGED <<myLedger, snapVars>>
    BY <1>2 DEF FireSwitch, procVars, applyVars
  <2>2. RowsStayOld
    BY <1>2, <2>1, RecoveredOld DEF FireSwitch, RowsStayOld, OldInv, OldLedgers
  <2> QED BY <1>2, <2>1, <2>2, RecoveredNoRun, KeptSnaps, OldKept DEF FireSwitch
<1> QED BY <1>1, <1>2 DEF Scheduler

LEMMA ManagerOld ==
  ASSUME SharedTypeOK, ClaimInv, OldInv, Manager
  PROVE  OldInv'
<1>1. CASE (\E r \in Runs, S \in SUBSET Idx : ApproveActions(r, S)) \/ PlanAgain \/ SetPaused
  BY <1>1, KeptSnaps, KeptOldRows, OldKept
     DEF ApproveActions, PlanAgain, SetPaused, NoNewRun, Active, claimVars, outputVars, procVars, applyVars,
         wordVars
<1>2. CASE (\E r \in Runs : RejectActions(r)) \/ StopRun
  <2>1. NoNewRun /\ UNCHANGED <<carried, unsent, told, myLedger, snapVars>>
    BY <1>2 DEF RejectActions, StopRun, FailInTransaction, ClearClaim, NoNewRun, Active, procVars,
                applyVars, wordVars
  <2>2. \/ ledger' \in {ledger, Settled(ledger)} /\ progress' = progress
        \/ /\ attempt # NoAttempt /\ ledger' = InterruptedLedger("stopUnknown") /\ progress' = NoRows
    BY <1>2 DEF RejectActions, StopRun
  <2>3. RowsStayOld
    BY <2>1, <2>2, SettledOld, InterruptedOld, NoRowsOld
       DEF RowsStayOld, OldInv, OldLedgers, ClaimInv, ClaimIsOfRun
  <2> QED BY <2>1, <2>3, KeptSnaps, OldKept
<1>3. CASE ReconcileFailed
  <2>1. /\ ~Active /\ NoNewRun /\ UNCHANGED <<ledger, progress, carried, unsent, myLedger, snapVars>>
        /\ \A k \in told' : k \in told \/ \E i \in Idx : k = RowKey(i)
    BY <1>3 DEF ReconcileFailed, NoNewRun, Active, claimVars, outputVars, procVars, applyVars
  <2>2. OldKeys(told')
    BY <2>1 DEF OldKeys, OldInv, OldRecords, OldLedgers, PastRow, RowKey
  <2> QED BY <2>1, <2>2, KeptOldRows, OldStays DEF OldInv, OldRecords, snapVars
<1>4. CASE RetryFailed
  <2>1. /\ ~Active /\ NoNewRun /\ UNCHANGED <<ledger, progress, told, myLedger, snapVars>>
        /\ carried' \in {carried, LandedWrites(RetryAnswers)}
        /\ unsent' \in {unsent, NotSentWrites(RetryAnswers)}
    BY <1>4 DEF RetryFailed, CarriedIntoRetry, NoNewRun, Active, procVars, applyVars, wordVars
  <2>2. OldKeys(carried') /\ OldKeys(unsent')
    BY <2>1, WritesOld DEF OldInv, OldRecords
  <2> QED BY <2>1, <2>2, KeptOldRows, OldStays DEF OldInv, OldRecords, snapVars
<1> QED BY <1>1, <1>2, <1>3, <1>4 DEF Manager

LEMMA OldStep ==
  TypeInv /\ DecidedInv /\ ClaimInv /\ TrueInv /\ OldInv /\ [Next]_vars => OldInv'
<1> SUFFICES ASSUME SharedTypeOK, ActionTypeOK, ActsForARun, DecidedInv, ClaimInv, TrueInv, OldInv,
                    [Next]_vars
             PROVE  OldInv'
  BY DEF TypeInv, TypeOK, SharedTypeOK
<1>1. ASSUME NEW p \in Procs, Execution(p) \/ Apply(p)
      PROVE  OldInv'
  BY <1>1, ExecutionOld, ApplyOld
<1>2. ASSUME NEW p \in Procs, Crash(p)
      PROVE  OldInv'
  <2>1. NoNewRun /\ UNCHANGED <<ledger, progress, carried, unsent, told>>
    BY <1>2 DEF Crash, NoNewRun, Active, claimVars, outputVars, wordVars
  <2> QED BY <1>2, <2>1, EndsOldRows, OldKept DEF Crash, OldInv, OldLedgers
<1>3. CASE Scheduler \/ Manager
  BY <1>3, SchedulerOld, ManagerOld
<1>4. CASE UNCHANGED vars
  BY <1>4, KeptSnaps, KeptOldRows, OldKept
     DEF vars, NoNewRun, Active, claimVars, outputVars, procVars, applyVars, wordVars
<1> QED BY <1>1, <1>2, <1>3, <1>4 DEF Next

-----------------------------------------------------------------------------
(* What a step may send, and what it has in hand. *)

\* A write is in hand from the check before transport on, and lands or not.
InHand(r, i) == r \in landed[i] \/ \E p \in Procs : pc[p] = "sending" /\ myRun[p] = r /\ myRow[p] = i
InHandAfter(r, i) ==
  r \in landed'[i] \/ \E p \in Procs : pc'[p] = "sending" /\ myRun'[p] = r /\ myRow'[p] = i
HandsStay == \A i \in Idx, r \in Runs : InHandAfter(r, i) => InHand(r, i)

\* A step that sends nothing, and checks nothing before transport.
NoneSent ==
  /\ UNCHANGED landed
  /\ \A q \in Procs : pc'[q] \in {"apply", "sending"} =>
       /\ pc[q] = pc'[q] /\ myRun'[q] = myRun[q] /\ myRow'[q] = myRow[q]
       /\ \A i \in Idx : myLedger'[q][i].st = "none" => myLedger[q][i].st = "none"

LEMMA NoneSentHands ==
  ASSUME NoneSent
  PROVE  SendsKept /\ HandsStay
BY DEF NoneSent, SendsKept, HandsStay, InHand, InHandAfter

LEMMA EndsNone ==
  ASSUME ActionTypeOK, NEW p \in Procs, Ends(p), UNCHANGED landed
  PROVE  NoneSent
<1>1. /\ pc'[p] = "idle"
      /\ \A q \in Procs \ {p} : /\ pc'[q] = pc[q] /\ myRun'[q] = myRun[q] /\ myRow'[q] = myRow[q]
                                /\ myLedger'[q] = myLedger[q]
  BY DEF ActionTypeOK, Ends
<1> QED BY <1>1 DEF NoneSent

LEMMA KeptNone ==
  ASSUME UNCHANGED <<procVars, landed>>
  PROVE  NoneSent
BY DEF procVars, applyVars, NoneSent

LEMMA ExecutionNone ==
  ASSUME ActionTypeOK, NEW p \in Procs, Execution(p)
  PROVE  NoneSent
<1>1. CASE ReadItem(p) \/ ClaimExecution(p)
  BY <1>1 DEF ReadItem, ClaimExecution, ActionTypeOK, NoneSent, applyVars, providerVars
<1>2. CASE ~(ReadItem(p) \/ ClaimExecution(p))
  BY <1>2, EndsNone DEF Execution, ClaimExecutionRefused, SetActionsPending, ResumeExecution,
                        ExecutionFails, MovedOn, providerVars
<1> QED BY <1>1, <1>2

\* A row is decided: it is sent, refused or withheld.
LEMMA RowHands ==
  ASSUME SharedTypeOK, ActionTypeOK, ActsForARun, DecidedInv, NEW p \in Procs,
         RefuseRow(p) \/ Authorise(p) \/ Send(p)
  PROVE  SendsKept /\ (HandsStay \/ (Authorise(p) /\ HoldsClaim(p)))
<1>1. /\ UNCHANGED <<myRun, myRow>> /\ pc[p] \in {"apply", "sending"} /\ myRow[p] \in Idx
      /\ myLedger[p][myRow[p]].st = "none" /\ \A q \in Procs \ {p} : pc'[q] = pc[q]
      /\ pc'[p] \in {"apply", "sending"}
  BY DEF RefuseRow, Authorise, Send, Undecided, UpTo, ActionTypeOK, ActsForARun, DecidedInv, SendsBlank
<1>2. \A i \in Idx : \A r \in landed'[i] :
        r \in landed[i] \/ (Send(p) /\ r = myRun[p] /\ i = myRow[p] /\ pc[p] = "sending")
  BY DEF RefuseRow, Authorise, Send, providerVars, SharedTypeOK, RecordTypeOK
<1>3. \A q \in Procs, i \in Idx : myLedger'[q][i].st = "none" => myLedger[q][i].st = "none"
  <2>1. (\E st \in {"failed", "held", "landed", "unknown"} : Decide(p, st)) \/ UNCHANGED myLedger
    BY DEF RefuseRow, Authorise, Send
  <2>2. ASSUME NEW st \in {"failed", "held", "landed", "unknown"}, Decide(p, st)
        PROVE  \A q \in Procs, i \in Idx :
                 myLedger'[q][i] = myLedger[q][i] \/ myLedger'[q][i].st # "none"
    BY <2>2 DEF Decide, Row, ActionTypeOK
  <2> QED BY <2>1, <2>2
<1>4. SendsKept
  BY <1>1, <1>2, <1>3 DEF SendsKept, MaySend
<1>5. HandsStay \/ (Authorise(p) /\ HoldsClaim(p))
  <2>1. CASE pc'[p] = "sending" /\ pc[p] # "sending"
    BY <2>1 DEF RefuseRow, Authorise, Send, ActionTypeOK
  <2>2. CASE pc'[p] = "sending" => pc[p] = "sending"
    BY <1>1, <1>2, <2>2 DEF HandsStay, InHand, InHandAfter
  <2> QED BY <2>1, <2>2
<1> QED BY <1>4, <1>5

LEMMA ApplyHands ==
  ASSUME SharedTypeOK, ActionTypeOK, ActsForARun, DecidedInv, NEW p \in Procs, Apply(p)
  PROVE  /\ SendsKept \/ ClaimApprovedActions(p)
         /\ HandsStay \/ (Authorise(p) /\ HoldsClaim(p))
<1>1. CASE ClaimApprovedActions(p)
  BY <1>1 DEF ClaimApprovedActions, ActionTypeOK, HandsStay, InHand, InHandAfter, providerVars
<1>2. CASE RefuseRow(p) \/ Authorise(p) \/ Send(p)
  BY <1>2, RowHands
<1>3. CASE RecordApplyOutcome(p)
  <2>1. /\ UNCHANGED <<landed, myRun, myLedger>> /\ pc[p] = "apply" /\ pc'[p] # "sending"
        /\ \A q \in Procs \ {p} : pc'[q] = pc[q] /\ myRow'[q] = myRow[q]
    BY <1>3 DEF RecordApplyOutcome, UpTo, ActionTypeOK, providerVars
  <2> QED BY <2>1 DEF SendsKept, HandsStay, InHand, InHandAfter
<1>4. CASE RecordUnsentAfterStop(p) \/ ApplyThrows(p) \/ (SetCompleted(p) /\ ~Ends(p))
  <2>1. /\ UNCHANGED <<landed, myRun, myRow, myLedger>> /\ pc'[p] = "recover"
        /\ \A q \in Procs \ {p} : pc'[q] = pc[q]
    BY <1>4 DEF RecordUnsentAfterStop, ApplyThrows, SetCompleted, ActionTypeOK, applyVars, providerVars
  <2> QED BY <2>1, NoneSentHands DEF NoneSent
<1>5. CASE Ends(p) /\ UNCHANGED landed
  BY <1>5, EndsNone, NoneSentHands
<1> QED BY <1>1, <1>2, <1>3, <1>4, <1>5
     DEF Apply, Recover, RecoveryKeeps, FinishFailed, SetAwaitingApproval, SetCompleted, StopOnQuestion,
         providerVars

LEMMA ItemNone ==
  ASSUME Scheduler \/ Manager
  PROVE  NoneSent
<1>1. UNCHANGED <<procVars, landed>>
  BY DEF Scheduler, Manager, ClaimRefused, ParkOnConnection, FireSwitch, RecoveryKeeps, ResumeHeldApplies,
         SweepStalled, ApproveActions, RejectActions, StopRun, ReconcileFailed, RetryFailed, PlanAgain,
         SetPaused, providerVars
<1> QED BY <1>1, KeptNone

\* Only a claim opens writes to an apply, and only its check before transport
\* takes one in hand.
LEMMA StepHands ==
  ASSUME SharedTypeOK, ActionTypeOK, ActsForARun, DecidedInv, [Next]_vars
  PROVE  /\ SendsKept \/ \E p \in Procs : ClaimApprovedActions(p)
         /\ HandsStay \/ \E p \in Procs : Authorise(p) /\ HoldsClaim(p)
<1>1. ASSUME NEW p \in Procs, Execution(p)
      PROVE  SendsKept /\ HandsStay
  BY <1>1, ExecutionNone, NoneSentHands
<1>2. ASSUME NEW p \in Procs, Apply(p)
      PROVE  /\ SendsKept \/ \E q \in Procs : ClaimApprovedActions(q)
             /\ HandsStay \/ \E q \in Procs : Authorise(q) /\ HoldsClaim(q)
  BY <1>2, ApplyHands
<1>3. ASSUME NEW p \in Procs, Crash(p)
      PROVE  SendsKept /\ HandsStay
  BY <1>3, EndsNone, NoneSentHands DEF Crash, providerVars
<1>4. CASE Scheduler \/ Manager
  BY <1>4, ItemNone, NoneSentHands
<1>5. CASE UNCHANGED vars
  BY <1>5, KeptNone, NoneSentHands DEF vars, providerVars
<1> QED BY <1>1, <1>2, <1>3, <1>4, <1>5 DEF Next

-----------------------------------------------------------------------------
(* What the output says was not sent. *)

\* The manager said so, or it is not on the provider and nobody may send it.
UnsentTrue(S) == \A k \in S : k \in told \/ Closed(k[1], k[2])
UnsentInv == UnsentTrue(unsent) /\ \A p \in Procs : UnsentTrue(snapUnsent[p])

LEMMA UnsentInit == Init => UnsentInv
BY DEF Init, UnsentInv, UnsentTrue

\* The same writes are recorded, or fewer.
UnsentCopied ==
  /\ unsent' = unsent \/ \E q \in Procs : unsent' = snapUnsent[q]
  /\ \A q \in Procs : snapUnsent'[q] \in {{}, unsent, snapUnsent[q]}
  /\ told \subseteq told'

LEMMA KeptCopied ==
  ASSUME UNCHANGED <<unsent, snapUnsent>>, told \subseteq told'
  PROVE  UnsentCopied
BY DEF UnsentCopied

LEMMA EndsCopied ==
  ASSUME ActionTypeOK, NEW p \in Procs, Ends(p), UNCHANGED told,
         unsent' = unsent \/ unsent' = snapUnsent[p]
  PROVE  UnsentCopied
<1>1. snapUnsent'[p] = {} /\ \A q \in Procs \ {p} : snapUnsent'[q] = snapUnsent[q]
  BY DEF ActionTypeOK, Ends
<1> QED BY <1>1 DEF UnsentCopied

LEMMA ExecutionCopied ==
  ASSUME ActionTypeOK, NEW p \in Procs, Execution(p)
  PROVE  UnsentCopied
<1>1. CASE ReadItem(p)
  BY <1>1 DEF ReadItem, ActionTypeOK, UnsentCopied, outputVars, wordVars
<1>2. CASE ClaimExecution(p)
  BY <1>2, KeptCopied DEF ClaimExecution, outputVars, snapVars
<1>3. CASE ~(ReadItem(p) \/ ClaimExecution(p))
  <2>1. Ends(p) /\ told' = told /\ (KeepDraft(p) \/ UNCHANGED outputVars)
    BY <1>3 DEF Execution, ClaimExecutionRefused, SetActionsPending, ResumeExecution, ExecutionFails, MovedOn,
                wordVars
  <2> QED BY <2>1, EndsCopied DEF KeepDraft, outputVars
<1> QED BY <1>1, <1>2, <1>3

LEMMA ApplyCopied ==
  ASSUME ActionTypeOK, NEW p \in Procs, Apply(p)
  PROVE  UnsentCopied
<1>1. UNCHANGED <<unsent, told>>
  BY DEF Apply, ClaimApprovedActions, RefuseRow, Authorise, Send, RecordApplyOutcome, RecordUnsentAfterStop,
         ApplyThrows, Recover, RecoveryKeeps, FinishFailed, SetAwaitingApproval, SetCompleted, StopOnQuestion,
         outputVars, wordVars
<1>2. CASE Ends(p)
  BY <1>1, <1>2, EndsCopied
<1>3. CASE UNCHANGED snapVars
  BY <1>1, <1>3, KeptCopied DEF snapVars
<1> QED BY <1>2, <1>3
     DEF Apply, ClaimApprovedActions, RefuseRow, Authorise, Send, RecordApplyOutcome, RecordUnsentAfterStop,
         ApplyThrows, Recover, FinishFailed, SetAwaitingApproval, SetCompleted, StopOnQuestion

LEMMA ItemCopied ==
  ASSUME Scheduler \/ Manager, ~RetryFailed
  PROVE  UnsentCopied
<1>1. UNCHANGED <<unsent, snapUnsent>> /\ told \subseteq told'
  BY DEF Scheduler, Manager, ClaimRefused, ParkOnConnection, FireSwitch, RecoveryKeeps, ResumeHeldApplies,
         SweepStalled, ApproveActions, RejectActions, StopRun, ReconcileFailed, PlanAgain, SetPaused,
         outputVars, procVars, snapVars, wordVars
<1> QED BY <1>1, KeptCopied

\* A retry records what the manager answered, and what a stop never sent.
LEMMA MissingTrue ==
  ASSUME TrueInv, FormInv, ClosedInv, state # "executing"
  PROVE  UnsentTrue(NotSentWrites(RetryAnswers))
<1> SUFFICES ASSUME NEW i \in Idx,
                    RetryAnswers[i] = "notSent" \/ (RetryAnswers[i] = "none" /\ ledger[i].st = "notSent")
             PROVE  RowKey(i) \in told \/ Closed(ledger[i].key, i)
  BY DEF UnsentTrue, NotSentWrites, RowKey
<1>1. CASE RetryAnswers[i] = "notSent"
  BY <1>1 DEF RetryAnswers, TrueInv, AnswersKept
<1>2. CASE ledger[i].st = "notSent"
  BY <1>2, LedgerClosed DEF ClosedRow, SentNothing
<1> QED BY <1>1, <1>2

LEMMA UnsentStep ==
  TypeInv /\ DecidedInv /\ TrueInv /\ FormInv /\ ClosedInv /\ OldInv /\ UnsentInv /\ [Next]_vars
    => UnsentInv'
<1> SUFFICES ASSUME SharedTypeOK, ActionTypeOK, ActsForARun, DecidedInv, TrueInv, FormInv, ClosedInv,
                    OldInv, UnsentInv, [Next]_vars
             PROVE  UnsentInv'
  BY DEF TypeInv, TypeOK, SharedTypeOK
<1>1. CASE \E p \in Procs : ClaimApprovedActions(p)
  <2>1. PICK p \in Procs : ClaimApprovedActions(p)
    BY <1>1
  <2>2. RunKey = run /\ Active
    BY <2>1, ClaimableIsOfRun DEF ClaimApprovedActions
  <2>3. /\ UNCHANGED <<landed, unsent, snapUnsent, told>> /\ myRun'[p] = run
        /\ \A q \in Procs \ {p} : /\ pc'[q] = pc[q] /\ myRun'[q] = myRun[q] /\ myLedger'[q] = myLedger[q]
    BY <2>1, <2>2 DEF ClaimApprovedActions, ActionTypeOK, outputVars, snapVars, providerVars, wordVars
  <2>4. ASSUME NEW k \in Keys, k[1] # run, k \in told \/ Closed(k[1], k[2])
        PROVE  (k \in told \/ Closed(k[1], k[2]))'
    BY <2>3, <2>4 DEF Closed, MaySend
  <2>5. \A k \in unsent : k \in Keys /\ k[1] # run
    BY <2>2 DEF SharedTypeOK, OutputTypeOK, OldInv, OldRecords, OldKeys
  <2>6. \A q \in Procs : \A k \in snapUnsent[q] : k \in Keys /\ k[1] # run
    BY <2>2 DEF ActionTypeOK, OldInv, OldRecords, OldKeys
  <2> QED BY <2>3, <2>4, <2>5, <2>6 DEF UnsentInv, UnsentTrue
<1>2. CASE SendsKept
  <2>1. ASSUME NEW k \in Keys, k \in told \/ Closed(k[1], k[2]), told \subseteq told'
        PROVE  (k \in told \/ Closed(k[1], k[2]))'
    <3>1. Closed(k[1], k[2]) => ClosedAfter(k[1], k[2])
      BY <1>2, KeyStaysClosed
    <3> QED BY <2>1, <3>1 DEF ClosedAfter, Closed, MaySend
  <2>2. CASE RetryFailed
    <3>1. /\ unsent' \in {unsent, NotSentWrites(RetryAnswers)} /\ state # "executing"
          /\ UNCHANGED <<snapUnsent, told>>
      BY <2>2 DEF RetryFailed, CarriedIntoRetry, procVars, snapVars, wordVars
    <3>2. UnsentTrue(unsent')
      BY <3>1, MissingTrue DEF UnsentInv
    <3>3. unsent' \subseteq Keys
      BY <2>2, RetryType DEF SharedTypeOK, OutputTypeOK
    <3> QED BY <2>1, <3>1, <3>2, <3>3 DEF UnsentInv, UnsentTrue, ActionTypeOK
  <2>3. CASE UnsentCopied
    <3>1. unsent \subseteq Keys /\ \A q \in Procs : snapUnsent[q] \subseteq Keys
      BY DEF SharedTypeOK, OutputTypeOK, ActionTypeOK
    <3>2. UnsentTrue(unsent') /\ unsent' \subseteq Keys
      BY <2>3, <3>1 DEF UnsentCopied, UnsentInv
    <3>3. \A q \in Procs : UnsentTrue(snapUnsent'[q]) /\ snapUnsent'[q] \subseteq Keys
      BY <2>3, <3>1 DEF UnsentCopied, UnsentInv, UnsentTrue
    <3> QED BY <2>1, <2>3, <3>2, <3>3 DEF UnsentCopied, UnsentInv, UnsentTrue
  <2>4. ASSUME NEW p \in Procs, Execution(p) \/ Apply(p)
        PROVE  UnsentCopied
    BY <2>4, ExecutionCopied, ApplyCopied
  <2>5. ASSUME NEW p \in Procs, Crash(p)
        PROVE  UnsentCopied
    BY <2>5, EndsCopied DEF Crash, outputVars, wordVars
  <2>6. CASE UNCHANGED vars
    BY <2>3, <2>6, KeptCopied DEF vars, outputVars, procVars, snapVars, wordVars
  <2> QED BY <2>2, <2>3, <2>4, <2>5, <2>6, ItemCopied DEF Next
<1> QED BY <1>1, <1>2, StepHands

-----------------------------------------------------------------------------
(* What an apply reports, and the item keeps of it. *)

\* An apply knows of what it has in hand.
ApplyRemembers ==
  \A p \in Procs : pc[p] \in Reporting =>
    \A i \in Idx : InHand(myRun[p], i) =>
      myLedger[p][i].st \in {"landed", "unknown"} \/ (pc[p] = "sending" /\ i = myRow[p])

\* What the row would be recorded as, were its apply interrupted now.
ClaimRemembers ==
  attempt # NoAttempt =>
    \A i \in Idx : InHand(run, i) =>
      IF i \in approved THEN progress[i].st \in {"none", "landed", "unknown"} ELSE ledger[i].st = "landed"

\* An apply reports its rows in order, and may send only what was approved.
ProgressBehind ==
  \A p \in Procs : pc[p] \in Reporting /\ HoldsClaim(p) =>
    \A i \in Idx : /\ i >= myRow[p] /\ pc[p] # "finish" => progress[i].st = "none"
                   /\ myLedger[p][i].st = "none" => i \in approved

HandInv == ApplyRemembers /\ ClaimRemembers /\ ProgressBehind

LEMMA HandInit == Init => HandInv
BY DEF Init, HandInv, ApplyRemembers, ClaimRemembers, ProgressBehind, Reporting

\* A step that leaves the reports, and the claim or what it is recorded with.
ReportsStay ==
  \A q \in Procs : pc'[q] \in Reporting =>
    /\ pc[q] \in Reporting
    /\ pc'[q] = pc[q] \/ (pc[q] = "apply" /\ pc'[q] = "lost")
    /\ myRun'[q] = myRun[q] /\ myAttempt'[q] = myAttempt[q] /\ myRow'[q] = myRow[q]
    /\ myLedger'[q] = myLedger[q]
ClaimQuiet == attempt' = NoAttempt \/ UNCHANGED <<state, run, approved, attempt, progress, ledger>>

LEMMA ReportersRun ==
  ASSUME ActionTypeOK, ActsForARun, NEW q \in Procs, pc[q] \in Reporting
  PROVE  myRun[q] \in Runs
<1>1. myRun[q] # 0
  BY DEF ActsForARun, Reporting
<1> QED BY <1>1 DEF ActionTypeOK

LEMMA HandKept ==
  ASSUME SharedTypeOK, ActionTypeOK, ActsForARun, ClaimInv, HandInv, HandsStay, ReportsStay, ClaimQuiet
  PROVE  HandInv'
<1>1. \A q \in Procs : pc[q] \in Reporting => myRun[q] \in Runs /\ myAttempt[q] # NoAttempt
  BY ReportersRun DEF ClaimInv, AttemptsApart, Reporting, Applying
<1>2. ApplyRemembers'
  <2>1. ASSUME NEW q \in Procs, pc'[q] \in Reporting, NEW i \in Idx, InHandAfter(myRun'[q], i)
        PROVE  myLedger'[q][i].st \in {"landed", "unknown"} \/ (pc'[q] = "sending" /\ i = myRow'[q])
    BY <1>1, <2>1 DEF HandInv, ApplyRemembers, HandsStay, ReportsStay
  <2> QED BY <2>1 DEF ApplyRemembers, InHand, InHandAfter
<1>3. ClaimRemembers'
  <2>1. CASE attempt' = NoAttempt
    BY <2>1 DEF ClaimRemembers
  <2>2. CASE attempt' # NoAttempt
    <3>1. run \in Runs
      BY <2>2 DEF ClaimQuiet, SharedTypeOK, ItemTypeOK, ClaimInv, ClaimIsOfRun, RunIsActive, Active
    <3>2. ASSUME NEW i \in Idx, InHandAfter(run', i)
          PROVE  InHand(run, i)
      BY <2>2, <3>1, <3>2 DEF ClaimQuiet, HandsStay
    <3> QED BY <2>2, <3>2 DEF ClaimQuiet, HandInv, ClaimRemembers, InHand, InHandAfter
  <2> QED BY <2>1, <2>2
<1>4. ProgressBehind'
  BY <1>1 DEF HandInv, ProgressBehind, ReportsStay, ClaimQuiet, HoldsClaim
<1> QED BY <1>2, <1>3, <1>4 DEF HandInv

LEMMA EndsReports ==
  ASSUME ActionTypeOK, NEW p \in Procs, Ends(p)
  PROVE  ReportsStay
<1>1. /\ pc'[p] = "idle"
      /\ \A q \in Procs \ {p} : /\ pc'[q] = pc[q] /\ myRun'[q] = myRun[q] /\ myRow'[q] = myRow[q]
                                /\ myLedger'[q] = myLedger[q] /\ myAttempt'[q] = myAttempt[q]
  BY DEF ActionTypeOK, Ends
<1> QED BY <1>1 DEF ReportsStay, Reporting

LEMMA KeptReports ==
  ASSUME UNCHANGED procVars
  PROVE  ReportsStay
BY DEF procVars, applyVars, ReportsStay

LEMMA ExecutionQuiet ==
  ASSUME ActionTypeOK, ClaimInv, NEW p \in Procs, Execution(p)
  PROVE  ReportsStay /\ ClaimQuiet
<1>1. CASE ReadItem(p) \/ ClaimExecution(p)
  BY <1>1 DEF ReadItem, ClaimExecution, ActionTypeOK, ReportsStay, Reporting, applyVars, claimVars,
              outputVars, ClaimQuiet
<1>2. CASE ClaimExecutionRefused(p) \/ MovedOn(p)
  BY <1>2, EndsReports DEF ClaimExecutionRefused, MovedOn, ClaimQuiet, claimVars, outputVars
<1>3. CASE SetActionsPending(p) \/ ResumeExecution(p) \/ ExecutionFails(p)
  BY <1>3, EndsReports DEF SetActionsPending, Gated, ResumeExecution, ExecutionFails, FailInTransaction,
                           ClearClaim, BeforeGate, ClaimQuiet
<1> QED BY <1>1, <1>2, <1>3 DEF Execution

LEMMA RecoveredQuiet ==
  ASSUME NEW r, NEW ph, RecoverInterruptedApply(r, ph), UNCHANGED RecoveryKeeps
  PROVE  ClaimQuiet
BY DEF RecoverInterruptedApply, RecoveryKeeps, ClaimQuiet

LEMMA ItemQuiet ==
  ASSUME ClaimInv, Scheduler \/ Manager
  PROVE  ReportsStay /\ ClaimQuiet
<1>1. ReportsStay
  <2>1. UNCHANGED procVars
    BY DEF Scheduler, Manager, ClaimRefused, ParkOnConnection, FireSwitch, ResumeHeldApplies, SweepStalled,
           ApproveActions, RejectActions, StopRun, ReconcileFailed, RetryFailed, PlanAgain, SetPaused
  <2> QED BY <2>1, KeptReports
<1>2. ClaimQuiet
  <2>1. CASE FireSwitch
    BY <2>1, RecoveredQuiet DEF FireSwitch
  <2>2. CASE ~FireSwitch
    BY <2>2 DEF Scheduler, Manager, ClaimRefused, ParkOnConnection, ResumeHeldApplies, SweepStalled,
                FailInTransaction, ClearClaim, ApproveActions, RejectActions, StopRun, ReconcileFailed,
                RetryFailed, PlanAgain, SetPaused, claimVars, outputVars, ClaimQuiet, ClaimInv, ClaimIsOfRun
  <2> QED BY <2>1, <2>2
<1> QED BY <1>1, <1>2

\* An apply that ends, or is on its way to.
LEMMA ApplyQuiet ==
  ASSUME ActionTypeOK, ClaimInv, NEW p \in Procs, Apply(p),
         ~(ClaimApprovedActions(p) \/ RefuseRow(p) \/ Authorise(p) \/ Send(p)),
         RecordApplyOutcome(p) => ~HoldsClaim(p)
  PROVE  ReportsStay /\ ClaimQuiet
<1>1. CASE RecordApplyOutcome(p)
  BY <1>1 DEF RecordApplyOutcome, UpTo, ActionTypeOK, ReportsStay, Reporting, ClaimQuiet, claimVars
<1>2. CASE RecordUnsentAfterStop(p) \/ ApplyThrows(p) \/ (SetCompleted(p) /\ ~Ends(p))
  <2>1. /\ UNCHANGED applyVars /\ pc'[p] = "recover" /\ \A q \in Procs \ {p} : pc'[q] = pc[q]
        /\ UNCHANGED <<state, run, approved, attempt, progress>>
        /\ ledger' = ledger \/ state = "failed"
    BY <1>2 DEF RecordUnsentAfterStop, ApplyThrows, SetCompleted, ActionTypeOK, claimVars, outputVars
  <2> QED BY <2>1 DEF applyVars, ReportsStay, Reporting, ClaimQuiet, ClaimInv, ClaimIsOfRun
<1>3. CASE Recover(p)
  BY <1>3, EndsReports, RecoveredQuiet DEF Recover
<1>4. CASE FinishFailed(p) \/ StopOnQuestion(p) \/ SetAwaitingApproval(p) \/ (SetCompleted(p) /\ Ends(p))
  BY <1>4, EndsReports DEF FinishFailed, StopOnQuestion, SetAwaitingApproval, SetCompleted, ApplySetFailed,
                           FailInTransaction, ClearClaim, ClaimQuiet, claimVars
<1> QED BY <1>1, <1>2, <1>3, <1>4 DEF Apply

\* An apply decides a row: nothing was in hand of it, but what is sent now.
LEMMA RowHand ==
  ASSUME SharedTypeOK, ActionTypeOK, ActsForARun, DecidedInv, ClaimInv, OnceInv, TrueInv, FormInv, HandInv,
         NEW p \in Procs, RefuseRow(p) \/ Authorise(p) \/ Send(p)
  PROVE  HandInv'
<1>1. /\ pc[p] \in {"apply", "sending"} /\ myRow[p] \in Idx /\ myLedger[p][myRow[p]].st = "none"
      /\ UNCHANGED <<myRun, myAttempt, myRow, state, run, approved, attempt, progress, ledger>>
      /\ pc'[p] \in {"apply", "sending"} /\ \A q \in Procs \ {p} : pc'[q] = pc[q]
      /\ Send(p) => pc[p] = "sending" /\ pc'[p] = "apply"
      /\ pc[p] = "sending" => Send(p)
  BY DEF RefuseRow, Authorise, Send, Undecided, UpTo, ActionTypeOK, ActsForARun, DecidedInv, SendsBlank,
         claimVars, outputVars
<1>2. \A q \in Procs : pc[q] \in Reporting => /\ myRun[q] \in Runs
                                              /\ (myRun[q] = myRun[p] => q = p)
                                              /\ (HoldsClaim(q) /\ HoldsClaim(p) => q = p)
  <2>1. ASSUME NEW q \in Procs, pc[q] \in Reporting
        PROVE  (myRun[q] = myRun[p] => q = p) /\ (HoldsClaim(q) /\ HoldsClaim(p) => q = p)
    BY <1>1, <2>1 DEF Reporting, ClaimInv, RunsApart, AttemptsApart, Applying, HoldsClaim
  <2> QED BY <2>1, ReportersRun
<1>3. /\ \A i \in Idx \ {myRow[p]} : myLedger'[p][i] = myLedger[p][i]
      /\ \A q \in Procs \ {p} : myLedger'[q] = myLedger[q]
      /\ myLedger'[p][myRow[p]].st = "none" => myLedger' = myLedger
  <2>1. (\E st \in {"failed", "held", "landed", "unknown"} : Decide(p, st)) \/ UNCHANGED myLedger
    BY DEF RefuseRow, Authorise, Send
  <2> QED BY <1>1, <2>1 DEF Decide, Row, ActionTypeOK
<1>4. ASSUME NEW r \in Runs, NEW i \in Idx, InHandAfter(r, i)
      PROVE  InHand(r, i) \/ (Authorise(p) /\ HoldsClaim(p) /\ r = myRun[p] /\ i = myRow[p] /\ pc'[p] = "sending")
  <2>1. CASE HandsStay
    BY <1>4, <2>1 DEF HandsStay
  <2>2. CASE Authorise(p) /\ HoldsClaim(p)
    BY <1>1, <1>4, <2>2 DEF InHand, InHandAfter, Authorise, providerVars
  <2> QED BY <2>1, <2>2, RowHands
<1>5. ASSUME InHandAfter(myRun[p], myRow[p])
      PROVE  myLedger'[p][myRow[p]].st \in {"landed", "unknown"} \/ pc'[p] = "sending"
  <2>1. myRun[p] \notin landed[myRow[p]]
    BY <1>1 DEF OnceInv, RowsUntried, NotTried, TrueInv, LandedWasTried
  <2>2. CASE Send(p)
    <3>1. PICK taken \in BOOLEAN, st \in {"landed", "failed", "unknown"} :
            /\ st = "failed" => ~taken
            /\ landed' = IF taken THEN [landed EXCEPT ![myRow[p]] = @ \cup {myRun[p]}] ELSE landed
            /\ Decide(p, st)
      BY <2>2 DEF Send
    <3>2. myLedger'[p][myRow[p]].st = st
      BY <1>1, <3>1 DEF Decide, Row, ActionTypeOK
    <3>3. CASE st = "failed"
      <4>1. landed' = landed
        BY <3>1, <3>3
      <4>2. PICK q \in Procs : pc'[q] = "sending" /\ myRun[q] = myRun[p]
        BY <1>1, <1>5, <2>1, <4>1 DEF InHandAfter
      <4> QED BY <1>1, <1>2, <2>2, <4>2 DEF Reporting
    <3> QED BY <3>1, <3>2, <3>3
  <2>3. CASE ~Send(p)
    <3>1. landed' = landed
      BY <2>3 DEF RefuseRow, Authorise, providerVars
    <3>2. PICK q \in Procs : pc'[q] = "sending" /\ myRun[q] = myRun[p]
      BY <1>1, <1>5, <2>1, <3>1 DEF InHandAfter
    <3> QED BY <1>1, <1>2, <3>2 DEF Reporting
  <2> QED BY <2>2, <2>3
<1>6. ApplyRemembers'
  <2>1. ASSUME NEW q \in Procs, pc'[q] \in Reporting, NEW i \in Idx, InHandAfter(myRun[q], i)
        PROVE  myLedger'[q][i].st \in {"landed", "unknown"} \/ (pc'[q] = "sending" /\ i = myRow[q])
    <3>1. CASE q = p /\ i = myRow[p]
      BY <1>5, <2>1, <3>1
    <3>2. CASE q # p \/ i # myRow[p]
      <4>1. pc[q] \in Reporting /\ InHand(myRun[q], i)
        BY <1>1, <1>2, <1>4, <2>1, <3>2 DEF Reporting
      <4> QED BY <1>1, <1>3, <3>2, <4>1 DEF HandInv, ApplyRemembers
    <3> QED BY <3>1, <3>2
  <2> QED BY <1>1, <2>1 DEF ApplyRemembers, InHand, InHandAfter
<1>7. ClaimRemembers'
  <2>1. ASSUME attempt # NoAttempt, NEW i \in Idx, InHandAfter(run, i)
        PROVE  IF i \in approved THEN progress[i].st \in {"none", "landed", "unknown"} ELSE ledger[i].st = "landed"
    <3>1. run \in Runs
      BY <2>1 DEF SharedTypeOK, ItemTypeOK, ClaimInv, ClaimIsOfRun, RunIsActive, Active
    <3>2. CASE InHand(run, i)
      BY <2>1, <3>2 DEF HandInv, ClaimRemembers
    <3>3. CASE HoldsClaim(p) /\ i = myRow[p] /\ pc[p] = "apply"
      BY <1>1, <3>3 DEF HandInv, ProgressBehind, Reporting, ActionTypeOK
    <3> QED BY <1>1, <1>4, <2>1, <3>1, <3>2, <3>3 DEF Authorise, Undecided, UpTo
  <2> QED BY <1>1, <2>1 DEF ClaimRemembers, InHand, InHandAfter
<1>8. ProgressBehind'
  <2>1. ASSUME NEW q \in Procs, pc'[q] \in Reporting, HoldsClaim(q), NEW i \in Idx
        PROVE  /\ i >= myRow[q] /\ pc'[q] # "finish" => progress[i].st = "none"
               /\ myLedger'[q][i].st = "none" => i \in approved
    <3>1. /\ pc[q] \in Reporting /\ (pc[q] = "finish" => pc'[q] = "finish")
          /\ myLedger'[q][i].st = "none" => myLedger[q][i].st = "none"
      BY <1>1, <1>3, <2>1 DEF Reporting
    <3> QED BY <2>1, <3>1 DEF HandInv, ProgressBehind
  <2> QED BY <1>1, <2>1 DEF ProgressBehind, HoldsClaim
<1> QED BY <1>6, <1>7, <1>8 DEF HandInv

LEMMA ReportedHand ==
  ASSUME SharedTypeOK, ActionTypeOK, ActsForARun, ClaimInv, FormInv, HandInv, HandsStay,
         NEW p \in Procs, RecordApplyOutcome(p), HoldsClaim(p)
  PROVE  HandInv'
<1>1. /\ pc[p] = "apply" /\ myRow[p] \in Idx
      /\ progress' = [progress EXCEPT ![myRow[p]] = myLedger[p][myRow[p]]]
      /\ myRow'[p] = myRow[p] + 1 /\ pc'[p] \in {"apply", "finish"}
      /\ UNCHANGED <<myRun, myAttempt, myLedger, run, approved, attempt, ledger>>
      /\ \A q \in Procs \ {p} : pc'[q] = pc[q] /\ myRow'[q] = myRow[q]
  BY DEF RecordApplyOutcome, UpTo, ActionTypeOK, claimVars
<1>2. progress'[myRow[p]] = myLedger[p][myRow[p]] /\ \A i \in Idx \ {myRow[p]} : progress'[i] = progress[i]
  BY <1>1 DEF SharedTypeOK, OutputTypeOK
<1>3. myRun[p] = run /\ run \in Runs
  BY <1>1, ReportersRun DEF FormInv, HolderIsOfRun, Applying, Reporting
<1>4. \A q \in Procs : pc[q] \in Reporting /\ HoldsClaim(q) => q = p
  BY <1>1 DEF ClaimInv, AttemptsApart, Reporting, Applying, HoldsClaim
<1>5. ApplyRemembers'
  <2>1. ASSUME NEW q \in Procs, pc'[q] \in Reporting, NEW i \in Idx, InHandAfter(myRun[q], i)
        PROVE  myLedger[q][i].st \in {"landed", "unknown"} \/ (pc'[q] = "sending" /\ i = myRow'[q])
    <3>1. pc[q] \in Reporting
      BY <1>1, <2>1 DEF Reporting
    <3>2. InHand(myRun[q], i)
      BY <2>1, <3>1, ReportersRun DEF HandsStay
    <3> QED BY <1>1, <3>1, <3>2 DEF HandInv, ApplyRemembers
  <2> QED BY <1>1, <2>1 DEF ApplyRemembers, InHand, InHandAfter
<1>6. ClaimRemembers'
  <2>1. ASSUME attempt # NoAttempt, NEW i \in Idx, InHandAfter(run, i)
        PROVE  IF i \in approved THEN progress'[i].st \in {"none", "landed", "unknown"} ELSE ledger[i].st = "landed"
    <3>1. InHand(run, i)
      BY <1>3, <2>1 DEF HandsStay
    <3>2. i = myRow[p] => myLedger[p][i].st \in {"landed", "unknown"}
      BY <1>1, <1>3, <3>1 DEF HandInv, ApplyRemembers, Reporting
    <3> QED BY <1>2, <2>1, <3>1, <3>2 DEF HandInv, ClaimRemembers
  <2> QED BY <1>1, <2>1 DEF ClaimRemembers, InHand, InHandAfter
<1>7. ProgressBehind'
  <2>1. ASSUME NEW i \in Idx
        PROVE  /\ i >= myRow'[p] /\ pc'[p] # "finish" => progress'[i].st = "none"
               /\ myLedger[p][i].st = "none" => i \in approved
    <3>1. i >= myRow[p] + 1 => i >= myRow[p] /\ i # myRow[p]
      BY <1>1
    <3> QED BY <1>1, <1>2, <3>1 DEF HandInv, ProgressBehind, Reporting
  <2>2. \A q \in Procs : pc'[q] \in Reporting => pc[q] \in Reporting
    BY <1>1 DEF Reporting
  <2>3. \A q \in Procs : HoldsClaim(q)' => HoldsClaim(q)
    BY <1>1 DEF HoldsClaim, RecordApplyOutcome
  <2> QED BY <1>1, <1>4, <2>1, <2>2, <2>3 DEF ProgressBehind
<1> QED BY <1>5, <1>6, <1>7 DEF HandInv

\* The rows a claimed apply starts from name what it has landed before.
LEMMA ClaimedHand ==
  ASSUME SharedTypeOK, ActionTypeOK, ActsForARun, DecidedInv, ClaimInv, OnceInv, TrueInv, FormInv,
         ClosedInv, HandInv, HandsStay, NEW p \in Procs, ClaimApprovedActions(p)
  PROVE  HandInv'
<1>1. Claimable /\ AfterGate /\ run \in Runs /\ (attempt = NoAttempt \/ state # "executing")
  <2>1. Claimable
    BY DEF ClaimApprovedActions
  <2>2. run # 0 /\ pending = run /\ Active
    BY <2>1, ClaimableIsOfRun
  <2> QED BY <2>1, <2>2 DEF AfterGate, ClaimInv, ClaimIsOfRun, Claimable, AutoPhase, SharedTypeOK, ItemTypeOK
<1>2. progress' = NoRows /\ UNCHANGED <<run, approved, ledger>>
  BY DEF ClaimApprovedActions
<1>3. /\ pc'[p] = "apply" /\ myRun'[p] = run /\ myLedger'[p] = ClaimedLedger
      /\ \A q \in Procs : myAttempt[q] # attempt'
      /\ \A q \in Procs \ {p} : /\ pc'[q] = pc[q] /\ myRun'[q] = myRun[q] /\ myRow'[q] = myRow[q]
                                /\ myLedger'[q] = myLedger[q] /\ myAttempt'[q] = myAttempt[q]
  BY <1>1, ClaimableIsOfRun DEF ClaimApprovedActions, ActionTypeOK
<1>4. ASSUME NEW i \in Idx, InHandAfter(run, i)
      PROVE  ledger[i].st = "landed" /\ ClaimedLedger[i] = ledger[i]
  <2>1. run \in landed[i]
    BY <1>1, <1>4, NobodyActsForIt DEF HandsStay, InHand
  <2>2. state = "actions-pending" /\ ledger[i].st \notin NotTried
    BY <1>1, <2>1 DEF TrueInv, LandedWasTried, Claimable, AutoPhase, OnceInv, FreshRunUntried, HeldRunUntried
  <2>3. ledger[i].st # "held"
    BY <1>1, <2>1, LedgerClosed DEF ClosedRow, Closed, SentNothing, FormInv, OwnRows, OwnRow
  <2>4. ledger[i].st = "landed"
    BY <1>1, <2>2, <2>3 DEF FormInv, HeldLedgerSettled, NotTried
  <2>5. ClaimedLedger[i] = ledger[i]
    BY <2>2, <2>4 DEF ClaimedLedger, PriorRow, AutoPhase, Blank, Row
  <2> QED BY <2>4, <2>5
<1>5. ApplyRemembers'
  <2>1. ASSUME NEW q \in Procs, pc'[q] \in Reporting, NEW i \in Idx, InHandAfter(myRun'[q], i)
        PROVE  myLedger'[q][i].st \in {"landed", "unknown"} \/ (pc'[q] = "sending" /\ i = myRow'[q])
    <3>1. CASE q = p
      BY <1>3, <1>4, <2>1, <3>1
    <3>2. CASE q # p
      BY <1>3, <2>1, <3>2, ReportersRun DEF HandsStay, HandInv, ApplyRemembers
    <3> QED BY <3>1, <3>2
  <2> QED BY <2>1 DEF ApplyRemembers, InHand, InHandAfter
<1>6. ClaimRemembers'
  <2>1. \A i \in Idx : InHandAfter(run', i) =>
          IF i \in approved THEN progress'[i].st \in {"none", "landed", "unknown"} ELSE ledger[i].st = "landed"
    BY <1>2, <1>4 DEF NoRows, Blank, Row
  <2> QED BY <1>2, <2>1 DEF ClaimRemembers, InHand, InHandAfter
<1>7. ProgressBehind'
  <2>1. \A i \in Idx : progress'[i].st = "none"
    BY <1>2 DEF NoRows, Blank, Row
  <2>2. \A i \in Idx : ClaimedLedger[i].st = "none" => i \in approved
    BY ClaimedRow DEF Row, Blank
  <2>3. \A q \in Procs : HoldsClaim(q)' => q = p
    BY <1>3 DEF HoldsClaim
  <2> QED BY <1>2, <1>3, <2>1, <2>2, <2>3 DEF ProgressBehind
<1> QED BY <1>5, <1>6, <1>7 DEF HandInv

LEMMA HandStep ==
  TypeInv /\ DecidedInv /\ ClaimInv /\ OnceInv /\ TrueInv /\ FormInv /\ ClosedInv /\ HandInv /\ [Next]_vars
    => HandInv'
<1> SUFFICES ASSUME SharedTypeOK, ActionTypeOK, ActsForARun, DecidedInv, ClaimInv, OnceInv, TrueInv,
                    FormInv, ClosedInv, HandInv, [Next]_vars
             PROVE  HandInv'
  BY DEF TypeInv, TypeOK, SharedTypeOK
<1>1. ASSUME NEW p \in Procs, Execution(p)
      PROVE  HandInv'
  BY <1>1, ExecutionNone, NoneSentHands, ExecutionQuiet, HandKept
<1>2. ASSUME NEW p \in Procs, Apply(p)
      PROVE  HandInv'
  <2>1. CASE ClaimApprovedActions(p)
    <3>1. HandsStay
      BY <2>1 DEF ClaimApprovedActions, ActionTypeOK, HandsStay, InHand, InHandAfter, providerVars
    <3> QED BY <2>1, <3>1, ClaimedHand
  <2>2. CASE RefuseRow(p) \/ Authorise(p) \/ Send(p)
    BY <2>2, RowHand
  <2>3. CASE RecordApplyOutcome(p) /\ HoldsClaim(p)
    <3>1. HandsStay
      BY <1>2, <2>3, ApplyHands DEF Authorise, Undecided, RecordApplyOutcome
    <3> QED BY <2>3, <3>1, ReportedHand
  <2>4. CASE ~(ClaimApprovedActions(p) \/ RefuseRow(p) \/ Authorise(p) \/ Send(p)
               \/ (RecordApplyOutcome(p) /\ HoldsClaim(p)))
    BY <1>2, <2>4, ApplyQuiet, ApplyHands, HandKept
  <2> QED BY <2>1, <2>2, <2>3, <2>4
<1>3. ASSUME NEW p \in Procs, Crash(p)
      PROVE  HandInv'
  <2>1. Ends(p) /\ UNCHANGED landed /\ ClaimQuiet
    BY <1>3 DEF Crash, ClaimQuiet, claimVars, outputVars, providerVars
  <2> QED BY <2>1, EndsNone, NoneSentHands, EndsReports, HandKept
<1>4. CASE Scheduler \/ Manager
  BY <1>4, ItemNone, NoneSentHands, ItemQuiet, HandKept
<1>5. CASE UNCHANGED vars
  <2>1. UNCHANGED <<procVars, landed>> /\ ClaimQuiet
    BY <1>5 DEF vars, ClaimQuiet, claimVars, outputVars, providerVars
  <2> QED BY <2>1, KeptNone, NoneSentHands, KeptReports, HandKept
<1> QED BY <1>1, <1>2, <1>3, <1>4, <1>5 DEF Next

-----------------------------------------------------------------------------
(* What landed is remembered, from the apply to the author of the next run. *)

\* A run claimed on a stale read may have passed a write over.
Passed(r) == \E t \in stale : r < t

Remembered ==
  \A i \in Idx, r \in Runs : InHand(r, i) =>
    \/ state = "executing" /\ run = r
    \/ ledger[i].key = r /\ (ledger[i].st = "landed" \/ (state = "failed" /\ ledger[i].st \in UnknownStatuses))
    \/ <<r, i>> \in carried \cup told
    \/ Passed(r)

\* The author of a run read all of it before the run was claimed.
AuthorRemembers ==
  \A p \in Procs : pc[p] = "authoring" /\ Active /\ myRun[p] = run =>
    \A i \in Idx, r \in Runs : InHand(r, i) => <<r, i>> \in snapCarried[p] \cup told \/ Passed(r)

MemoryInv == Remembered /\ AuthorRemembers

LEMMA MemoryInit == Init => MemoryInv
BY DEF Init, MemoryInv, Remembered, AuthorRemembers, InHand

\* What was in hand before a step is remembered after it.
StillKept(r, i) ==
  \/ state' = "executing" /\ run' = r
  \/ ledger'[i].key = r /\ (ledger'[i].st = "landed" \/ (state' = "failed" /\ ledger'[i].st \in UnknownStatuses))
  \/ <<r, i>> \in carried' \cup told'
  \/ \E t \in stale' : r < t
Keeps == \A i \in Idx, r \in Runs : InHand(r, i) => StillKept(r, i)
WordsGrow == told \subseteq told' /\ stale \subseteq stale'

LEMMA FreshNotInHand ==
  ASSUME ClaimInv, OnceInv, TrueInv, state = "executing", attempt = NoAttempt, NEW i \in Idx
  PROVE  ~InHand(run, i)
<1>1. run \notin landed[i]
  BY DEF OnceInv, FreshRunUntried, TrueInv, LandedWasTried
<1>2. \A p \in Procs : pc[p] = "sending" => myRun[p] # run
  BY DEF ClaimInv, OneHolder, AttemptsApart, Applying, Active, HoldsClaim
<1> QED BY <1>1, <1>2 DEF InHand

\* The item's record stays as it is, and a claimed run is not ended.
LEMMA ItemKeeps ==
  ASSUME ClaimInv, OnceInv, TrueInv, MemoryInv, UNCHANGED <<ledger, carried>>, WordsGrow,
         state = "failed" => state' = "failed",
         state = "executing" /\ attempt # NoAttempt => state' = "executing" /\ run' = run
  PROVE  Keeps
BY FreshNotInHand DEF MemoryInv, Remembered, Passed, Keeps, StillKept, WordsGrow

LEMMA ExecutionKeeps ==
  ASSUME SharedTypeOK, ClaimInv, OnceInv, TrueInv, MemoryInv, NEW p \in Procs, Execution(p)
  PROVE  Keeps
<1>1. CASE ReadItem(p) \/ ClaimExecutionRefused(p) \/ MovedOn(p)
  BY <1>1, ItemKeeps DEF ReadItem, ClaimExecutionRefused, MovedOn, WordsGrow, claimVars, outputVars, wordVars
<1>2. CASE ClaimExecution(p) \/ ResumeExecution(p)
  BY <1>2, ItemKeeps DEF ClaimExecution, ResumeExecution, BeforeGate, WordsGrow, outputVars, wordVars
<1>3. ASSUME pc[p] = "authoring", myRun[p] = run, Active, KeepDraft(p), WordsGrow
      PROVE  Keeps
  BY <1>3 DEF MemoryInv, AuthorRemembers, KeepDraft, Passed, Keeps, StillKept, WordsGrow
<1>4. CASE SetActionsPending(p)
  BY <1>3, <1>4 DEF SetActionsPending, BeforeGate, Active, WordsGrow
<1>5. CASE ExecutionFails(p)
  <2>1. WordsGrow /\ Active /\ state' = "failed"
    BY <1>5 DEF ExecutionFails, FailInTransaction, Active, WordsGrow, wordVars
  <2>2. CASE UNCHANGED outputVars
    <3>1. attempt = NoAttempt
      BY <1>5, <2>1 DEF ExecutionFails, ClaimInv, AuthorsBeforeGate, BeforeGate
    <3> QED BY <2>1, <2>2, <3>1, ItemKeeps DEF outputVars
  <2> QED BY <1>3, <1>5, <2>1, <2>2 DEF ExecutionFails
<1> QED BY <1>1, <1>2, <1>4, <1>5 DEF Execution

\* The ledger an apply ends with names what it has landed.
LEMMA FinishedKeeps ==
  ASSUME SharedTypeOK, ActionTypeOK, ActsForARun, ClaimInv, FormInv, HandInv, MemoryInv,
         NEW p \in Procs, pc[p] = "finish", HoldsClaim(p),
         ledger' = myLedger[p] \/ ledger' = Settled(myLedger[p]),
         state' = "failed" \/ ~Has(myLedger[p], FailedStatuses), UNCHANGED carried, WordsGrow
  PROVE  Keeps
<1>1. myRun[p] = run /\ AfterGate /\ state = "executing"
  BY DEF FormInv, HolderIsOfRun, Applying, AfterGate, Active, HoldsClaim, ClaimInv, AttemptsApart, ClaimIsOfRun
<1>2. ASSUME NEW i \in Idx, InHand(run, i)
      PROVE  /\ ledger'[i].key = run
             /\ ledger'[i].st = "landed" \/ (state' = "failed" /\ ledger'[i].st \in UnknownStatuses)
  <2>1. myLedger[p][i].st \in {"landed", "unknown"}
    BY <1>1, <1>2 DEF HandInv, ApplyRemembers, Reporting
  <2>2. myLedger[p][i].key = run
    BY <1>1, <2>1 DEF FormInv, OwnRows, OwnRow, Reporting
  <2>3. ledger'[i] = myLedger[p][i]
    BY <2>1 DEF Settled
  <2>4. myLedger[p][i].st = "unknown" => Has(myLedger[p], FailedStatuses)
    BY DEF Has, FailedStatuses
  <2> QED BY <2>1, <2>2, <2>3, <2>4 DEF UnknownStatuses
<1>3. \A i \in Idx : ledger[i].st = "landed" => ledger[i].key = run
  BY <1>1 DEF FormInv, OwnRows, OwnRow
<1> QED BY <1>1, <1>2, <1>3 DEF MemoryInv, Remembered, Passed, Keeps, StillKept, WordsGrow

\* So does the one an interrupted apply leaves.
LEMMA InterruptedKeeps ==
  ASSUME SharedTypeOK, ClaimInv, FormInv, HandInv, MemoryInv, attempt # NoAttempt,
         NEW unknown \in UnknownStatuses, ledger' = InterruptedLedger(unknown),
         state' = "failed", UNCHANGED carried, WordsGrow
  PROVE  Keeps
<1>1. AfterGate /\ state = "executing" /\ RunKey = run
  BY DEF AfterGate, Active, ClaimInv, ClaimIsOfRun, RunIsActive, RunKey
<1>2. ASSUME NEW i \in Idx, InHand(run, i)
      PROVE  ledger'[i].key = run /\ ledger'[i].st \in {"landed"} \cup UnknownStatuses
  <2>1. OwnRow(ledger[i], run) /\ OwnRow(progress[i], run)
    BY <1>1 DEF FormInv, OwnRows
  <2>2. IF i \in approved THEN progress[i].st \in {"none", "landed", "unknown"} ELSE ledger[i].st = "landed"
    BY <1>2 DEF HandInv, ClaimRemembers
  <2> QED BY <1>1, <2>1, <2>2 DEF InterruptedLedger, OwnRow, Row, UnknownStatuses
<1>3. \A i \in Idx : ledger[i].st = "landed" => ledger[i].key = run
  BY <1>1 DEF FormInv, OwnRows, OwnRow
<1> QED BY <1>1, <1>2, <1>3 DEF MemoryInv, Remembered, Passed, Keeps, StillKept, WordsGrow

LEMMA RecoveredKeeps ==
  ASSUME SharedTypeOK, ClaimInv, OnceInv, TrueInv, FormInv, HandInv, MemoryInv, NEW r, NEW ph,
         RecoverInterruptedApply(r, ph), UNCHANGED RecoveryKeeps
  PROVE  Keeps
<1>1. CASE attempt # NoAttempt /\ state' = "failed" /\ ledger' = InterruptedLedger("unknown")
  BY <1>1, InterruptedKeeps DEF RecoveryKeeps, WordsGrow, wordVars, UnknownStatuses
<1>2. CASE UNCHANGED <<state, ledger>>
  BY <1>2, ItemKeeps DEF RecoveryKeeps, WordsGrow, wordVars
<1> QED BY <1>1, <1>2 DEF RecoverInterruptedApply

LEMMA UnsentKeeps ==
  ASSUME ActionTypeOK, ClaimInv, OnceInv, TrueInv, MemoryInv, ClosedInv', NEW p \in Procs,
         RecordUnsentAfterStop(p)
  PROVE  Keeps
<1>1. /\ pc[p] = "lost" /\ UNCHANGED <<state, run, carried, landed>> /\ WordsGrow
  BY DEF RecordUnsentAfterStop, claimVars, providerVars, wordVars, WordsGrow
<1>2. CASE ledger' = ledger
  BY <1>1, <1>2, ItemKeeps
<1>3. CASE /\ state = "failed"
           /\ ledger' = [i \in Idx |->
                           IF i >= FirstUnsent(p) /\ ledger[i] = Row("stopUnknown", myRun[p])
                           THEN Row("notSent", myRun[p]) ELSE ledger[i]]
  <2>1. ASSUME NEW i \in Idx, InHand(ledger[i].key, i)
        PROVE  ledger'[i] = ledger[i]
    <3> SUFFICES ASSUME ledger[i] = Row("stopUnknown", myRun[p]), ledger'[i] = Row("notSent", myRun[p])
                 PROVE  FALSE
      BY <1>3
    <3>1. myRun[p] \notin landed[i]
      BY <1>1, <1>3 DEF ClosedInv, ClosedRows, ClosedRow, Closed, SentNothing, Row
    <3>2. \A q \in Procs : pc[q] = "sending" => myRun[q] # myRun[p]
      BY <1>1 DEF ClaimInv, RunsApart
    <3> QED BY <2>1, <3>1, <3>2 DEF InHand, Row
  <2> QED BY <1>1, <1>3, <2>1 DEF MemoryInv, Remembered, Passed, Keeps, StillKept, WordsGrow
<1> QED BY <1>2, <1>3 DEF RecordUnsentAfterStop

LEMMA ApplyKeeps ==
  ASSUME SharedTypeOK, ActionTypeOK, ActsForARun, ClaimInv, OnceInv, TrueInv, FormInv, HandInv, MemoryInv,
         ClosedInv', NEW p \in Procs, Apply(p)
  PROVE  Keeps
<1>1. WordsGrow /\ UNCHANGED carried
  BY DEF Apply, ClaimApprovedActions, RefuseRow, Authorise, Send, RecordApplyOutcome, RecordUnsentAfterStop,
         ApplyThrows, Recover, RecoveryKeeps, FinishFailed, SetAwaitingApproval, SetCompleted,
         StopOnQuestion, WordsGrow, outputVars, wordVars
<1>2. CASE \/ ClaimApprovedActions(p) \/ RefuseRow(p) \/ Authorise(p) \/ Send(p) \/ RecordApplyOutcome(p)
           \/ ApplyThrows(p)
  <2>1. /\ ledger' = ledger /\ run' = run
        /\ state' = state \/ (state # "failed" /\ state' = "executing")
    BY <1>2 DEF ClaimApprovedActions, Claimable, AutoPhase, RefuseRow, Authorise, Send, RecordApplyOutcome,
                ApplyThrows, claimVars, outputVars
  <2> QED BY <1>1, <2>1, ItemKeeps
<1>3. CASE RecordUnsentAfterStop(p)
  BY <1>3, UnsentKeeps
<1>4. CASE Recover(p)
  BY <1>4, RecoveredKeeps DEF Recover
<1>5. CASE FinishFailed(p) \/ StopOnQuestion(p)
  <2>1. pc[p] = "finish" /\ ApplySetFailed(p, Settled(myLedger[p]))
    BY <1>5 DEF FinishFailed, StopOnQuestion
  <2>2. CASE run = myRun[p] /\ state \notin {"completed", "failed"}
    <3>1. HoldsClaim(p)
      BY <2>1, <2>2 DEF ActsForARun, ClaimInv, RunIsActive, OneHolder, Applying
    <3> QED BY <1>1, <2>1, <2>2, <3>1, FinishedKeeps DEF ApplySetFailed, FailInTransaction
  <2>3. CASE ~(run = myRun[p] /\ state \notin {"completed", "failed"})
    BY <1>1, <2>1, <2>3, ItemKeeps DEF ApplySetFailed, claimVars
  <2> QED BY <2>2, <2>3
<1>6. CASE SetAwaitingApproval(p)
  <2> USE <1>6 DEF SetAwaitingApproval
  <2>1. CASE HoldsClaim(p) /\ run = myRun[p] /\ phase # "none"
    BY <1>1, <2>1, FinishedKeeps
  <2>2. CASE ~(HoldsClaim(p) /\ run = myRun[p] /\ phase # "none")
    BY <1>1, <2>2, ItemKeeps
  <2> QED BY <2>1, <2>2
<1>7. CASE SetCompleted(p)
  <2> USE <1>7 DEF SetCompleted
  <2>1. CASE state = "executing" /\ run = myRun[p]
    <3>1. HoldsClaim(p)
      BY <2>1 DEF ClaimInv, OneHolder, Applying, Active
    <3>2. ~Has(myLedger[p], FailedStatuses)
      BY DEF Has
    <3> QED BY <1>1, <2>1, <3>1, <3>2, FinishedKeeps
  <2>2. CASE ~(state = "executing" /\ run = myRun[p])
    BY <1>1, <2>2, ItemKeeps DEF claimVars
  <2> QED BY <2>1, <2>2
<1> QED BY <1>2, <1>3, <1>4, <1>5, <1>6, <1>7 DEF Apply

\* What is in hand can still be sent, or is on the provider.
LEMMA HandNotClosed ==
  ASSUME ActsForARun, DecidedInv, NEW i \in Idx, NEW r, InHand(r, i)
  PROVE  ~Closed(r, i)
BY DEF InHand, Closed, MaySend, ActsForARun, DecidedInv, SendsBlank

\* What the output tells of the writes on the provider misses none.
LEMMA LandedWritesMissNone ==
  ASSUME ActsForARun, DecidedInv, FormInv, ClosedInv, UnsentInv, state # "executing",
         NEW a, NEW i \in Idx, NEW r, InHand(r, i), <<r, i>> \notin told,
         a[i] = "notSent" => RowKey(i) \in told,
         \/ <<r, i>> \in carried
         \/ ledger[i].key = r /\ (a[i] = "landed" \/ (a[i] = "none" /\ ledger[i].st = "landed"))
  PROVE  <<r, i>> \in LandedWrites(a)
<1>1. ~Closed(r, i)
  BY HandNotClosed
<1>2. <<r, i>> \notin unsent
  BY <1>1 DEF UnsentInv, UnsentTrue
<1>3. <<r, i>> \notin NotSentWrites(a)
  <2>1. ledger[i].key = r => a[i] # "notSent" /\ ledger[i].st # "notSent"
    BY <1>1, LedgerClosed DEF RowKey, ClosedRow, SentNothing
  <2> QED BY <2>1 DEF NotSentWrites, RowKey
<1> QED BY <1>2, <1>3 DEF LandedWrites, RowKey, LandedStatuses

LEMMA RetryKeeps ==
  ASSUME SharedTypeOK, ActsForARun, DecidedInv, TrueInv, FormInv, ClosedInv, UnsentInv, MemoryInv,
         RetryFailed
  PROVE  Keeps
<1>1. /\ state # "executing" /\ ~ReconciliationOwed
      /\ carried' = IF \E i \in Idx : RetryAnswers[i] # "none" THEN LandedWrites(RetryAnswers) ELSE carried
      /\ UNCHANGED <<ledger, told, stale>>
  BY DEF RetryFailed, CarriedIntoRetry, wordVars
<1>2. \A i \in Idx : RetryAnswers[i] = "notSent" => RowKey(i) \in told
  BY DEF RetryAnswers, TrueInv, AnswersKept
<1>3. ASSUME NEW i \in Idx, NEW r \in Runs, InHand(r, i), <<r, i>> \notin told
      PROVE  StillKept(r, i)
  <2>1. CASE ledger[i].key = r /\ ledger[i].st = "landed"
    BY <1>1, <2>1 DEF StillKept
  <2>2. CASE ledger[i].key = r /\ ledger[i].st \in UnknownStatuses
    <3>1. answers[i] # "none"
      BY <1>1, <2>2 DEF ReconciliationOwed, Entries, Unanswered
    <3>2. RetryAnswers[i] # "none" /\ RetryAnswers[i] = answers[i] /\ answers[i] # "notSent"
      BY <1>2, <1>3, <2>2, <3>1 DEF RetryAnswers, RowKey
    <3>3. CASE answers[i] = "landed"
      <4>1. <<r, i>> \in LandedWrites(RetryAnswers)
        BY <1>1, <1>2, <1>3, <2>2, <3>2, <3>3, LandedWritesMissNone
      <4> QED BY <1>1, <3>2, <4>1 DEF StillKept
    <3>4. CASE answers[i] # "landed"
      BY <3>1, <3>2, <3>4 DEF SharedTypeOK, ItemTypeOK
    <3> QED BY <3>3, <3>4
  <2>3. CASE <<r, i>> \in carried
    <3>1. <<r, i>> \in LandedWrites(RetryAnswers)
      BY <1>1, <1>2, <1>3, <2>3, LandedWritesMissNone
    <3> QED BY <1>1, <2>3, <3>1 DEF StillKept
  <2>4. CASE Passed(r)
    BY <1>1, <2>4 DEF Passed, StillKept
  <2> QED BY <1>1, <1>3, <2>1, <2>2, <2>3, <2>4 DEF MemoryInv, Remembered
<1> QED BY <1>1, <1>3 DEF Keeps, StillKept

LEMMA SchedulerKeeps ==
  ASSUME SharedTypeOK, ClaimInv, OnceInv, TrueInv, FormInv, HandInv, MemoryInv, Scheduler
  PROVE  Keeps
<1>1. CASE ClaimRefused \/ ResumeHeldApplies
  BY <1>1, ItemKeeps DEF ClaimRefused, ResumeHeldApplies, WordsGrow, claimVars, outputVars, wordVars
<1>2. CASE ParkOnConnection \/ SweepStalled
  BY <1>2, ItemKeeps DEF ParkOnConnection, Claimable, AutoPhase, SweepStalled, BeforeGate, FailInTransaction,
                         WordsGrow, outputVars, wordVars
<1>3. CASE FireSwitch
  BY <1>3, RecoveredKeeps DEF FireSwitch
<1> QED BY <1>1, <1>2, <1>3 DEF Scheduler

LEMMA ManagerKeeps ==
  ASSUME SharedTypeOK, ActsForARun, DecidedInv, ClaimInv, OnceInv, TrueInv, FormInv, ClosedInv, UnsentInv,
         HandInv, MemoryInv, Manager
  PROVE  Keeps
<1>1. CASE (\E r \in Runs, S \in SUBSET Idx : ApproveActions(r, S)) \/ ReconcileFailed \/ SetPaused
  BY <1>1, ItemKeeps DEF ApproveActions, ReconcileFailed, SetPaused, WordsGrow, claimVars, outputVars, wordVars
<1>2. CASE \E r \in Runs : RejectActions(r)
  <2>1. state = "actions-pending" /\ ledger' = Settled(ledger) /\ UNCHANGED <<carried, told, stale>>
    BY <1>2 DEF RejectActions, wordVars
  <2>2. \A i \in Idx : ledger[i].st = "landed" => ledger'[i] = ledger[i]
    BY <2>1 DEF Settled
  <2> QED BY <2>1, <2>2 DEF MemoryInv, Remembered, Passed, Keeps, StillKept
<1>3. CASE StopRun
  <2>1. state' = "failed" /\ UNCHANGED carried /\ WordsGrow
    BY <1>3 DEF StopRun, FailInTransaction, WordsGrow, wordVars
  <2>2. CASE attempt # NoAttempt /\ ledger' = InterruptedLedger("stopUnknown")
    BY <2>1, <2>2, InterruptedKeeps DEF UnknownStatuses
  <2>3. CASE (attempt = NoAttempt \/ pending = 0) /\ ledger' = ledger
    <3>1. attempt = NoAttempt
      BY <2>3 DEF ClaimInv, ClaimIsOfRun, RunIsActive, Active
    <3> QED BY <2>1, <2>3, <3>1, ItemKeeps
  <2> QED BY <1>3, <2>2, <2>3 DEF StopRun
<1>4. CASE RetryFailed
  BY <1>4, RetryKeeps
<1>5. CASE PlanAgain
  BY <1>5, ItemKeeps DEF PlanAgain, WordsGrow, outputVars, wordVars
<1> QED BY <1>1, <1>2, <1>3, <1>4, <1>5 DEF Manager

\* A step that claims no run leaves the authors as they are.
AuthorsKept ==
  /\ \A q \in Procs : pc'[q] = "authoring" =>
       pc[q] = "authoring" /\ myRun'[q] = myRun[q] /\ snapCarried'[q] = snapCarried[q]
  /\ Active' => Active /\ run' = run
  /\ WordsGrow

LEMMA EndsAuthors ==
  ASSUME ActionTypeOK, NEW p \in Procs, Ends(p), Active' => Active /\ run' = run, WordsGrow
  PROVE  AuthorsKept
<1>1. /\ pc'[p] = "idle"
      /\ \A q \in Procs \ {p} : pc'[q] = pc[q] /\ myRun'[q] = myRun[q] /\ snapCarried'[q] = snapCarried[q]
  BY DEF ActionTypeOK, Ends
<1> QED BY <1>1 DEF AuthorsKept

LEMMA ExecutionAuthors ==
  ASSUME ActionTypeOK, NEW p \in Procs, Execution(p), ~ClaimExecution(p)
  PROVE  AuthorsKept
<1>1. CASE ReadItem(p)
  BY <1>1 DEF ReadItem, ActionTypeOK, AuthorsKept, WordsGrow, Active, applyVars, claimVars, wordVars
<1>2. CASE ClaimExecutionRefused(p) \/ MovedOn(p)
  BY <1>2, EndsAuthors DEF ClaimExecutionRefused, MovedOn, WordsGrow, Active, claimVars, wordVars
<1>3. CASE SetActionsPending(p) \/ ResumeExecution(p) \/ ExecutionFails(p)
  BY <1>3, EndsAuthors DEF SetActionsPending, Gated, ResumeExecution, ExecutionFails, FailInTransaction,
                           BeforeGate, WordsGrow, Active, wordVars
<1> QED BY <1>1, <1>2, <1>3 DEF Execution

LEMMA ApplyAuthors ==
  ASSUME ActionTypeOK, NEW p \in Procs, Apply(p)
  PROVE  AuthorsKept
<1>1. (Active' => Active /\ run' = run) /\ WordsGrow
  BY DEF Apply, ClaimApprovedActions, Claimable, AutoPhase, RefuseRow, Authorise, Send, RecordApplyOutcome,
         RecordUnsentAfterStop, ApplyThrows, Recover, RecoverInterruptedApply, Unclaimed, RecoveryKeeps,
         FinishFailed, StopOnQuestion, ApplySetFailed, FailInTransaction, SetAwaitingApproval, HoldsClaim,
         SetCompleted, ClearClaim, Active, WordsGrow, claimVars, wordVars
<1>2. CASE Ends(p)
  BY <1>1, <1>2, EndsAuthors
<1>3. CASE UNCHANGED snapVars
  <2>1. /\ pc'[p] # "authoring"
        /\ \A q \in Procs \ {p} : pc'[q] = pc[q] /\ myRun'[q] = myRun[q]
    <3>1. CASE ClaimApprovedActions(p) \/ RefuseRow(p) \/ Authorise(p) \/ Send(p) \/ RecordApplyOutcome(p)
      BY <3>1 DEF ClaimApprovedActions, RefuseRow, Authorise, Undecided, UpTo, Send, RecordApplyOutcome,
                  ActionTypeOK
    <3>2. CASE RecordUnsentAfterStop(p) \/ ApplyThrows(p) \/ Ends(p) \/ SetCompleted(p)
      BY <3>2 DEF RecordUnsentAfterStop, ApplyThrows, Ends, SetCompleted, ActionTypeOK, applyVars
    <3> QED BY <3>1, <3>2
         DEF Apply, Recover, FinishFailed, StopOnQuestion, SetAwaitingApproval
  <2> QED BY <1>1, <1>3, <2>1 DEF AuthorsKept, snapVars
<1> QED BY <1>2, <1>3
     DEF Apply, ClaimApprovedActions, RefuseRow, Authorise, Send, RecordApplyOutcome, RecordUnsentAfterStop,
         ApplyThrows, Recover, FinishFailed, SetAwaitingApproval, SetCompleted, StopOnQuestion

LEMMA ItemAuthors ==
  ASSUME Scheduler \/ Manager
  PROVE  AuthorsKept
<1>1. (Active' => Active /\ run' = run) /\ WordsGrow
  <2>1. CASE FireSwitch
    BY <2>1 DEF FireSwitch, RecoverInterruptedApply, Unclaimed, AutoPhase, ScheduleApply, RecoveryKeeps,
                Active, WordsGrow, wordVars
  <2>2. CASE ~FireSwitch
    BY <2>2 DEF Scheduler, Manager, ClaimRefused, ParkOnConnection, ResumeHeldApplies, SweepStalled,
                FailInTransaction, ApproveActions, RejectActions, StopRun, ReconcileFailed, RetryFailed,
                PlanAgain, SetPaused, Active, WordsGrow, claimVars, wordVars
  <2> QED BY <2>1, <2>2
<1>2. UNCHANGED procVars
  BY DEF Scheduler, Manager, ClaimRefused, ParkOnConnection, FireSwitch, ResumeHeldApplies, SweepStalled,
         ApproveActions, RejectActions, StopRun, ReconcileFailed, RetryFailed, PlanAgain, SetPaused
<1> QED BY <1>1, <1>2 DEF AuthorsKept, procVars, applyVars, snapVars

\* A run's author read what landed under the runs before, or the run is stale.
LEMMA ClaimedAuthor ==
  ASSUME SharedTypeOK, ActionTypeOK, ActsForARun, DecidedInv, ClaimInv, TrueInv, FormInv, ClosedInv,
         UnsentInv, MemoryInv, NEW p \in Procs, ClaimExecution(p)
  PROVE  AuthorRemembers'
<1>1. /\ state = "plan-approved" /\ run' = runs + 1 /\ runs \in Int
      /\ UNCHANGED <<snapCarried, told>>
      /\ \A q \in Procs \ {p} : myRun'[q] = myRun[q]
  BY DEF ClaimExecution, SharedTypeOK, ItemTypeOK, ActionTypeOK, snapVars
<1>2. \A q \in Procs \ {p} : myRun'[q] # run'
  BY <1>1 DEF ClaimInv, LastRun, ActionTypeOK
<1>3. ASSUME NEW i \in Idx, NEW r \in Runs, InHandAfter(r, i)
      PROVE  InHand(r, i) /\ r <= runs
  <2>1. InHand(r, i)
    BY <1>3, ExecutionNone, NoneSentHands DEF Execution, HandsStay
  <2> QED BY <2>1 DEF InHand, ClaimInv, LastRun, TrueInv, LandedWasTried
<1>4. ASSUME NEW i \in Idx, NEW r \in Runs, InHand(r, i), r <= runs
      PROVE  <<r, i>> \in snapCarried[p] \cup told \/ \E t \in stale' : r < t
  <2>1. CASE runs + 1 \in stale'
    BY <1>1, <1>4, <2>1
  <2>2. CASE snapCarried[p] = LandedWrites(NoAnswers) /\ stale' = stale
    <3>1. <<r, i>> \notin told /\ ~Passed(r) => <<r, i>> \in LandedWrites(NoAnswers)
      BY <1>1, <1>4, LandedWritesMissNone DEF MemoryInv, Remembered, NoAnswers
    <3> QED BY <2>2, <3>1 DEF Passed
  <2> QED BY <2>1, <2>2 DEF ClaimExecution
<1> QED BY <1>1, <1>2, <1>3, <1>4 DEF AuthorRemembers, InHand, InHandAfter, Passed

LEMMA MemoryStep ==
  TypeInv /\ DecidedInv /\ ClaimInv /\ OnceInv /\ TrueInv /\ FormInv /\ ClosedInv /\ UnsentInv /\ HandInv
    /\ MemoryInv /\ [Next]_vars => MemoryInv'
<1> SUFFICES ASSUME TypeInv, SharedTypeOK, ActionTypeOK, ActsForARun, DecidedInv, ClaimInv, OnceInv, TrueInv,
                    FormInv, ClosedInv, UnsentInv, HandInv, MemoryInv, [Next]_vars
             PROVE  MemoryInv'
  BY DEF TypeInv, TypeOK, SharedTypeOK
<1>1. ClosedInv'
  BY ClosedStep
<1>2. Keeps
  <2>1. ASSUME NEW p \in Procs, Execution(p) \/ Apply(p)
        PROVE  Keeps
    BY <1>1, <2>1, ExecutionKeeps, ApplyKeeps
  <2>2. ASSUME NEW p \in Procs, Crash(p)
        PROVE  Keeps
    BY <2>2, ItemKeeps DEF Crash, WordsGrow, claimVars, outputVars, wordVars
  <2>3. CASE UNCHANGED vars
    BY <2>3, ItemKeeps DEF vars, WordsGrow, claimVars, outputVars, wordVars
  <2> QED BY <2>1, <2>2, <2>3, SchedulerKeeps, ManagerKeeps DEF Next
<1>3. (\E p \in Procs : ClaimExecution(p)) \/ AuthorsKept
  <2>1. ASSUME NEW p \in Procs, Crash(p)
        PROVE  AuthorsKept
    BY <2>1, EndsAuthors DEF Crash, WordsGrow, Active, claimVars, wordVars
  <2>2. CASE UNCHANGED vars
    BY <2>2 DEF vars, AuthorsKept, WordsGrow, Active, claimVars, procVars, applyVars, snapVars, wordVars
  <2> QED BY <2>1, <2>2, ExecutionAuthors, ApplyAuthors, ItemAuthors DEF Next
<1>4. ASSUME NEW p \in Procs, Authorise(p), HoldsClaim(p)
      PROVE  /\ state' = "executing" /\ run' = myRun[p] /\ attempt # NoAttempt
             /\ \A i \in Idx, r \in Runs : InHandAfter(r, i) => InHand(r, i) \/ r = myRun[p]
  <2>1. pc[p] = "apply" /\ UNCHANGED <<state, run, landed, myRun, myRow>> /\ pc' = [pc EXCEPT ![p] = "sending"]
    BY <1>4 DEF Authorise, Undecided, UpTo, claimVars, providerVars
  <2>2. state = "executing" /\ run = myRun[p] /\ attempt # NoAttempt
    BY <1>4, <2>1 DEF HoldsClaim, FormInv, HolderIsOfRun, Applying, ClaimInv, AttemptsApart
  <2> QED BY <2>1, <2>2 DEF InHand, InHandAfter, ActionTypeOK
<1>5. Remembered'
  <2>1. \A i \in Idx, r \in Runs : InHandAfter(r, i) => StillKept(r, i)
    <3>1. CASE HandsStay
      BY <1>2, <3>1 DEF Keeps, HandsStay
    <3>2. CASE ~HandsStay
      BY <1>2, <1>4, <3>2, StepHands DEF Keeps, StillKept
    <3> QED BY <3>1, <3>2
  <2> QED BY <2>1 DEF Remembered, InHand, InHandAfter, StillKept, Passed
<1>6. AuthorRemembers'
  <2>1. CASE AuthorsKept /\ HandsStay
    BY <2>1 DEF AuthorsKept, HandsStay, WordsGrow, MemoryInv, AuthorRemembers, InHand, InHandAfter, Passed
  <2>2. CASE AuthorsKept /\ ~HandsStay
    <3>1. attempt # NoAttempt
      BY <1>4, <2>2, StepHands
    <3>2. \A q \in Procs : pc[q] = "authoring" /\ Active /\ myRun[q] = run => FALSE
      BY <3>1 DEF ClaimInv, AuthorsBeforeGate, BeforeGate
    <3> QED BY <2>2, <3>2 DEF AuthorsKept, AuthorRemembers
  <2> QED BY <1>3, <2>1, <2>2, ClaimedAuthor
<1> QED BY <1>5, <1>6 DEF MemoryInv

-----------------------------------------------------------------------------
(* A write lands under one run. *)

\* Two runs have a write in hand only where the earlier was denied, or a run
\* since was claimed on a stale read.
HandsOnce ==
  \A i \in Idx, r, s \in Runs : r < s /\ InHand(r, i) /\ InHand(s, i) =>
    <<r, i>> \in told \/ \E t \in stale : r < t /\ t <= s

\* So for what the apply that holds the claim may still send.
BlanksAreNew ==
  \A p \in Procs : pc[p] \in {"apply", "sending"} /\ HoldsClaim(p) =>
    \A i \in Idx, r \in Runs : myLedger[p][i].st = "none" /\ r < myRun[p] /\ InHand(r, i) =>
      <<r, i>> \in told \/ Passed(r)

NewInv == HandsOnce /\ BlanksAreNew

LEMMA NewInit == Init => NewInv
BY DEF Init, NewInv, HandsOnce, BlanksAreNew, InHand

\* There is an oldest of any runs.
LEMMA OldestExists ==
  ASSUME NEW S \in SUBSET Runs, S # {}
  PROVE  \E r \in S : \A s \in S : r <= s
<1> DEFINE R == {ss \in Nat \X Nat : ss[1] < ss[2]}
<1>1. S \subseteq Nat /\ IsWellFoundedOn(R, Nat)
  BY NatLessThanWellFounded DEF OpToRel
<1>2. \A r \in S : \A s \in S : <<s, r>> \notin R => r <= s
  BY <1>1
<1> HIDE DEF R
<1>3. \E r \in S : \A s \in S : <<s, r>> \notin R
  BY <1>1, WFMin
<1> QED BY <1>2, <1>3

\* A row that reuses nothing has nothing to reuse.
LEMMA NothingToReuse ==
  ASSUME NEW i \in Idx, NEW r \in Runs, <<r, i>> \in carried \ unsent
  PROVE  Reused(i) # Blank
<1> DEFINE sources == {s \in Runs : <<s, i>> \in carried \ unsent}
           oldest == {s \in sources : \A t \in sources : s <= t}
<1>1. oldest # {}
  <2>1. sources \in SUBSET Runs /\ sources # {}
    OBVIOUS
  <2>2. \E s \in sources : \A t \in sources : s <= t
    BY <2>1, OldestExists
  <2> QED BY <2>2
<1>2. Reused(i).st = "reused"
  BY <1>1 DEF Reused, Row
<1> QED BY <1>2 DEF Blank, Row

LEMMA ClaimedNew ==
  ASSUME SharedTypeOK, ActionTypeOK, ActsForARun, DecidedInv, ClaimInv, FormInv, UnsentInv,
         MemoryInv, NewInv, HandsStay, NEW p \in Procs, ClaimApprovedActions(p)
  PROVE  BlanksAreNew'
<1>1. Claimable /\ AfterGate /\ RunKey = run
  BY ClaimableIsOfRun DEF ClaimApprovedActions, AfterGate
<1>2. /\ myRun'[p] = run /\ myLedger'[p] = ClaimedLedger /\ UNCHANGED <<told, stale>>
      /\ \A q \in Procs : myAttempt[q] # attempt'
      /\ \A q \in Procs \ {p} : myAttempt'[q] = myAttempt[q]
  BY <1>1 DEF ClaimApprovedActions, ActionTypeOK, wordVars
<1>3. ASSUME NEW i \in Idx, ClaimedLedger[i].st = "none", NEW r \in Runs, r < run, InHand(r, i)
      PROVE  <<r, i>> \in told \/ Passed(r)
  <2>1. PriorRow(i) = Blank
    <3>1. PriorRow(i) # Blank => PriorRow(i).st # "none"
      BY DEF PriorRow, Reused, Row
    <3>2. PriorRow(i) # Blank => ClaimedLedger[i] = PriorRow(i)
      BY DEF ClaimedLedger
    <3> QED BY <1>3, <3>1, <3>2
  <2>2. Reused(i) = Blank
    BY <2>1 DEF PriorRow, Blank, Row
  <2>3. <<r, i>> \in unsent => <<r, i>> \in told
    BY <1>3, HandNotClosed DEF UnsentInv, UnsentTrue
  <2>4. r # run
    BY <1>3
  <2>5. ledger[i].st \in {"landed"} \cup UnknownStatuses => ledger[i].key = run
    BY <1>1 DEF FormInv, OwnRows, OwnRow, UnknownStatuses
  <2>6. <<r, i>> \in carried \cup told \/ Passed(r)
    BY <1>3, <2>4, <2>5 DEF MemoryInv, Remembered
  <2> QED BY <2>2, <2>3, <2>6, NothingToReuse
<1>4. \A q \in Procs : HoldsClaim(q)' => q = p
  BY <1>2 DEF HoldsClaim
<1>5. \A i \in Idx, r \in Runs : InHandAfter(r, i) => InHand(r, i)
  BY DEF HandsStay
<1> QED BY <1>2, <1>3, <1>4, <1>5 DEF BlanksAreNew, InHand, InHandAfter, Passed

\* Between two claims, an apply that holds the claim held it before.
ClaimsStay == \A q \in Procs : pc'[q] \in {"apply", "sending"} /\ HoldsClaim(q)' => HoldsClaim(q)

LEMMA QuietClaims ==
  ASSUME ActionTypeOK, ClaimInv, ReportsStay, ClaimQuiet
  PROVE  ClaimsStay
BY DEF ReportsStay, ClaimQuiet, ClaimsStay, HoldsClaim, Reporting, ClaimInv, AttemptsApart, Applying

LEMMA ApplyClaims ==
  ASSUME ActionTypeOK, ClaimInv, NEW p \in Procs, Apply(p), ~ClaimApprovedActions(p)
  PROVE  ClaimsStay
<1>1. CASE RefuseRow(p) \/ Authorise(p) \/ Send(p) \/ (RecordApplyOutcome(p) /\ HoldsClaim(p))
  <2>1. /\ UNCHANGED <<state, attempt, myAttempt>>
    BY <1>1 DEF RefuseRow, Authorise, Send, RecordApplyOutcome, claimVars
  <2> QED BY <2>1 DEF ClaimsStay, HoldsClaim
<1>2. CASE ~(RefuseRow(p) \/ Authorise(p) \/ Send(p) \/ (RecordApplyOutcome(p) /\ HoldsClaim(p)))
  BY <1>2, ApplyQuiet, QuietClaims
<1> QED BY <1>1, <1>2

\* What the manager said, and which runs were claimed on a stale read, stays.
LEMMA StepWords ==
  ASSUME [Next]_vars
  PROVE  WordsGrow
<1>1. ASSUME NEW p \in Procs, Execution(p) \/ Apply(p) \/ Crash(p)
      PROVE  WordsGrow
  <2>1. CASE Execution(p)
    BY <2>1 DEF Execution, ReadItem, ClaimExecution, ClaimExecutionRefused, SetActionsPending, ResumeExecution,
                ExecutionFails, MovedOn, WordsGrow, wordVars
  <2>2. CASE Apply(p) /\ ~Recover(p)
    BY <2>2 DEF Apply, ClaimApprovedActions, RefuseRow, Authorise, Send, RecordApplyOutcome,
                RecordUnsentAfterStop, ApplyThrows, FinishFailed, SetAwaitingApproval, SetCompleted,
                StopOnQuestion, WordsGrow, wordVars
  <2>3. CASE Recover(p) \/ Crash(p)
    BY <2>3 DEF Recover, RecoveryKeeps, Crash, WordsGrow, wordVars
  <2> QED BY <1>1, <2>1, <2>2, <2>3
<1>2. CASE Scheduler \/ Manager
  BY <1>2 DEF Scheduler, Manager, ClaimRefused, ParkOnConnection, FireSwitch, RecoveryKeeps, ResumeHeldApplies,
              SweepStalled, ApproveActions, RejectActions, StopRun, ReconcileFailed, RetryFailed, PlanAgain,
              SetPaused, WordsGrow, wordVars
<1>3. CASE UNCHANGED vars
  BY <1>3 DEF vars, wordVars, WordsGrow
<1> QED BY <1>1, <1>2, <1>3 DEF Next

LEMMA StepClaims ==
  ASSUME ActionTypeOK, ClaimInv, [Next]_vars
  PROVE  ClaimsStay \/ \E p \in Procs : ClaimApprovedActions(p)
<1>1. ASSUME NEW p \in Procs, Execution(p) \/ Crash(p)
      PROVE  ClaimsStay
  <2>1. CASE Crash(p)
    <3>1. Ends(p) /\ ClaimQuiet
      BY <2>1 DEF Crash, ClaimQuiet, claimVars, outputVars
    <3> QED BY <3>1, EndsReports, QuietClaims
  <2> QED BY <1>1, <2>1, ExecutionQuiet, QuietClaims
<1>2. CASE Scheduler \/ Manager
  BY <1>2, ItemQuiet, QuietClaims
<1>3. CASE UNCHANGED vars
  BY <1>3, KeptReports, QuietClaims DEF vars, ClaimQuiet, claimVars, outputVars
<1> QED BY <1>1, <1>2, <1>3, ApplyClaims DEF Next

LEMMA AuthorisedNew ==
  ASSUME SharedTypeOK, ActionTypeOK, ActsForARun, DecidedInv, ClaimInv, TrueInv, FormInv, OldInv, NewInv, WordsGrow,
         NEW p \in Procs, Authorise(p), HoldsClaim(p)
  PROVE  NewInv'
<1> DEFINE n == myRow[p]
<1>1. /\ n \in Idx /\ pc[p] = "apply" /\ myLedger[p][n].st = "none"
      /\ UNCHANGED <<state, attempt, landed, myRun, myRow, myAttempt, myLedger>>
      /\ pc'[p] = "sending" /\ \A q \in Procs \ {p} : pc'[q] = pc[q]
  BY DEF Authorise, Undecided, UpTo, ActionTypeOK, claimVars, providerVars
<1>2. /\ state = "executing" /\ run = myRun[p] /\ run = runs /\ run \in Runs
  <2>1. myRun[p] \in Runs
    BY <1>1, ReportersRun DEF Reporting
  <2> QED BY <1>1, <2>1 DEF HoldsClaim, FormInv, HolderIsOfRun, Applying, ClaimInv, LastRun
<1>3. \A i \in Idx, r \in Runs : InHandAfter(r, i) => InHand(r, i) \/ (r = run /\ i = n)
  BY <1>1, <1>2 DEF InHand, InHandAfter
<1>4. \A i \in Idx, r \in Runs : InHand(r, i) => r <= run
  <2>1. \A q \in Procs : myRun[q] <= runs
    BY DEF ClaimInv, LastRun
  <2>2. run = runs
    BY <1>2
  <2>3. \A i \in Idx : \A r \in landed[i] : r <= runs
    BY DEF TrueInv, LandedWasTried, ClaimInv, LastRun
  <2> QED BY <2>1, <2>2, <2>3 DEF InHand
<1>5. HandsOnce'
  <2>1. ASSUME NEW i \in Idx, NEW r \in Runs, NEW s \in Runs, r < s, InHandAfter(r, i), InHandAfter(s, i)
        PROVE  <<r, i>> \in told' \/ \E t \in stale' : r < t /\ t <= s
    <3>1. CASE InHand(s, i)
      <4>1. InHand(r, i)
        BY <1>2, <1>3, <1>4, <2>1, <3>1
      <4> QED BY <2>1, <3>1, <4>1 DEF NewInv, HandsOnce, WordsGrow
    <3>2. CASE s = run /\ i = n
      <4>1. InHand(r, i)
        BY <1>2, <1>3, <2>1, <3>2
      <4>2. <<r, i>> \in told \/ Passed(r)
        BY <1>1, <1>2, <2>1, <3>2, <4>1 DEF NewInv, BlanksAreNew
      <4>3. \A t \in stale : t <= s
        BY <1>2, <3>2 DEF OldInv
      <4> QED BY <4>2, <4>3 DEF Passed, WordsGrow
    <3> QED BY <1>3, <2>1, <3>1, <3>2
  <2> QED BY <2>1 DEF HandsOnce, InHand, InHandAfter
<1>6. BlanksAreNew'
  <2>1. \A q \in Procs : HoldsClaim(q)' => HoldsClaim(q)
    BY <1>1 DEF HoldsClaim
  <2>2. \A q \in Procs : pc'[q] \in {"apply", "sending"} =>
          pc[q] \in {"apply", "sending"} /\ (HoldsClaim(q) => q = p)
    BY <1>1 DEF ClaimInv, AttemptsApart, Applying, HoldsClaim
  <2>3. ASSUME NEW i \in Idx, NEW r \in Runs, myLedger'[p][i].st = "none", r < myRun'[p], InHandAfter(r, i)
        PROVE  <<r, i>> \in told' \/ \E t \in stale' : r < t
    <3>1. InHand(r, i)
      BY <1>1, <1>2, <1>3, <2>3
    <3> QED BY <1>1, <2>3, <3>1 DEF NewInv, BlanksAreNew, Passed, WordsGrow
  <2>4. \A q \in Procs : pc'[q] \in {"apply", "sending"} /\ HoldsClaim(q)' => q = p
    BY <2>1, <2>2
  <2>5. ASSUME NEW i \in Idx, NEW r \in Runs, myLedger'[p][i].st = "none", r < myRun'[p], InHand(r, i)'
        PROVE  <<r, i>> \in told' \/ Passed(r)'
    BY <2>3, <2>5 DEF InHand, InHandAfter, Passed
  <2> QED BY <2>4, <2>5 DEF BlanksAreNew
<1> QED BY <1>5, <1>6 DEF NewInv

LEMMA NewStep ==
  TypeInv /\ DecidedInv /\ ClaimInv /\ TrueInv /\ FormInv /\ OldInv /\ UnsentInv /\ MemoryInv /\ NewInv
    /\ [Next]_vars => NewInv'
<1> SUFFICES ASSUME SharedTypeOK, ActionTypeOK, RecordTypeOK, ActsForARun, DecidedInv, ClaimInv, TrueInv, FormInv,
                    OldInv, UnsentInv, MemoryInv, NewInv, [Next]_vars
             PROVE  NewInv'
  BY DEF TypeInv, TypeOK, SharedTypeOK
<1>1. WordsGrow
  BY StepWords
<1>2. ASSUME HandsStay
      PROVE  HandsOnce'
  BY <1>1, <1>2 DEF NewInv, HandsOnce, HandsStay, WordsGrow, InHand, InHandAfter
<1>3. ASSUME HandsStay, SendsKept, ClaimsStay
      PROVE  BlanksAreNew'
  <2>1. ASSUME NEW q \in Procs, pc'[q] \in {"apply", "sending"}, HoldsClaim(q)', NEW i \in Idx, NEW r \in Runs,
               myLedger'[q][i].st = "none", r < myRun'[q], InHandAfter(r, i)
        PROVE  <<r, i>> \in told' \/ \E t \in stale' : r < t
    <3>1. /\ pc[q] \in {"apply", "sending"} /\ HoldsClaim(q) /\ myRun'[q] = myRun[q]
          /\ myLedger[q][i].st = "none" /\ InHand(r, i)
      BY <1>3, <2>1 DEF SendsKept, ClaimsStay, HandsStay
    <3> QED BY <1>1, <2>1, <3>1 DEF NewInv, BlanksAreNew, Passed, WordsGrow
  <2> QED BY <2>1 DEF BlanksAreNew, InHand, InHandAfter, Passed
<1>4. ASSUME NEW p \in Procs, ClaimApprovedActions(p)
      PROVE  NewInv'
  <2>1. HandsStay
    BY <1>4 DEF ClaimApprovedActions, ActionTypeOK, HandsStay, InHand, InHandAfter, providerVars
  <2> QED BY <1>2, <1>4, <2>1, ClaimedNew DEF NewInv
<1>5. ASSUME NEW p \in Procs, Authorise(p), HoldsClaim(p)
      PROVE  NewInv'
  BY <1>1, <1>5, AuthorisedNew
<1> QED BY <1>2, <1>3, <1>4, <1>5, StepHands, StepClaims DEF NewInv

-----------------------------------------------------------------------------
\* Whatever dies, is stopped, retried or swept, a write that landed is on the
\* record: the ledger names it, the output carries it, or the manager denied
\* it, but for a run claimed on a stale read (carryLandedWrites, setFailed,
\* interruptedApplyLedger, retryFailed).
THEOREM NothingLost == Spec => []NothingForgotten
<1>1. TypeInv /\ MemoryInv => NothingForgotten
  BY DEF TypeInv, TypeOK, RecordTypeOK, MemoryInv, Remembered, InHand, Passed, NothingForgotten, UnknownStatuses
<1> QED
  BY TypeInit, TypeStep, DecidedInit, DecidedStep, ClaimInit, ClaimStep, OnceInit, OnceStep, TrueInit, TrueStep,
     FormInit, FormStep, ClosedInit, ClosedStep, OldInit, OldStep, UnsentInit, UnsentStep, HandInit, HandStep,
     MemoryInit, MemoryStep, <1>1, PTL DEF Spec

\* A write lands a second time only where the manager answered that the first
\* did not land, or a run between was claimed on a stale read (landedWritesOf,
\* reuseLandedWrites, claimApprovedActions).
THEOREM LandsOnce == Spec => []LandedOnce
<1>1. TypeInv /\ NewInv => LandedOnce
  BY DEF TypeInv, TypeOK, RecordTypeOK, NewInv, HandsOnce, InHand, LandedOnce
<1> QED
  BY TypeInit, TypeStep, DecidedInit, DecidedStep, ClaimInit, ClaimStep, OnceInit, OnceStep, TrueInit, TrueStep,
     FormInit, FormStep, ClosedInit, ClosedStep, OldInit, OldStep, UnsentInit, UnsentStep, HandInit, HandStep,
     MemoryInit, MemoryStep, NewInit, NewStep, <1>1, PTL DEF Spec

-----------------------------------------------------------------------------
(***************************************************************************)
(* WorkRun implements WriteOnce: the initial states map to the initial     *)
(* state of the promise, and each step to a step of the promise or to a    *)
(* stutter.  The steps that matter are few: the gate and the manager let   *)
(* keys through, a send uses one up, the manager denies, and a run may be  *)
(* claimed on a stale read.                                                *)
(***************************************************************************)

\* Nothing is let through for a run that was not claimed.
ClearedPast == \A k \in cleared : k[1] <= runs

promiseVars == <<tried, landed, cleared, told, stale>>

LEMMA ClearedPastInit == Init => ClearedPast
BY DEF Init, ClearedPast

LEMMA ExecutionPromise ==
  ASSUME SharedTypeOK, ActionTypeOK, ActsForARun, ClaimInv, NEW p \in Procs, Execution(p)
  PROVE  \/ UNCHANGED promiseVars
         \/ ClaimExecution(p)
         \/ /\ UNCHANGED <<tried, landed, told, stale, runs>>
            /\ \E r \in Runs, S \in SUBSET Idx : r <= runs /\ cleared' = cleared \cup ({r} \X S)
<1>1. CASE SetActionsPending(p)
  <2>1. UNCHANGED <<tried, landed, told, stale, runs>> /\ run \in Runs /\ run <= runs
    <3>1. pc[p] = "authoring" /\ run = myRun[p] /\ UNCHANGED <<tried, landed, told, stale, runs>>
      BY <1>1 DEF SetActionsPending, BeforeGate, providerVars
    <3>2. run # 0 /\ run \in 0..MaxRuns
      BY <3>1 DEF ActsForARun, SharedTypeOK, ItemTypeOK
    <3> QED BY <3>1, <3>2 DEF SharedTypeOK, ItemTypeOK, ClaimInv, LastRun
  <2>2. PICK v \in [Idx -> {"auto", "held", "refused"}] : Gated(v)
    BY <1>1 DEF SetActionsPending
  <2>3. cleared' = cleared \/ cleared' = cleared \cup ({run} \X WithVerdict(v, "auto"))
    BY <2>2 DEF Gated
  <2>4. WithVerdict(v, "auto") \in SUBSET Idx
    BY DEF WithVerdict
  <2> QED BY <2>1, <2>3, <2>4 DEF promiseVars
<1>2. CASE ~SetActionsPending(p)
  BY <1>2 DEF Execution, ReadItem, ClaimExecution, ClaimExecutionRefused, ResumeExecution, ExecutionFails,
              MovedOn, providerVars, wordVars, promiseVars
<1> QED BY <1>1, <1>2

LEMMA ApplyPromise ==
  ASSUME NEW p \in Procs, Apply(p), ~Send(p)
  PROVE  UNCHANGED promiseVars
<1>1. CASE Recover(p)
  BY <1>1 DEF Recover, RecoveryKeeps, providerVars, wordVars, promiseVars
<1>2. CASE ~Recover(p)
  BY <1>2 DEF Apply, ClaimApprovedActions, RefuseRow, Authorise, RecordApplyOutcome, RecordUnsentAfterStop,
              ApplyThrows, FinishFailed, SetAwaitingApproval, SetCompleted, StopOnQuestion, providerVars,
              wordVars, promiseVars
<1> QED BY <1>1, <1>2

LEMMA ItemPromise ==
  ASSUME SharedTypeOK, ClaimInv, Scheduler \/ Manager
  PROVE  \/ UNCHANGED promiseVars
         \/ /\ UNCHANGED <<tried, landed, told, stale, runs>>
            /\ \E r \in Runs, S \in SUBSET Idx : r <= runs /\ cleared' = cleared \cup ({r} \X S)
         \/ /\ UNCHANGED <<tried, landed, cleared, stale>>
            /\ told \subseteq told'
<1>1. ASSUME NEW r \in Runs, NEW S \in SUBSET Idx, ApproveActions(r, S)
      PROVE  UNCHANGED <<tried, landed, told, stale, runs>> /\ r <= runs /\ cleared' = cleared \cup ({r} \X S)
  BY <1>1 DEF ApproveActions, providerVars, ClaimInv, ClaimIsOfRun, LastRun
<1>2. CASE ReconcileFailed
  BY <1>2 DEF ReconcileFailed, providerVars
<1>3. CASE Scheduler \/ (\E r \in Runs : RejectActions(r)) \/ StopRun \/ RetryFailed \/ PlanAgain \/ SetPaused
  BY <1>3 DEF Scheduler, ClaimRefused, ParkOnConnection, FireSwitch, RecoveryKeeps, ResumeHeldApplies,
              SweepStalled, RejectActions, StopRun, RetryFailed, PlanAgain, SetPaused, providerVars, wordVars,
              promiseVars
<1> QED BY <1>1, <1>2, <1>3 DEF Manager

LEMMA ClearedPastStep == TypeInv /\ ClaimInv /\ ClearedPast /\ [Next]_vars => ClearedPast'
<1> SUFFICES ASSUME SharedTypeOK, ActionTypeOK, ActsForARun, ClaimInv, ClearedPast, [Next]_vars
             PROVE  ClearedPast'
  BY DEF TypeInv, TypeOK, SharedTypeOK
<1>1. runs \in Nat /\ runs' \in Nat /\ runs' >= runs
  <2>1. runs \in Nat
    BY DEF SharedTypeOK, ItemTypeOK
  <2>2. runs' = runs \/ runs' = runs + 1
    <3>1. ASSUME NEW p \in Procs, Execution(p) \/ Apply(p) \/ Crash(p)
          PROVE  runs' = runs \/ runs' = runs + 1
      BY <3>1 DEF Execution, ReadItem, ClaimExecution, ClaimExecutionRefused, SetActionsPending,
                  ResumeExecution, ExecutionFails, MovedOn, Apply, ClaimApprovedActions, RefuseRow, Authorise,
                  Send, RecordApplyOutcome, RecordUnsentAfterStop, ApplyThrows, Recover, RecoveryKeeps,
                  FinishFailed, SetAwaitingApproval, SetCompleted, StopOnQuestion, Crash
    <3>2. CASE Scheduler \/ Manager
      BY <3>2 DEF Scheduler, Manager, ClaimRefused, ParkOnConnection, FireSwitch, RecoveryKeeps,
                  ResumeHeldApplies, SweepStalled, ApproveActions, RejectActions, StopRun, ReconcileFailed,
                  RetryFailed, PlanAgain, SetPaused
    <3> QED BY <3>1, <3>2 DEF Next, vars
  <2> QED BY <2>1, <2>2
<1>2. ASSUME UNCHANGED cleared
      PROVE  ClearedPast'
  <2>1. \A k \in cleared : k[1] \in Nat
    BY DEF SharedTypeOK, RecordTypeOK
  <2> QED BY <1>1, <1>2, <2>1 DEF ClearedPast
<1>3. ASSUME UNCHANGED runs, NEW r \in Runs, NEW S \in SUBSET Idx, r <= runs,
             cleared' = cleared \cup ({r} \X S)
      PROVE  ClearedPast'
  BY <1>3 DEF ClearedPast
<1>4. ASSUME NEW p \in Procs, Execution(p)
      PROVE  ClearedPast'
  BY <1>2, <1>3, <1>4, ExecutionPromise DEF ClaimExecution, promiseVars
<1>5. ASSUME NEW p \in Procs, Apply(p)
      PROVE  ClearedPast'
  BY <1>2, <1>5, ApplyPromise DEF Send, wordVars, promiseVars
<1>6. ASSUME NEW p \in Procs, Crash(p)
      PROVE  ClearedPast'
  BY <1>2, <1>6 DEF Crash, wordVars
<1>7. CASE Scheduler \/ Manager
  BY <1>2, <1>3, <1>7, ItemPromise DEF promiseVars
<1>8. CASE UNCHANGED vars
  BY <1>2, <1>8 DEF vars, wordVars
<1> QED BY <1>4, <1>5, <1>6, <1>7, <1>8 DEF Next

-----------------------------------------------------------------------------
(* What each of those steps is to the promise. *)

Promised == [Promise!Next]_<<Fate, told, stale>>

LEMMA Unmoved ==
  ASSUME UNCHANGED promiseVars
  PROVE  Promised
BY DEF promiseVars, Promised, Fate, FateOf

LEMMA Clears ==
  ASSUME OnlyDecidedSent, TrueInv, UNCHANGED <<tried, landed, told, stale>>,
         NEW r \in Runs, NEW S \in SUBSET Idx, cleared' = cleared \cup ({r} \X S)
  PROVE  Promised
<1>1. Fate' = [k \in Keys |-> IF k \in {r} \X S /\ Fate[k] = "undecided" THEN "cleared" ELSE Fate[k]]
  BY DEF Fate, FateOf
<1> QED BY <1>1 DEF Promised, Promise!Next, Promise!Clear, Promise!Keys

LEMMA Denies ==
  ASSUME RecordTypeOK', UNCHANGED <<tried, landed, cleared, stale>>, told \subseteq told'
  PROVE  Promised
<1>1. UNCHANGED Fate
  BY DEF Fate, FateOf
<1> QED BY <1>1 DEF Promised, Promise!Next, Promise!Deny, Promise!Keys, RecordTypeOK

LEMMA Blinds ==
  ASSUME SharedTypeOK, OnlyDecidedSent, TrueInv, ClearedPast, NEW p \in Procs, ClaimExecution(p)
  PROVE  Promised
<1>1. /\ UNCHANGED <<tried, landed, cleared, told>> /\ runs + 1 \in Runs
      /\ stale' = stale \/ stale' = stale \cup {runs + 1}
  BY DEF ClaimExecution, providerVars, SharedTypeOK, ItemTypeOK
<1>2. UNCHANGED Fate
  BY <1>1 DEF Fate, FateOf
<1>3. \A i \in Idx : Fate[<<runs + 1, i>>] = "undecided"
  <2>1. \A i \in Idx : <<runs + 1, i>> \notin cleared
    BY DEF ClearedPast, SharedTypeOK, ItemTypeOK
  <2>2. \A i \in Idx : <<runs + 1, i>> \notin tried /\ runs + 1 \notin landed[i]
    BY <2>1 DEF OnlyDecidedSent, TrueInv, LandedWasTried
  <2> QED BY <1>1, <2>1, <2>2 DEF Fate, FateOf
<1> QED BY <1>1, <1>2, <1>3 DEF Promised, Promise!Next, Promise!StartBlind

LEMMA Sends ==
  ASSUME SharedTypeOK, ActionTypeOK, ActsForARun, DecidedInv, OnceInv, TrueInv, LandedOnce', NEW p \in Procs,
         Send(p), KeySentOnce
  PROVE  Promised
<1>0. myRun[p] \in Runs /\ myRow[p] \in Idx
  BY ReportersRun DEF Send, ActsForARun, Reporting
<1> PICK k \in Keys : k = <<myRun[p], myRow[p]>>
  BY <1>0
<1>1. /\ pc[p] = "sending" /\ k[1] = myRun[p] /\ k[2] = myRow[p] /\ tried' = tried \cup {k}
      /\ UNCHANGED <<cleared, told, stale>>
  BY DEF Send, wordVars
<1>2. PICK taken \in BOOLEAN : landed' = IF taken THEN [landed EXCEPT ![k[2]] = @ \cup {k[1]}] ELSE landed
  BY <1>1 DEF Send
<1>3. Fate[k] = "cleared" /\ k \in Keys /\ k[1] \notin landed[k[2]]
  <2>1. k \in cleared
    BY <1>1 DEF DecidedInv, BlankIsCleared, SendsBlank
  <2>2. k \notin tried
    BY <1>1 DEF KeySentOnce
  <2>3. k[1] \notin landed[k[2]]
    BY <1>1, <2>2 DEF TrueInv, LandedWasTried
  <2> QED BY <1>1, <2>1, <2>2, <2>3 DEF Fate, FateOf
<1>4. \E end \in {"sent", "landed"} : Fate' = [Fate EXCEPT ![k] = end]
  <2>1. ASSUME NEW j \in Keys, j # k
        PROVE  FateOf(j)' = FateOf(j)
    <3>1. (j \in tried' <=> j \in tried) /\ UNCHANGED cleared
      BY <1>1, <2>1
    <3>2. j[1] \in landed'[j[2]] <=> j[1] \in landed[j[2]]
      BY <1>1, <1>2, <2>1 DEF SharedTypeOK, RecordTypeOK
    <3> QED BY <3>1, <3>2 DEF FateOf
  <2>2. FateOf(k)' \in {"sent", "landed"}
    BY <1>1 DEF FateOf
  <2>3. Fate' = [Fate EXCEPT ![k] = FateOf(k)']
    BY <2>1 DEF Fate
  <2> QED BY <2>2, <2>3
<1>5. Promise!LandsOnce(Fate')
  BY <1>1 DEF Promise!LandsOnce, LandedOnce, Fate, FateOf
<1> QED BY <1>1, <1>3, <1>4, <1>5 DEF Promised, Promise!Next, Promise!Send, Promise!Keys

LEMMA StepPromised ==
  TypeInv /\ TypeInv' /\ DecidedInv /\ ClaimInv /\ OnceInv /\ TrueInv /\ ClearedPast /\ KeySentOnce
    /\ LandedOnce' /\ [Next]_vars => Promised
<1> SUFFICES ASSUME SharedTypeOK, ActionTypeOK, ActsForARun, RecordTypeOK', DecidedInv, ClaimInv, OnceInv,
                    TrueInv, ClearedPast, KeySentOnce, LandedOnce', [Next]_vars
             PROVE  Promised
  BY DEF TypeInv, TypeOK, SharedTypeOK
<1>1. OnlyDecidedSent
  BY DEF DecidedInv
<1>2. ASSUME NEW p \in Procs, Execution(p)
      PROVE  Promised
  BY <1>1, <1>2, ExecutionPromise, Unmoved, Clears, Blinds
<1>3. ASSUME NEW p \in Procs, Apply(p)
      PROVE  Promised
  BY <1>3, ApplyPromise, Unmoved, Sends
<1>4. ASSUME NEW p \in Procs, Crash(p)
      PROVE  Promised
  BY <1>4, Unmoved DEF Crash, promiseVars, providerVars, wordVars
<1>5. CASE Scheduler \/ Manager
  BY <1>1, <1>5, ItemPromise, Unmoved, Clears, Denies
<1>6. CASE UNCHANGED vars
  BY <1>6, Unmoved DEF vars, promiseVars, providerVars, wordVars
<1> QED BY <1>2, <1>3, <1>4, <1>5, <1>6 DEF Next

LEMMA InitPromised == Init => Promise!Init
BY DEF Init, Promise!Init, Promise!Keys, Fate, FateOf

\* The item, its runs, its manager and the sweeps keep the promise of
\* WriteOnce: a write goes out under a key somebody let through, each key goes
\* out once, and a place of the plan lands again only after a denial, or a run
\* started without the last word (applySurfaceActions, claimApprovedActions,
\* approveActions, reconcileFailed, landedWritesOf).
THEOREM ImplementsWriteOnce == Spec => KeepsWriteOnce
<1>1. Spec => []TypeInv
  BY TypeInit, TypeStep, PTL DEF Spec
<1>2. Spec => [](DecidedInv /\ ClaimInv /\ OnceInv /\ TrueInv /\ ClearedPast)
  BY TypeInit, TypeStep, DecidedInit, DecidedStep, ClaimInit, ClaimStep, OnceInit, OnceStep, TrueInit, TrueStep,
     ClearedPastInit, ClearedPastStep, PTL DEF Spec
<1>3. Spec => [][Next]_vars
  BY PTL DEF Spec
<1>4. Spec => [][Promise!Next]_<<Fate, told, stale>>
  BY <1>1, <1>2, <1>3, SentOnce, LandsOnce, StepPromised, PTL DEF Promised
<1>5. Spec => Promise!Init
  BY InitPromised DEF Spec
<1> QED BY <1>4, <1>5, PTL DEF KeepsWriteOnce, Promise!Spec

=============================================================================

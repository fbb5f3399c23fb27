---------------------------- MODULE ClosingPhase ----------------------------
(***************************************************************************)
(* The runs of one item whose skill needs a dependent phase: the first     *)
(* phase's rows are applied, their ledger is kept, and one author turn     *)
(* writes the closing set from it (convex/work.ts prepareDependentPhase,   *)
(* claimDependentAuthoring, recoverDependentAuthoring; workActions.ts      *)
(* authorDependentActions and finishRun).  A run that ends on the way is   *)
(* retried from what it kept, at its closing phase where it can be         *)
(* (src/work/closing-resume.ts), and what it landed is carried             *)
(* (landed-writes.ts).                                                     *)
(*                                                                         *)
(* The rows told apart are messages, each to a place of its own and always *)
(* in the same words.  An apply, which WorkRun takes apart, is one step    *)
(* whose outcomes are known.  Surfaces stay connected; no retry directs a  *)
(* change; no closing set takes a read before its first comment, which a   *)
(* retry could take for a first phase.                                     *)
(***************************************************************************)
EXTENDS Integers

CONSTANTS Messages, \* what the item's runs may say
          Authors,  \* the authoring actions that may be under way
          MaxRuns   \* bound: runs of the item

ASSUME RunsAssumption == MaxRuns \in Nat \ {0}

VARIABLES
  \* the item's row
  stage,    \* state
  runNow,   \* executionRunId, 0 for none
  output,   \* output, by what its readers tell apart
  turn,     \* applyAttemptId while the closing set is authored: which turn of the run, 0 for none
  gate,     \* pendingRunId and approvedIndexes: rows to apply, rows that wait on the manager
  \* the scheduler
  authoringJobs, \* runs whose authoring waits to start
  switches, \* the armed dead-man's switches, each of one turn of one run
  \* the actions
  preparing, \* the run's executor has not handed anything over yet
  author,   \* the turn each authoring action holds
  \* the provider
  sent,     \* how often each message was put there
  \* bounds, and what the properties read
  runs,     \* runs claimed so far
  forgotten \* carried messages of closing sets that were rejected or stopped

closingVars == <<stage, runNow, output, turn, gate, authoringJobs, switches, preparing, author,
                 sent, runs, forgotten>>

\* An output: the shape it is in ("first", one phase; "authoring", a ledger
\* awaiting its closing set; "dependent", a closing set with the phase before
\* it as its initial; "flat", both phases in one); the landed rows carried in
\* it and in its initial; the rows its ledger landed in the phase before
\* (before) and of its newest set (now, of rows).
NewOutput ==
  [shape |-> "first", carried |-> {}, initial |-> {}, before |-> {}, rows |-> {}, now |-> {},
   closes |-> FALSE,    \* needsDependentPhase
   whole |-> FALSE,     \* every row up to prerequisiteCount landed
   all |-> FALSE,       \* every row of the phases before landed
   failed |-> FALSE,    \* initialFailure
   resumed |-> FALSE,   \* resumedClosing
   round |-> FALSE]     \* closingRound
NoGate == [at |-> "none", due |-> {}, asked |-> {}]
NoTurn == [run |-> 0, turn |-> 0]

ClosingTypeOK ==
  /\ stage \in {"plan-approved", "executing", "actions-pending", "failed", "completed"}
  /\ runNow \in 0..MaxRuns /\ runs \in 0..MaxRuns /\ turn \in 0..2 /\ preparing \in BOOLEAN
  /\ output.shape \in {"first", "authoring", "dependent", "flat"}
  /\ output.carried \cup output.initial \cup output.before \cup output.rows \subseteq Messages
  /\ output.now \subseteq output.rows /\ forgotten \subseteq Messages
  /\ gate \in [at : {"none", "auto", "manager", "approved"},
               due : SUBSET Messages, asked : SUBSET Messages]
  /\ authoringJobs \subseteq 1..MaxRuns /\ switches \subseteq (1..MaxRuns) \X {1, 2}
  /\ author \in [Authors -> [run : 0..MaxRuns, turn : 0..2]]
  /\ sent \in [Messages -> Nat]

\* The plan is approved; no run began.
ClosingInit ==
  /\ stage = "plan-approved" /\ runNow = 0 /\ output = NewOutput /\ turn = 0 /\ gate = NoGate
  /\ authoringJobs = {} /\ switches = {} /\ preparing = FALSE
  /\ author = [a \in Authors |-> NoTurn]
  /\ sent = [m \in Messages |-> 0] /\ runs = 0 /\ forgotten = {}

-----------------------------------------------------------------------------
(***************************************************************************)
(* What an output's readers make of it.                                    *)
(***************************************************************************)

\* landedWritesOf: what the row carries at its top, and what its ledger landed.
\* Mutant: only the ledger counts, and what earlier runs landed is dropped.
LandedHere(o) == o.before \cup o.now
LandedWritesOf(o) == o.carried \cup o.before \cup o.now

\* reusedRows: what an apply finds already sent, carried in the output or, for
\* a closing set, in its initial, and landed by the phases before.
ReusedRows(o) == o.carried \cup o.initial \cup o.before

\* closingResume and gateRefusalResume.  A closing set that is not flattened
\* never resumes; the plan's reading steps may or may not have been satisfied.
MustResume(o) == o.shape = "authoring" /\ o.all
MayResume(o) ==
  \/ MustResume(o)
  \/ o.shape = "flat" /\ o.whole /\ ~(o.all /\ o.rows \subseteq o.now)

ClosingResume(o) ==
  [NewOutput EXCEPT !.shape = "authoring", !.carried = o.carried, !.before = o.before \cup o.now,
                    !.whole = TRUE, !.all = TRUE, !.closes = TRUE, !.resumed = TRUE]

\* flattenedDependentOutput.
Flattened(o) == [o EXCEPT !.shape = "flat", !.carried = o.initial, !.initial = {}]

\* The closing set an author hands over, with the phase it read as its initial.
DependentOutput(o, S) ==
  [o EXCEPT !.shape = "dependent", !.initial = o.carried, !.carried = {}, !.rows = S, !.now = {}]

\* closingRoundPrerequisites: the applied set joins the phase before it.
RoundPrerequisites(o) ==
  [o EXCEPT !.shape = "authoring", !.carried = o.initial, !.initial = {},
            !.before = @ \cup o.now, !.all = @ /\ o.rows \subseteq o.now,
            !.rows = {}, !.now = {}, !.round = TRUE]

-----------------------------------------------------------------------------
(***************************************************************************)
(* Ends.                                                                   *)
(***************************************************************************)

RunEndsIn(end, o) ==
  /\ stage' = end /\ output' = o /\ runNow' = 0 /\ turn' = 0 /\ gate' = NoGate
  /\ preparing' = FALSE

\* failInTransaction.
Fail(o) == RunEndsIn("failed", o)

\* An author's set goes by itself, or waits on the manager; the rest of a set
\* some of which goes by itself waits after it (setActionsPending).
SetActionsPending(o, S) ==
  /\ output' = o /\ turn' = 0 /\ preparing' = FALSE /\ UNCHANGED runNow
  /\ \/ stage' = "actions-pending" /\ gate' = [at |-> "manager", due |-> {}, asked |-> S]
     \/ \E due \in SUBSET S :
          UNCHANGED stage /\ gate' = [at |-> "auto", due |-> due, asked |-> S \ due]

\* prepareDependentPhase.
PrepareDependentPhase(o) ==
  /\ output' = o /\ turn' = 0 /\ gate' = NoGate /\ preparing' = FALSE
  /\ stage' = "executing" /\ authoringJobs' = authoringJobs \cup {runNow}
  /\ UNCHANGED runNow

-----------------------------------------------------------------------------
(***************************************************************************)
(* The executor (executeApprovedPlanHandler).                              *)
(***************************************************************************)

ResumesClosing(o) == o.resumed /\ o.shape = "authoring"

\* claimForExecution.
ClaimForExecution ==
  /\ stage = "plan-approved" /\ runs < MaxRuns
  /\ runs' = runs + 1 /\ runNow' = runs + 1 /\ stage' = "executing" /\ preparing' = TRUE
  /\ UNCHANGED <<output, turn, gate, authoringJobs, switches, author, sent, forgotten>>

\* holdDay0Actions: a first phase authored anew.  One that closes later may
\* hold reads alone, or nothing, which leaves the closing set to say it all.
HoldDay0Actions ==
  /\ preparing /\ ~ResumesClosing(output)
  /\ LET fresh == [NewOutput EXCEPT !.carried = LandedWritesOf(output)]
     IN \/ \E S \in SUBSET Messages, closes \in BOOLEAN :
             /\ closes \/ S # {}
             /\ SetActionsPending([fresh EXCEPT !.rows = S, !.closes = closes], S)
             /\ UNCHANGED authoringJobs
        \/ PrepareDependentPhase([fresh EXCEPT !.shape = "authoring", !.closes = TRUE])
  /\ UNCHANGED <<switches, author, sent, runs, forgotten>>

\* The closing phase of an earlier run, its reads taken again or refused.
ResumeClosing ==
  /\ preparing /\ ResumesClosing(output)
  /\ \/ PrepareDependentPhase([output EXCEPT !.carried = LandedWritesOf(output)])
     \/ Fail(output) /\ UNCHANGED authoringJobs
  /\ UNCHANGED <<switches, author, sent, runs, forgotten>>

-----------------------------------------------------------------------------
(***************************************************************************)
(* The apply and the end of its run (finishRun).                           *)
(***************************************************************************)

ParkForManager(o) ==
  /\ stage' = "actions-pending" /\ output' = o
  /\ gate' = [at |-> "manager", due |-> {}, asked |-> gate.asked]
  /\ UNCHANGED <<runNow, turn, preparing, authoringJobs>>

\* A single phase, or a first one.
FinishFirst(o, clean) ==
  IF clean /\ gate.asked # {} THEN ParkForManager(o)
  ELSE IF o.closes /\ (clean \/ o.now # {})
  THEN PrepareDependentPhase([o EXCEPT !.shape = "authoring", !.before = o.now, !.rows = {},
                                       !.now = {}, !.whole = clean /\ o.rows \subseteq o.now,
                                       !.all = clean /\ o.rows \subseteq o.now,
                                       !.failed = ~clean])
  ELSE /\ UNCHANGED authoringJobs
       /\ IF clean THEN RunEndsIn("completed", o) ELSE Fail(o)

\* A closing set: one more round at most, and none over a failure.
FinishClosing(o, clean) ==
  LET stopped == ~clean \/ (o.failed /\ ~o.resumed)
  IN IF clean /\ gate.asked # {} THEN ParkForManager(o)
     ELSE \/ /\ ~stopped /\ ~o.round
             /\ PrepareDependentPhase(RoundPrerequisites(o))
          \/ /\ ~stopped /\ RunEndsIn("completed", Flattened(o)) /\ UNCHANGED authoringJobs
          \/ Fail(Flattened(o)) /\ UNCHANGED authoringJobs

\* The rows already sent are reused; of the others some are sent, and the rest
\* fail, or are withheld for another's claim.
ApplyHeld ==
  /\ gate.at \in {"auto", "approved"}
  /\ \E went \in SUBSET (gate.due \ ReusedRows(output)), clean \in BOOLEAN :
       LET o == [output EXCEPT !.now = @ \cup went \cup (gate.due \cap ReusedRows(output))]
       IN /\ sent' = [m \in Messages |-> IF m \in went THEN sent[m] + 1 ELSE sent[m]]
          /\ IF output.shape = "dependent" THEN FinishClosing(o, clean) ELSE FinishFirst(o, clean)
  /\ UNCHANGED <<switches, author, runs, forgotten>>

-----------------------------------------------------------------------------
(***************************************************************************)
(* The authoring turn (authorDependentActions).                            *)
(***************************************************************************)

Awaiting(r) == stage = "executing" /\ runNow = r /\ output.shape = "authoring"
TurnOf(o) == IF o.round THEN 2 ELSE 1

\* claimDependentAuthoring, which arms the switch in the same transaction.
\* Mutant: the claim is taken, and nothing is armed.
ClaimUnarmed(a, r) ==
  /\ r \in authoringJobs /\ authoringJobs' = authoringJobs \ {r}
  /\ Awaiting(r) /\ turn = 0 /\ author[a] = NoTurn
  /\ turn' = TurnOf(output)
  /\ author' = [author EXCEPT ![a] = [run |-> r, turn |-> TurnOf(output)]]
  /\ UNCHANGED <<stage, runNow, output, gate, switches, preparing, sent, runs, forgotten>>
ClaimDependentAuthoring(a, r) ==
  /\ r \in authoringJobs /\ authoringJobs' = authoringJobs \ {r}
  /\ Awaiting(r) /\ turn = 0 /\ author[a] = NoTurn
  /\ turn' = TurnOf(output) /\ switches' = switches \cup {<<r, TurnOf(output)>>}
  /\ author' = [author EXCEPT ![a] = [run |-> r, turn |-> TurnOf(output)]]
  /\ UNCHANGED <<stage, runNow, output, gate, preparing, sent, runs, forgotten>>

\* The job dies before its claim, or is refused it: the run moved on.
AuthoringLost(r) ==
  /\ r \in authoringJobs /\ authoringJobs' = authoringJobs \ {r}
  /\ UNCHANGED <<stage, runNow, output, turn, gate, switches, preparing, author, sent, runs,
                 forgotten>>

\* The author hands its set to the gate, ends the run with none, stops it on
\* what the plan left open, or fails it with the phase before kept.  What it
\* asks of a run that moved on is refused.
Mine(a) == author[a].run = runNow
HandOver(a) ==
  /\ Mine(a) /\ stage = "executing" /\ turn = author[a].turn
  /\ \E S \in SUBSET Messages : S # {} /\ SetActionsPending(DependentOutput(output, S), S)
  /\ UNCHANGED authoringJobs
EndWithNone(a) ==
  /\ Mine(a)
  /\ \E S \in SUBSET Messages :
       \/ Fail(Flattened(DependentOutput(output, S)))
       \/ S = {} /\ ~output.failed /\ RunEndsIn("completed", Flattened(DependentOutput(output, {})))
  /\ UNCHANGED authoringJobs
AuthorEnds(a) ==
  /\ author[a] # NoTurn
  /\ author' = [author EXCEPT ![a] = NoTurn]
  /\ \/ HandOver(a) \/ EndWithNone(a)
     \/ Mine(a) /\ Fail(output) /\ UNCHANGED authoringJobs
     \* It dies, or everything it asks is refused.
     \/ UNCHANGED <<stage, runNow, output, turn, gate, authoringJobs, preparing>>
  /\ UNCHANGED <<switches, sent, runs, forgotten>>

\* recoverDependentAuthoring, as the switch of one turn.
RecoverFires(s) ==
  /\ s \in switches /\ switches' = switches \ {s}
  /\ IF Awaiting(s[1]) /\ turn = s[2] THEN Fail(output)
     ELSE UNCHANGED <<stage, runNow, output, turn, gate, preparing>>
  /\ UNCHANGED <<authoringJobs, author, sent, runs, forgotten>>

\* The sweep, of a run older than a step may take: one whose executor died, and
\* one whose authoring never claimed it, which may only be about to.
SweepStalled ==
  /\ stage = "executing" /\ gate.at = "none" /\ turn = 0
  /\ Fail(output)
  /\ UNCHANGED <<authoringJobs, switches, author, sent, runs, forgotten>>

-----------------------------------------------------------------------------
(***************************************************************************)
(* The manager.                                                            *)
(***************************************************************************)

\* approveActions, of any of the rows that wait.
ApproveActions ==
  /\ gate.at = "manager"
  /\ \E due \in SUBSET gate.asked : gate' = [at |-> "approved", due |-> due, asked |-> {}]
  /\ UNCHANGED <<stage, runNow, output, turn, authoringJobs, switches, preparing, author, sent,
                 runs, forgotten>>

\* rejectActions, and stopRun with no apply claimed: the output stays as it
\* is, a closing set in the shape it was held in.
StopAsItIs ==
  /\ Fail(output)
  /\ forgotten' = IF output.shape = "dependent" THEN forgotten \cup output.initial ELSE forgotten
  /\ UNCHANGED <<authoringJobs, switches, author, sent, runs>>
RejectHeld == gate.at = "manager" /\ StopAsItIs
StopRun == stage \in {"executing", "actions-pending"} /\ StopAsItIs

\* retryFailed, after the manager's check of what landed, which the row carries.
RetryItem ==
  /\ stage = "failed" /\ runs < MaxRuns
  /\ \E o \in {output, ClosingResume(output)} :
       /\ o = output => ~MustResume(output)
       /\ o # output => MayResume(output)
       /\ output' = [o EXCEPT !.carried = LandedWritesOf(output)]
  /\ stage' = "plan-approved"
  /\ UNCHANGED <<runNow, turn, gate, authoringJobs, switches, preparing, author, sent, runs,
                 forgotten>>

-----------------------------------------------------------------------------
Authoring ==
  \/ \E r \in authoringJobs :
       AuthoringLost(r) \/ \E a \in Authors : ClaimDependentAuthoring(a, r)
  \/ \E a \in Authors : AuthorEnds(a)
  \/ \E s \in switches : RecoverFires(s)

ClosingNext ==
  \/ ClaimForExecution \/ HoldDay0Actions \/ ResumeClosing \/ ApplyHeld
  \/ Authoring \/ SweepStalled
  \/ ApproveActions \/ RejectHeld \/ StopRun \/ RetryItem

ClosingSpec == ClosingInit /\ [][ClosingNext]_closingVars

-----------------------------------------------------------------------------
(***************************************************************************)
(* Properties.                                                             *)
(***************************************************************************)

\* No message is put on the provider twice, across the first phase, the closing
\* set, its round and every retry, whichever phase each began at (reusedRows,
\* closingResume, landedWritesOf).  The exception is what a closing set carried
\* when it was rejected or stopped.
SaidOnce == \A m \in Messages \ forgotten : sent[m] <= 1

\* landedWritesOf, of what the row carries "in either of its shapes", and the
\* comment at its reader: a message a run carries "is reused, never sent
\* again" (executeApprovedPlanHandler).
CarriedNeverResent == \A m \in Messages : sent[m] <= 1

\* A run that executes, or whose rows were approved, ends or comes to wait on
\* the manager, though its executor or its author dies at any point.
ClosingUnderWay == stage = "executing" \/ gate.at = "approved"
ClosingEnds == ClosingUnderWay ~> ~ClosingUnderWay
=============================================================================

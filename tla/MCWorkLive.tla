----------------------------- MODULE MCWorkLive -----------------------------
(***************************************************************************)
(* The instance that checks what must eventually happen to a work item: a  *)
(* behaviour is one of WorkRun, an item that is executed, or one of        *)
(* WorkQueue, the items that wait to be judged, and the other module's     *)
(* variables stay in its initial state.                                    *)
(***************************************************************************)
EXTENDS WorkRun

CONSTANTS Items, CapLow, CapHigh, MaxAttempts, MaxCharter, MaxProbes, MaxCopies,
          Events, ScopeAnswers, NoItem  \* WorkQueue's; Procs are the processes of both

VARIABLES part, row, queued, cap, charter, drafting, requeues, stored, fresh, probed,
          item, readCharter, decision, since, under, agedOut, resent, queuePaused, evalPc

Q == INSTANCE WorkQueue WITH paused <- queuePaused, pc <- evalPc

queueVars == <<row, queued, cap, charter, drafting, requeues, stored, fresh, probed, item,
               readCharter, decision, since, under, agedOut, resent, queuePaused, evalPc>>
work == <<part, vars, queueVars>>

WorkInit == part \in {"run", "queue"} /\ Init /\ Q!Init

WorkNext ==
  \/ part = "run" /\ Next /\ UNCHANGED <<part, queueVars>>
  \/ part = "queue" /\ Q!Next /\ UNCHANGED <<part, vars>>

\* Fairness of WorkRun and of WorkQueue, each of its own part.
Executes(A) == part = "run" /\ A
Queues(A) == part = "queue" /\ A
WorkFairness ==
  /\ \A p \in Procs : WF_vars(Executes(UnderWay(p)))
  /\ WF_vars(Executes(\E p \in Procs : ClaimApprovedActions(p)))
  /\ WF_vars(Executes(FireSwitch)) /\ WF_vars(Executes(ResumeHeldApplies))
  /\ WF_vars(Executes(SweepStalled))
  /\ \A p \in Procs : WF_queueVars(Queues(Q!UnderWay(p)))
  /\ \A i \in Items : WF_queueVars(Queues(Q!RunJob(i))) /\ WF_queueVars(Queues(Q!LapseClaim(i)))
  /\ \A c \in Q!Charters : WF_queueVars(Queues(Q!ReevaluatePending(c)))
  /\ WF_queueVars(Queues(Q!Sweep))

WorkFairSpec == WorkInit /\ [][WorkNext]_work /\ WorkFairness

\* WaitingMoves (evaluateNext, parkSpentEvaluations), of the behaviours that
\* judge waiting items.
EveryRowMoves == part = "queue" => Q!WaitingMoves
=============================================================================

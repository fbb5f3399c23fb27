----------------------------- MODULE MCServices -----------------------------
(***************************************************************************)
(* The model-checking instances of the components that share no state with *)
(* one another: a behaviour picks one part at its start and runs that part *)
(* alone, so the state space is the sum of theirs, not their product, and  *)
(* one run stands for one of each.                                         *)
(***************************************************************************)
EXTENDS TokenLife, DocSync, PlanDesk, ExternalClaims, Handover, ClosingPhase, TLC

CONSTANT Parts
ASSUME PartsAssumption ==
  Parts \subseteq {"token", "docs", "desk", "claims", "handover", "closing"}

VARIABLE part

\* The sets of interchangeable actions and rows are given the same values, so
\* that one permutation serves every part.
Perms == Permutations(Drafters)

services == <<part, tokenVars, docVars, deskVars, claimVars, handVars, closingVars>>

ServicesTypeOK ==
  /\ part \in Parts
  /\ part = "token" => TokenTypeOK
  /\ part = "docs" => DocTypeOK
  /\ part = "desk" => DeskTypeOK
  /\ part = "claims" => ClaimTypeOK
  /\ part = "handover" => HandTypeOK
  /\ part = "closing" => ClosingTypeOK

\* A part that is not run stays in one initial state of its.
ServicesInit ==
  /\ part \in Parts
  /\ TokenInit /\ DocInit /\ DeskInit /\ ClaimInit /\ HandInit
  /\ ClosingInit
  /\ part # "docs" => reader = "listing"
  /\ part # "desk" => connected /\ channel

Only(name) == part = name /\ UNCHANGED part
ButToken == UNCHANGED <<docVars, deskVars, claimVars, handVars, closingVars>>
ButDocs == UNCHANGED <<tokenVars, deskVars, claimVars, handVars, closingVars>>
ButDesk == UNCHANGED <<tokenVars, docVars, claimVars, handVars, closingVars>>
ButClaims == UNCHANGED <<tokenVars, docVars, deskVars, handVars, closingVars>>
ButHandover == UNCHANGED <<tokenVars, docVars, deskVars, claimVars, closingVars>>
ButClosing == UNCHANGED <<tokenVars, docVars, deskVars, claimVars, handVars>>

ServicesNext ==
  \/ Only("token") /\ TokenNext /\ ButToken
  \/ Only("docs") /\ DocNext /\ ButDocs
  \/ Only("desk") /\ DeskNext /\ ButDesk
  \/ Only("claims") /\ ClaimNext /\ ButClaims
  \/ Only("handover") /\ HandNext /\ ButHandover
  \/ Only("closing") /\ ClosingNext /\ ButClosing

ServicesSpec == ServicesInit /\ [][ServicesNext]_services

\* The crons run, the scheduler fires what it holds, an action under way moves
\* on or dies.  Nothing is assumed of managers, providers and vendors.
Runs(name, A) == part = name /\ A
ServicesFairness ==
  /\ WF_tokenVars(Runs("token", ExpireOverdue))
  /\ WF_docVars(Runs("docs", \E w \in Workers : CronSync(w)))
  /\ WF_docVars(Runs("docs", ResumeCrons))
  /\ \A w \in Workers : WF_docVars(Runs("docs", ChainStep(w)))
  /\ WF_deskVars(Runs("desk", SweepDraft)) /\ WF_deskVars(Runs("desk", StopDead))
  /\ WF_deskVars(Runs("desk", SweepPending)) /\ WF_deskVars(Runs("desk", Recheck))
  /\ WF_deskVars(Runs("desk", RecoverRequest))
  /\ \A d \in Drafters : WF_deskVars(Runs("desk", DraftStep(d)))
  /\ \A s \in Senders : WF_deskVars(Runs("desk", SendStep(s)))
  /\ WF_handVars(Runs("handover", DeadlinePasses)) /\ WF_handVars(Runs("handover", SweepSettles))
  /\ WF_handVars(Runs("handover", Settle)) /\ WF_handVars(Runs("handover", RecordSettleFailure))
  /\ WF_closingVars(Runs("closing", ApplyHeld)) /\ WF_closingVars(Runs("closing", SweepStalled))
  /\ \A t \in (1..MaxRuns) \X {1, 2} : WF_closingVars(Runs("closing", RecoverFires(t)))

ServicesFairSpec == ServicesSpec /\ ServicesFairness

\* DocsConverge (docSyncActions.ts, sync-resume.ts), of the behaviours that
\* run a documentation source.
SourcesConverge == part = "docs" => DocsConverge

\* DraftsEnd (resumeDraft), of the behaviours that draft a plan.
EveryDraftEnds == part = "desk" => DraftsEnd
=============================================================================

-------------------------- MODULE ManagerDesk_proofs -------------------------
(***************************************************************************)
(* What the manager decides, and who the manager is.  First PlanDesk, a    *)
(* plan from its drafting to its decision: what the row holds is the last  *)
(* draft's, a reply decides the plan its message showed, and no code the   *)
(* manager was sent is forgotten.  A draft, a queued stop and a sender     *)
(* each carry what they read of the row, so the invariant says what of it  *)
(* is still the row's.                                                     *)
(*                                                                         *)
(* Then Handover, what it may not do to the employee's work: nothing runs  *)
(* on the word of a manager the employee no longer reports to, and the     *)
(* manager who has it now is the one its parked rows were asked of.  A     *)
(* reply is taken where the request's DM is the surface's, and a held set  *)
(* keeps the request its row has, so the invariant says whose the DM is    *)
(* and that only a parked row carries a request.                           *)
(***************************************************************************)
EXTENDS PlanDesk, Handover, TLAPS

USE ResumesAssumption, ChangesAssumption

-----------------------------------------------------------------------------
(* The drafts. *)

DraftRows == [at : {"idle", "drafting", "deciding"}, claim : Nat, without : {"no", "not-connected", "unread"}]
DraftTypes ==
  /\ claims \in Nat /\ claim \in Nat /\ resetAt \in Nat /\ plan \in Nat /\ stopDue \in Nat /\ failedFor \in Nat
  /\ draft \in [Drafters -> DraftRows]
\* A claim on the row is newer than its last reset, a row that is not stopped
\* was failed in nobody's name, and a draft under way has a claim.
DraftOrder ==
  /\ claim <= claims /\ resetAt <= claims
  /\ claim # 0 => claim > resetAt
  /\ plan # 0 => plan > resetAt
  /\ failedFor # 0 => itemState = "failed" /\ failedFor > resetAt
  /\ \A d \in Drafters : draft[d].at = "drafting" => draft[d].claim # 0
DraftInv == DraftTypes /\ DraftOrder

LEMMA DraftRow ==
  ASSUME NEW f \in [Drafters -> DraftRows], NEW d \in Drafters
  PROVE  /\ [f EXCEPT ![d] = IdleDraft] \in [Drafters -> DraftRows]
         /\ [f EXCEPT ![d].at = "deciding"] \in [Drafters -> DraftRows]
         /\ \A e \in Drafters : /\ [f EXCEPT ![d] = IdleDraft][e] = IF e = d THEN IdleDraft ELSE f[e]
                                /\ [f EXCEPT ![d].at = "deciding"][e] = IF e = d THEN [f[e] EXCEPT !.at = "deciding"] ELSE f[e]
                                /\ [f EXCEPT ![d].at = "deciding"][d].at = "deciding"
BY DEF DraftRows, IdleDraft

\* A draft that leaves the row's drafting fields alone but for its state.
LEMMA DraftRest ==
  ASSUME DraftInv, UNCHANGED <<claim, plan, resetAt, failedFor, stopDue, claims>>,
         draft' \in [Drafters -> DraftRows],
         \A d \in Drafters : draft'[d].at = "drafting" => draft'[d] = draft[d],
         failedFor # 0 => itemState' = "failed"
  PROVE  DraftInv'
BY DEF DraftInv, DraftTypes, DraftOrder

LEMMA DraftSentBack ==
  ASSUME DraftInv, SendBack, itemState # "failed", UNCHANGED <<stopDue, claims>>,
         draft' \in [Drafters -> DraftRows],
         \A d \in Drafters : draft'[d].at = "drafting" => draft'[d] = draft[d]
  PROVE  DraftInv'
BY DEF DraftInv, DraftTypes, DraftOrder, SendBack

LEMMA FailedFor ==
  ASSUME DraftInv, NEW c \in Nat \ {0}, FailFor(c), UNCHANGED <<claim, plan, resetAt, claims>>, stopDue' \in {stopDue, 0},
         draft' \in [Drafters -> DraftRows],
         \A d \in Drafters : draft'[d].at = "drafting" => draft'[d] = draft[d]
  PROVE  DraftInv'
BY DEF DraftInv, DraftTypes, DraftOrder, FailFor

LEMMA DraftsStep ==
  ASSUME DraftInv, NEW d \in Drafters, DraftStep(d)
  PROVE  DraftInv'
<1> USE DraftRow
<1>1. draft \in [Drafters -> DraftRows]
  BY DEF DraftInv, DraftTypes
<1>2. CASE ClaimDraft(d)
  <2>1. CASE itemState = "claimed" /\ ~LiveClaim
    <3>1. PICK read \in {"no", "unread", "not-connected"} :
            draft' = [draft EXCEPT ![d] = [at |-> "drafting", claim |-> claims + 1, without |-> read]]
      BY <1>2, <2>1 DEF ClaimDraft
    <3>2. claims' = claims + 1 /\ claim' = claims + 1 /\ UNCHANGED <<itemState, plan, resetAt, failedFor, stopDue>>
      BY <1>2, <2>1 DEF ClaimDraft
    <3>3. [at |-> "drafting", claim |-> claims + 1, without |-> read] \in DraftRows
      BY DEF DraftRows, DraftInv, DraftTypes
    <3>4. draft' \in [Drafters -> DraftRows]
          /\ \A e \in Drafters : draft'[e] = IF e = d THEN [at |-> "drafting", claim |-> claims + 1, without |-> read]
                                             ELSE draft[e]
      BY <1>1, <3>1, <3>3
    <3> QED BY <3>2, <3>4 DEF DraftInv, DraftTypes, DraftOrder
  <2>2. CASE ~(itemState = "claimed" /\ ~LiveClaim)
    BY <1>1, <1>2, <2>2, DraftRest DEF ClaimDraft, DraftInv, DraftOrder
  <2> QED BY <2>1, <2>2
<1>3. CASE StorePlan(d)
  <2>1. draft' \in [Drafters -> DraftRows]
        /\ \A e \in Drafters : draft'[e].at = "drafting" => draft'[e] = draft[e]
    <3>1. draft' = [draft EXCEPT ![d] = IdleDraft] \/ draft' = [draft EXCEPT ![d].at = "deciding"]
      BY <1>3 DEF StorePlan
    <3>2. CASE draft' = [draft EXCEPT ![d] = IdleDraft]
      BY <1>1, <3>2 DEF IdleDraft
    <3>3. CASE draft' = [draft EXCEPT ![d].at = "deciding"]
      BY <1>1, <3>3
    <3> QED BY <3>1, <3>2, <3>3
  <2>2. CASE ~MayStorePlan(d)
    BY <1>3, <2>1, <2>2, DraftRest DEF StorePlan, itemVars, DraftInv, DraftOrder
  <2>3. CASE MayStorePlan(d) /\ draft[d].without = "not-connected" /\ connected
    BY <1>3, <2>1, <2>3, DraftSentBack DEF StorePlan, MayStorePlan
  <2>4. CASE MayStorePlan(d) /\ ~(draft[d].without = "not-connected" /\ connected)
    <3>1. /\ draft[d].at = "drafting" /\ itemState = "claimed" /\ claim = draft[d].claim
          /\ plan' = claim /\ claim' = 0 /\ itemState' = "plan-pending"
          /\ UNCHANGED <<resetAt, failedFor, stopDue, claims>>
      BY <1>3, <2>4 DEF StorePlan, MayStorePlan
    <3> QED BY <2>1, <3>1 DEF DraftInv, DraftTypes, DraftOrder
  <2> QED BY <2>2, <2>3, <2>4
<1>4. CASE DraftFails(d)
  <2>1. draft[d].at = "drafting" /\ FailFor(draft[d].claim) /\ draft' = [draft EXCEPT ![d] = IdleDraft]
        /\ UNCHANGED <<claim, plan, resetAt, stopDue, claims>>
    BY <1>4 DEF DraftFails
  <2>2. draft[d].claim \in Nat \ {0}
    BY <1>1, <2>1 DEF DraftInv, DraftOrder, DraftRows
  <2>3. draft' \in [Drafters -> DraftRows]
        /\ \A e \in Drafters : draft'[e].at = "drafting" => draft'[e] = draft[e]
    BY <1>1, <2>1 DEF IdleDraft
  <2> QED BY <2>1, <2>2, <2>3, FailedFor
<1>5. CASE DraftDecides(d) \/ DraftDies(d)
  <2>1. draft' = [draft EXCEPT ![d] = IdleDraft] /\ UNCHANGED <<claim, plan, resetAt, failedFor, stopDue, claims>>
    BY <1>5 DEF DraftDecides, DraftDies, itemVars
  <2>2. draft' \in [Drafters -> DraftRows]
        /\ \A e \in Drafters : draft'[e].at = "drafting" => draft'[e] = draft[e]
    BY <1>1, <2>1 DEF IdleDraft
  <2>3. itemState = "failed" => itemState' = "failed"
    BY <1>5 DEF DraftDecides, DecidePlan, DraftDies, itemVars
  <2> QED BY <2>1, <2>2, <2>3, DraftRest DEF DraftInv, DraftOrder
<1> QED BY <1>2, <1>3, <1>4, <1>5 DEF DraftStep

LEMMA AroundDrafts ==
  ASSUME DraftInv, DeskNext, \A d \in Drafters : ~DraftStep(d)
  PROVE  DraftInv'
<1>1. draft' = draft /\ claims' = claims
  BY DEF DeskNext, SendStep, Prepare, BeforeTransport, Post, RecordRequest, SenderDies, DraftJobLost, AskLost,
         SweepDraft, StopDead, SweepPending, Recheck, RecoverRequest, Resend, DecideOnDashboard, DecideInChannel,
         DecideBy, StopItem, Retry, Connect, Disconnect, ChannelChanges
<1>2. CASE SweepDraft
  BY <1>1, <1>2 DEF SweepDraft, DraftInv, DraftTypes, DraftOrder
<1>3. CASE StopDead
  <2>1. stopDue \in Nat \ {0} /\ FailFor(stopDue) /\ stopDue' = 0 /\ UNCHANGED <<claim, plan, resetAt>>
    BY <1>3 DEF StopDead, DraftInv, DraftTypes
  <2> QED BY <1>1, <2>1, FailedFor DEF DraftInv, DraftTypes
<1>4. CASE Retry
  BY <1>1, <1>4 DEF Retry, DraftInv, DraftTypes, DraftOrder
<1>5. CASE Connect
  <2>1. stopDue' = stopDue
    BY <1>5 DEF Connect
  <2>2. CASE UNCHANGED itemVars
    BY <1>1, <2>1, <2>2, DraftRest DEF itemVars, DraftInv, DraftTypes, DraftOrder
  <2>3. CASE SendBack /\ itemState = "plan-pending"
    BY <1>1, <2>1, <2>3, DraftSentBack DEF DraftInv, DraftTypes
  <2> QED BY <1>5, <2>2, <2>3 DEF Connect
<1>6. CASE ~SweepDraft /\ ~StopDead /\ ~Retry /\ ~Connect
  <2>1. UNCHANGED <<claim, plan, resetAt, failedFor, stopDue>> /\ (itemState = "failed" => itemState' = "failed")
    BY <1>6 DEF DeskNext, SendStep, Prepare, BeforeTransport, Post, RecordRequest, SenderDies, DraftJobLost, AskLost,
           SweepPending, Recheck, DecidePlan, RecoverRequest, Resend, DecideOnDashboard, DecideInChannel,
           DecideBy, StopItem, Disconnect, ChannelChanges, itemVars
  <2> QED BY <1>1, <2>1, DraftRest DEF DraftInv, DraftTypes, DraftOrder
<1> QED BY <1>2, <1>3, <1>4, <1>5, <1>6

LEMMA DraftStays == DraftInv /\ [DeskNext]_deskVars => DraftInv'
<1>1. ASSUME DraftInv, UNCHANGED deskVars
      PROVE  DraftInv'
  BY <1>1 DEF deskVars, itemVars, DraftInv, DraftTypes, DraftOrder
<1> QED BY <1>1, DraftsStep, AroundDrafts

LEMMA DraftStart == DeskInit => DraftInv
BY DEF DeskInit, DraftInv, DraftTypes, DraftOrder, IdleDraft, DraftRows

\* What the row holds was written by the draft under way: neither a plan nor a
\* failure of a draft that a Retry or a re-draft left behind lands on its
\* successor's row (setPlan, setFailed).
THEOREM DeskLastDraft == DeskSpec => []OnlyTheLastDraft
<1>1. DraftInv => OnlyTheLastDraft
  BY DEF DraftInv, DraftOrder, OnlyTheLastDraft
<1> QED BY DraftStart, DraftStays, <1>1, PTL DEF DeskSpec


-----------------------------------------------------------------------------
(***************************************************************************)
(* The requests.  The request on the row shows the row's plan: a plan is   *)
(* stored on a row that carries no request, and what takes the plan away   *)
(* takes the request along, remembered.                                    *)
(***************************************************************************)

RequestRows == [id : Nat, ts : BOOLEAN, failed : BOOLEAN, decided : {"no", "channel", "dashboard"}]
SendRows == [at : {"idle", "prepared", "cleared", "posted", "refused"}, code : Nat, plan : Nat]
AskTypes ==
  /\ codes \in Nat /\ request \in RequestRows /\ dm \in [Codes -> Nat] /\ plan \in Nat
  /\ send \in [Senders -> SendRows]

Known(c) == request.id = c \/ c \in replaced
\* A row that is drafted carries no request, one that waits no decision.
RequestOrder ==
  /\ request.id <= codes /\ (request.id = 0 => request = NoRequest)
  /\ itemState = "claimed" => request = NoRequest
  /\ itemState = "plan-pending" => request.decided = "no"
SentKnown ==
  \A s \in Senders : send[s].at # "idle" =>
    /\ send[s].code # 0 /\ send[s].code <= codes /\ Known(send[s].code)
    /\ send[s].code = request.id => send[s].plan = plan
ShownKnown ==
  \A c \in Codes : dm[c] # 0 => c <= codes /\ Known(c) /\ (c = request.id => dm[c] = plan)
ChannelShown == request.decided = "channel" => request.id \in Codes /\ dm[request.id] = plan
AskOrder == RequestOrder /\ SentKnown /\ ShownKnown /\ ChannelShown
AskInv == AskTypes /\ AskOrder

LEMMA CodesAreNat == \A c \in Codes : c \in Nat /\ c # 0
BY DEF Codes

LEMMA RequestRow ==
  /\ NoRequest \in RequestRows /\ NoRequest.id = 0 /\ NoRequest.decided = "no"
  /\ \A c \in Nat : LET r == [NoRequest EXCEPT !.id = c] IN r \in RequestRows /\ r.id = c /\ r.decided = "no"
BY DEF NoRequest, RequestRows

\* A step that leaves the request, the plan and the senders alone.
LEMMA AskQuiet ==
  ASSUME AskInv, UNCHANGED <<request, replaced, dm, codes, send, plan>>,
         itemState' = itemState \/ itemState' \notin {"claimed", "plan-pending"}
  PROVE  AskInv'
BY DEF AskInv, AskTypes, AskOrder, RequestOrder, SentKnown, ShownKnown, ChannelShown, Known

\* A step that marks the row's request, of the same code.
LEMMA AskMarked ==
  ASSUME AskInv, UNCHANGED <<replaced, dm, codes, plan>>, request.id # 0,
         request' \in RequestRows, request'.id = request.id,
         request'.decided = request.decided \/ (itemState' # "plan-pending" /\ request'.decided = "dashboard")
         \/ (itemState' # "plan-pending" /\ request.id \in Codes /\ dm[request.id] # 0),
         itemState' = itemState \/ itemState' \notin {"claimed", "plan-pending"},
         send' \in [Senders -> SendRows], \A s \in Senders : send'[s] = send[s] \/ send'[s].at = "idle"
  PROVE  AskInv'
<1>1. request # NoRequest /\ itemState # "claimed"
  BY RequestRow DEF AskInv, AskOrder, RequestOrder
<1>2. RequestOrder'
  BY <1>1 DEF AskInv, AskOrder, RequestOrder, AskTypes
<1>3. SentKnown'
  BY DEF AskInv, AskOrder, SentKnown, Known
<1>4. ShownKnown'
  BY DEF AskInv, AskOrder, ShownKnown, Known
<1>5. ChannelShown'
  BY DEF AskInv, AskOrder, ShownKnown, ChannelShown
<1> QED BY <1>2, <1>3, <1>4, <1>5 DEF AskInv, AskOrder, AskTypes

\* A step that takes the request, open or decided, off the row.
LEMMA AskTaken ==
  ASSUME AskInv, UNCHANGED <<dm, codes, send>>, request' = NoRequest, plan' \in Nat,
         replaced \subseteq replaced', request = NoRequest \/ request.id \in replaced'
  PROVE  AskInv'
<1>1. \A c \in Nat \ {0} : Known(c) => Known(c)'
  BY RequestRow DEF Known
<1>2. RequestOrder'
  BY RequestRow DEF AskInv, AskTypes, RequestOrder
<1>3. SentKnown'
  BY <1>1, RequestRow DEF AskInv, AskTypes, AskOrder, SentKnown, SendRows
<1>4. ShownKnown'
  BY <1>1, RequestRow, CodesAreNat DEF AskInv, AskOrder, ShownKnown
<1>5. ChannelShown'
  BY RequestRow DEF ChannelShown
<1> QED BY <1>2, <1>3, <1>4, <1>5, RequestRow DEF AskInv, AskOrder, AskTypes

LEMMA AskSentBack ==
  ASSUME AskInv, SendBack, request.decided = "no", send' = send
  PROVE  AskInv'
<1>1. request' = NoRequest /\ plan' = 0 /\ UNCHANGED <<dm, codes>> /\ replaced' = Remembered(request)
  BY DEF SendBack, RequestTakenBack
<1>2. replaced \subseteq replaced' /\ (request = NoRequest \/ request.id \in replaced')
  BY <1>1 DEF Remembered, Undecided
<1> QED BY <1>1, <1>2, AskTaken

\* A plan is stored on a row that carries no request.
LEMMA AskStored ==
  ASSUME AskInv, itemState = "claimed", itemState' = "plan-pending", plan' \in Nat,
         UNCHANGED <<request, replaced, dm, codes, send>>
  PROVE  AskInv'
<1>1. request = NoRequest /\ request.id = 0
  BY RequestRow DEF AskInv, AskOrder, RequestOrder
<1>2. \A s \in Senders : send[s].at # "idle" => send[s].code # request.id
  BY <1>1 DEF AskInv, AskOrder, SentKnown
<1>3. \A c \in Codes : c # request.id
  BY <1>1, CodesAreNat
<1> QED BY <1>1, <1>2, <1>3, RequestRow DEF AskInv, AskTypes, AskOrder, RequestOrder, SentKnown, ShownKnown,
                                            ChannelShown, Known

LEMMA SendRow ==
  ASSUME NEW f \in [Senders -> SendRows], NEW s \in Senders
  PROVE  \A row \in SendRows :
           /\ [f EXCEPT ![s] = row] \in [Senders -> SendRows]
           /\ \A t \in Senders : [f EXCEPT ![s] = row][t] = IF t = s THEN row ELSE f[t]
BY DEF SendRows

LEMMA IdleSendRow == IdleSend \in SendRows /\ IdleSend.at = "idle"
BY DEF IdleSend, SendRows

LEMMA AskPrepared ==
  ASSUME AskInv, NEW s \in Senders, Prepare(s)
  PROVE  AskInv'
<1>1. UNCHANGED <<itemState, plan, dm>>
  BY DEF Prepare, itemVars
<1>2. CASE UNCHANGED <<request, replaced, codes, send>>
  BY <1>1, <1>2, AskQuiet
<1>3. ASSUME itemState = "plan-pending", codes' = codes + 1, request' = [NoRequest EXCEPT !.id = codes + 1],
             replaced' = Remembered(request),
             send' = [send EXCEPT ![s] = [at |-> "prepared", code |-> codes + 1, plan |-> plan]]
      PROVE  AskInv'
  <2>1. codes \in Nat /\ codes + 1 \in Nat /\ codes + 1 # 0 /\ request.id \in Nat /\ request.id <= codes
    BY DEF AskInv, AskTypes, AskOrder, RequestOrder, RequestRows
  <2>2. request' \in RequestRows /\ request'.id = codes + 1 /\ request'.decided = "no"
    BY <1>3, <2>1, RequestRow
  <2>3. replaced \subseteq replaced' /\ (request.id = 0 \/ request.id \in replaced')
    <3>1. request.decided = "no" /\ (request.id = 0 \/ request # NoRequest)
      BY <1>3, RequestRow DEF AskInv, AskOrder, RequestOrder
    <3> QED BY <1>3, <3>1 DEF Remembered, Undecided
  <2>4. \A c \in Nat \ {0} : Known(c) => Known(c)'
    BY <2>3 DEF Known
  <2>5. [at |-> "prepared", code |-> codes + 1, plan |-> plan] \in SendRows
    BY <2>1 DEF SendRows, AskInv, AskTypes
  <2>6. /\ send' \in [Senders -> SendRows]
        /\ \A t \in Senders : send'[t] = IF t = s THEN [at |-> "prepared", code |-> codes + 1, plan |-> plan] ELSE send[t]
    BY <1>3, <2>5, SendRow DEF AskInv, AskTypes
  <2>7. RequestOrder'
    BY <1>1, <1>3, <2>1, <2>2 DEF RequestOrder
  <2>8. SentKnown'
    <3> SUFFICES ASSUME NEW t \in Senders, send'[t].at # "idle"
                 PROVE  /\ send'[t].code # 0 /\ send'[t].code <= codes'
                        /\ request'.id = send'[t].code \/ send'[t].code \in replaced'
                        /\ send'[t].code = request'.id => send'[t].plan = plan'
      BY DEF SentKnown, Known
    <3>1. CASE t = s
      BY <1>1, <1>3, <2>1, <2>2, <2>6, <3>1
    <3>2. CASE t # s
      <4>1. send'[t] = send[t] /\ send[t].code \in Nat \ {0} /\ send[t].code <= codes /\ Known(send[t].code)
        BY <2>6, <3>2 DEF AskInv, AskTypes, AskOrder, SentKnown, SendRows
      <4> QED BY <1>3, <2>1, <2>2, <2>4, <4>1 DEF Known
    <3> QED BY <3>1, <3>2
  <2>9. ShownKnown'
    <3> SUFFICES ASSUME NEW c \in Codes, dm[c] # 0
                 PROVE  c <= codes' /\ Known(c)' /\ (c = request'.id => dm[c] = plan')
      BY <1>1 DEF ShownKnown
    <3>1. c \in Nat \ {0} /\ c <= codes /\ Known(c)
      BY CodesAreNat DEF AskInv, AskOrder, ShownKnown
    <3> QED BY <1>3, <2>1, <2>2, <2>4, <3>1
  <2>10. ChannelShown'
    BY <2>2 DEF ChannelShown
  <2> QED BY <1>1, <1>3, <2>1, <2>2, <2>6, <2>7, <2>8, <2>9, <2>10 DEF AskInv, AskOrder, AskTypes
<1> QED BY <1>2, <1>3 DEF Prepare

LEMMA AskSent ==
  ASSUME AskInv, NEW s \in Senders, BeforeTransport(s) \/ Post(s)
  PROVE  AskInv'
<1>1. UNCHANGED <<itemState, plan, request, replaced, codes>> /\ send[s].at # "idle"
  BY DEF BeforeTransport, Post, itemVars, askVars
<1>2. PICK at \in {"cleared", "posted", "refused"} : send' = [send EXCEPT ![s].at = at]
  <2>1. \E at \in {"cleared", "posted", "refused"} : send' = [send EXCEPT ![s].at = at]
    <3>1. CASE BeforeTransport(s)
      BY <3>1 DEF BeforeTransport
    <3>2. CASE Post(s)
      BY <3>2 DEF Post
    <3> QED BY <3>1, <3>2
  <2> QED BY <2>1
<1>3. /\ send' \in [Senders -> SendRows]
      /\ \A t \in Senders : /\ t # s => send'[t] = send[t]
                            /\ send'[t].code = send[t].code /\ send'[t].plan = send[t].plan
  <2>1. send \in [Senders -> SendRows]
    BY DEF AskInv, AskTypes
  <2>2. send' = [send EXCEPT ![s] = [send[s] EXCEPT !.at = at]] /\ [send[s] EXCEPT !.at = at] \in SendRows
        /\ [send[s] EXCEPT !.at = at].code = send[s].code /\ [send[s] EXCEPT !.at = at].plan = send[s].plan
    BY <1>2, <2>1 DEF SendRows
  <2> QED BY <2>1, <2>2, SendRow
<1>4. \A t \in Senders : send'[t].at # "idle" => send[t].at # "idle"
  BY <1>1, <1>3
<1>5. SentKnown'
  BY <1>1, <1>3, <1>4 DEF AskInv, AskOrder, SentKnown, Known
<1>6. dm' = dm \/ dm' = [dm EXCEPT ![send[s].code] = send[s].plan]
  BY DEF BeforeTransport, Post, askVars
<1>7. dm' \in [Codes -> Nat]
  <2>1. send[s].plan \in Nat
    BY DEF AskInv, AskTypes, SendRows
  <2> QED BY <1>6, <2>1 DEF AskInv, AskTypes
<1>8. \A c \in Codes : dm'[c] = dm[c] \/ (c = send[s].code /\ dm'[c] = send[s].plan)
  BY <1>6 DEF AskInv, AskTypes
<1>9. ShownKnown'
  BY <1>1, <1>8 DEF AskInv, AskOrder, SentKnown, ShownKnown, Known
<1>10. ChannelShown'
  BY <1>1, <1>8 DEF AskInv, AskOrder, SentKnown, ChannelShown
<1>11. RequestOrder'
  BY <1>1 DEF AskInv, AskOrder, RequestOrder
<1> QED BY <1>1, <1>3, <1>5, <1>7, <1>9, <1>10, <1>11 DEF AskInv, AskOrder, AskTypes


LEMMA AskRecorded ==
  ASSUME AskInv, NEW s \in Senders, RecordRequest(s) \/ SenderDies(s)
  PROVE  AskInv'
<1>1. send' = [send EXCEPT ![s] = IdleSend] /\ UNCHANGED <<replaced, dm, codes, plan, itemState>>
  BY DEF RecordRequest, SenderDies, itemVars, askVars
<1>2. send' \in [Senders -> SendRows] /\ \A t \in Senders : send'[t] = send[t] \/ send'[t].at = "idle"
  BY <1>1, SendRow, IdleSendRow DEF AskInv, AskTypes
<1>3. \/ request' = request
      \/ /\ request.id = send[s].code /\ send[s].at # "idle"
         /\ request' = [request EXCEPT !.ts = TRUE] \/ request' = [request EXCEPT !.failed = TRUE]
  BY DEF RecordRequest, SenderDies, askVars
<1>4. CASE request' = request /\ request.id = 0
  <2>1. \A t \in Senders : send'[t].at # "idle" => send'[t] = send[t]
    BY <1>2
  <2> QED BY <1>1, <1>2, <1>4, <2>1 DEF AskInv, AskTypes, AskOrder, RequestOrder, SentKnown, ShownKnown, ChannelShown,
                                        Known
<1>5. CASE request.id # 0
  <2>1. request' \in RequestRows /\ request'.id = request.id /\ request'.decided = request.decided
    BY <1>3 DEF AskInv, AskTypes, RequestRows
  <2> QED BY <1>1, <1>2, <1>5, <2>1, AskMarked
<1>6. CASE request' # request /\ request.id = 0
  BY <1>3, <1>6 DEF AskInv, AskOrder, SentKnown
<1> QED BY <1>4, <1>5, <1>6

LEMMA AskDecided ==
  ASSUME AskInv, \/ RecoverRequest \/ Resend \/ DecideOnDashboard \/ DecideInChannel
  PROVE  AskInv'
<1>1. UNCHANGED <<replaced, dm, codes, plan, send>>
  BY DEF RecoverRequest, Resend, DecideOnDashboard, DecideInChannel, DecideBy, itemVars
<1>2. send' \in [Senders -> SendRows] /\ \A t \in Senders : send'[t] = send[t] \/ send'[t].at = "idle"
  BY <1>1 DEF AskInv, AskTypes
<1>3. itemState' = itemState \/ itemState' \notin {"claimed", "plan-pending"}
  BY DEF RecoverRequest, Resend, DecideOnDashboard, DecideInChannel, DecideBy, itemVars
<1>4. CASE request' = request
  BY <1>1, <1>3, <1>4, AskQuiet
<1>5. CASE request' # request
  <2>1. Undecided(request)
    BY <1>5 DEF RecoverRequest, Resend, Supersede, DecideOnDashboard, DecideInChannel, DecideBy
  <2>2. request.id # 0
    BY <2>1 DEF Undecided, AskInv, AskOrder, RequestOrder
  <2>3. \/ request' = [request EXCEPT !.failed = TRUE]
        \/ itemState' # "plan-pending" /\ request' = [request EXCEPT !.decided = "dashboard"]
        \/ /\ itemState' # "plan-pending" /\ request' = [request EXCEPT !.decided = "channel"]
           /\ request.id \in Codes /\ dm[request.id] # 0
    BY <1>5 DEF RecoverRequest, Resend, Supersede, DecideOnDashboard, DecideInChannel, DecideBy
  <2>4. /\ request' \in RequestRows /\ request'.id = request.id
        /\ \/ request'.decided = request.decided
           \/ itemState' # "plan-pending" /\ request'.decided = "dashboard"
           \/ itemState' # "plan-pending" /\ request.id \in Codes /\ dm[request.id] # 0
    BY <2>3 DEF AskInv, AskTypes, RequestRows
  <2> QED BY <1>1, <1>2, <1>3, <2>2, <2>4, AskMarked
<1> QED BY <1>4, <1>5

LEMMA AskStep == DraftInv /\ AskInv /\ [DeskNext]_deskVars => AskInv'
<1> SUFFICES ASSUME DraftInv, AskInv, [DeskNext]_deskVars
             PROVE  AskInv'
  OBVIOUS
<1>1. ASSUME NEW d \in Drafters, StorePlan(d)
      PROVE  AskInv'
  <2>1. send' = send
    BY <1>1 DEF StorePlan
  <2>2. CASE ~MayStorePlan(d)
    BY <1>1, <2>1, <2>2, AskQuiet DEF StorePlan, itemVars, askVars
  <2>3. CASE MayStorePlan(d) /\ draft[d].without = "not-connected" /\ connected
    <3>1. SendBack /\ request.decided = "no"
      BY <1>1, <2>3, RequestRow DEF StorePlan, MayStorePlan, AskInv, AskOrder, RequestOrder
    <3> QED BY <2>1, <3>1, AskSentBack
  <2>4. CASE MayStorePlan(d) /\ ~(draft[d].without = "not-connected" /\ connected)
    <3>1. itemState = "claimed" /\ itemState' = "plan-pending" /\ plan' = claim
          /\ UNCHANGED <<request, replaced, dm, codes>>
      BY <1>1, <2>4 DEF StorePlan, MayStorePlan, askVars
    <3> QED BY <2>1, <3>1, AskStored DEF DraftInv, DraftTypes
  <2> QED BY <2>2, <2>3, <2>4
<1>2. ASSUME NEW d \in Drafters, ClaimDraft(d) \/ DraftFails(d) \/ DraftDecides(d) \/ DraftDies(d)
      PROVE  AskInv'
  <2>1. UNCHANGED <<request, replaced, dm, codes, send, plan>>
    BY <1>2 DEF ClaimDraft, DraftFails, DraftDecides, DraftDies, itemVars, askVars
  <2>2. itemState' = itemState \/ itemState' \in {"failed", "plan-approved"}
    BY <1>2 DEF ClaimDraft, DraftFails, FailFor, DraftDecides, DecidePlan, DraftDies, itemVars
  <2> QED BY <2>1, <2>2, AskQuiet
<1>3. CASE \/ DraftJobLost \/ AskLost \/ SweepDraft \/ StopDead \/ SweepPending \/ Recheck \/ StopItem \/ Disconnect
           \/ ChannelChanges \/ UNCHANGED deskVars
  <2>1. UNCHANGED <<request, replaced, dm, codes, send, plan>>
    BY <1>3 DEF DraftJobLost, AskLost, SweepDraft, StopDead, SweepPending, Recheck, StopItem, Disconnect,
                ChannelChanges, deskVars, itemVars, askVars
  <2>2. itemState' = itemState \/ itemState' \in {"failed", "plan-approved"}
    BY <1>3 DEF DraftJobLost, AskLost, SweepDraft, StopDead, FailFor, SweepPending, Recheck, DecidePlan, StopItem,
                Disconnect, ChannelChanges, deskVars, itemVars
  <2> QED BY <2>1, <2>2, AskQuiet
<1>4. CASE Retry
  <2>1. /\ request' = NoRequest /\ plan' = 0 /\ UNCHANGED <<dm, codes, send>>
        /\ replaced' = IF request = NoRequest THEN replaced ELSE replaced \cup {request.id}
    BY <1>4 DEF Retry
  <2> QED BY <2>1, AskTaken
<1>5. CASE Connect
  <2>1. send' = send
    BY <1>5 DEF Connect
  <2>2. CASE SendBack /\ request.decided = "no"
    BY <2>1, <2>2, AskSentBack
  <2>3. CASE UNCHANGED <<itemVars, askVars>>
    BY <2>1, <2>3, AskQuiet DEF itemVars, askVars
  <2> QED BY <1>5, <2>2, <2>3 DEF Connect
<1> QED
  BY <1>1, <1>2, <1>3, <1>4, <1>5, AskPrepared, AskSent, AskRecorded, AskDecided DEF DeskNext, DraftStep, SendStep

LEMMA AskInit == DeskInit => DraftInv /\ AskInv
<1> SUFFICES ASSUME DeskInit
             PROVE  DraftInv /\ AskInv
  OBVIOUS
<1>1. DraftInv
  BY DraftStart
<1>2. send \in [Senders -> SendRows] /\ \A s \in Senders : send[s].at = "idle"
  BY IdleSendRow DEF DeskInit
<1>3. dm \in [Codes -> Nat] /\ \A c \in Codes : dm[c] = 0
  BY DEF DeskInit
<1>4. request = NoRequest /\ request \in RequestRows /\ request.id = 0 /\ request.decided = "no"
  BY RequestRow DEF DeskInit
<1>5. AskTypes
  BY <1>2, <1>3, <1>4 DEF DeskInit, AskTypes
<1>6. AskOrder
  BY <1>2, <1>3, <1>4 DEF DeskInit, AskOrder, RequestOrder, SentKnown, ShownKnown, ChannelShown
<1> QED BY <1>1, <1>5, <1>6 DEF AskInv

\* Every code the manager was sent is answered by name for good: it is the
\* row's request or remembered as replaced, also when its message arrived
\* after it was taken back (rememberReplacedRequest, rememberRetriedRequest).
THEOREM DeskCodesKnown == DeskSpec => []CodesStayKnown
<1>1. AskInv => CodesStayKnown
  BY DEF AskInv, AskOrder, ShownKnown, Known, CodesStayKnown
<1> DEFINE Inv == DraftInv /\ AskInv
<1>2. Inv /\ [DeskNext]_deskVars => Inv'
  BY DraftStays, AskStep
<1> QED BY AskInit, <1>1, <1>2, PTL DEF DeskSpec

\* A reply in the DM decides the plan its message showed, never one drafted
\* since (resolveManagerReply, sendBackToDrafting).
THEOREM DeskDecidedAsShown == DeskSpec => []DecidedAsShown
<1>1. AskInv => DecidedAsShown
  BY DEF AskInv, AskOrder, ChannelShown, DecidedAsShown
<1> DEFINE Inv == DraftInv /\ AskInv
<1>2. Inv /\ [DeskNext]_deskVars => Inv'
  BY DraftStays, AskStep
<1> QED BY AskInit, <1>1, <1>2, PTL DEF DeskSpec

-----------------------------------------------------------------------------
(***************************************************************************)
(* The numbers.  A claim is taken by a draft that is queued, and a draft   *)
(* is queued once at the start, once more for each restart, and afresh     *)
(* each time the row is sent back, which takes a Retry or a connection.  A *)
(* code is given out for a plan, and again for one that was superseded,    *)
(* which takes a Resend or a request whose sender died or is slow.  So     *)
(* what may still come is bounded by what the bounds have left.            *)
(***************************************************************************)

\* DeskTypeOK, of what is not counted; and what the bounds have spent.
DeskFlags ==
  /\ itemState \in {"claimed", "plan-pending", "plan-approved", "cancelled", "failed"}
  /\ without \in {"no", "not-connected", "unread"} /\ rejected \in BOOLEAN
  /\ draftJob \in BOOLEAN /\ recheck \in BOOLEAN
  /\ timer \in BOOLEAN /\ connected \in BOOLEAN /\ channel \in BOOLEAN
DeskSpent ==
  /\ resumes \in 0..MaxResumes /\ changes \in 0..MaxChanges /\ slips \in 0..MaxSlips

LEMMA SlipsOn ==
  ASSUME DeskSpent, Slip \/ UNCHANGED slips
  PROVE  slips' \in 0..MaxSlips /\ slips' >= slips
BY DEF DeskSpent, Slip

LEMMA ChangesOn ==
  ASSUME DeskSpent, Change \/ UNCHANGED changes
  PROVE  changes' \in 0..MaxChanges /\ changes' >= changes
BY DEF DeskSpent, Change

LEMMA SentBackFlags ==
  ASSUME DeskFlags, SendBack, UNCHANGED <<recheck, channel>>, connected' \in BOOLEAN
  PROVE  DeskFlags'
BY DEF DeskFlags, SendBack

LEMMA FlagsStart == DeskInit => DeskFlags /\ DeskSpent
<1>1. DeskInit => DeskFlags
  BY Zenon DEF DeskInit, DeskFlags
<1>2. DeskInit => DeskSpent
  BY DEF DeskInit, DeskSpent
<1> QED BY <1>1, <1>2

LEMMA DraftFlags ==
  ASSUME DraftInv, DeskFlags, NEW d \in Drafters, DraftStep(d)
  PROVE  DeskFlags'
<1>1. CASE ClaimDraft(d)
  BY <1>1 DEF ClaimDraft, DeskFlags, aroundVars, askVars
<1>2. CASE StorePlan(d)
  <2>1. UNCHANGED <<recheck, channel, connected>>
    BY <1>2 DEF StorePlan, aroundVars
  <2>2. CASE SendBack
    BY <2>1, <2>2, SentBackFlags DEF DeskFlags
  <2>3. CASE UNCHANGED <<itemVars, askVars, draftJob>>
    BY <2>1, <2>3 DEF DeskFlags, itemVars, askVars
  <2>4. CASE /\ itemState' = "plan-pending" /\ without' = draft[d].without
             /\ UNCHANGED <<rejected, resumes, askVars, draftJob>>
    <3>1. draft[d].without \in {"no", "not-connected", "unread"}
      BY DEF DraftInv, DraftTypes, DraftRows
    <3> QED BY <2>1, <2>4, <3>1 DEF DeskFlags, askVars
  <2> QED BY <1>2, <2>2, <2>3, <2>4 DEF StorePlan
<1>3. CASE DraftFails(d)
  BY <1>3 DEF DraftFails, FailFor, DeskFlags, aroundVars, askVars
<1>4. CASE DraftDecides(d)
  BY <1>4 DEF DraftDecides, DecidePlan, DeskFlags, aroundVars
<1>5. CASE DraftDies(d)
  BY <1>5 DEF DraftDies, DeskFlags, aroundVars, askVars, itemVars
<1> QED BY <1>1, <1>2, <1>3, <1>4, <1>5 DEF DraftStep

LEMMA SendFlags ==
  ASSUME DeskFlags, NEW s \in Senders, SendStep(s) \/ SenderDies(s)
  PROVE  DeskFlags'
<1>1. UNCHANGED <<itemVars, draftJob, recheck, aroundVars>> /\ timer' \in BOOLEAN
  BY DEF SendStep, Prepare, Armed, BeforeTransport, Post, RecordRequest, SenderDies, DeskFlags, askVars
<1> QED BY <1>1 DEF DeskFlags, itemVars, aroundVars

LEMMA AroundFlags ==
  ASSUME DeskFlags,
         \/ DraftJobLost \/ AskLost \/ SweepDraft \/ StopDead \/ SweepPending \/ Recheck
         \/ RecoverRequest \/ Resend \/ DecideOnDashboard \/ DecideInChannel \/ StopItem \/ Retry
         \/ Connect \/ Disconnect \/ ChannelChanges
  PROVE  DeskFlags'
<1>1. CASE DraftJobLost
  BY <1>1, Zenon DEF DraftJobLost, DeskFlags, itemVars, askVars, aroundVars
<1>2. CASE AskLost
  BY <1>2 DEF AskLost, DeskFlags, itemVars, aroundVars
<1>3. CASE SweepDraft
  <2>1. draftJob' = TRUE \/ draftJob' = draftJob
    BY <1>3, Zenon DEF SweepDraft
  <2>2. UNCHANGED <<itemState, without, rejected, askVars, aroundVars, recheck>>
    BY <1>3 DEF SweepDraft
  <2> QED BY <2>1, <2>2, Zenon DEF DeskFlags, askVars, aroundVars
<1>4. CASE SweepPending
  BY <1>4, Zenon DEF SweepPending, DeskFlags, itemVars, askVars, aroundVars
<1>5. CASE StopDead \/ Recheck
  BY <1>5 DEF StopDead, FailFor, Recheck, DecidePlan, DeskFlags, askVars, aroundVars
<1>6. CASE RecoverRequest
  BY <1>6 DEF RecoverRequest, DeskFlags, itemVars, aroundVars
<1>7. CASE Resend \/ Disconnect \/ ChannelChanges
  <2>1. UNCHANGED <<itemVars, timer, draftJob, recheck>> /\ connected' \in BOOLEAN /\ channel' \in BOOLEAN
    BY <1>7 DEF Resend, Disconnect, ChannelChanges, DeskFlags, askVars
  <2> QED BY <2>1, Zenon DEF DeskFlags, itemVars
<1>8. CASE DecideOnDashboard \/ DecideInChannel \/ StopItem
  BY <1>8 DEF DecideOnDashboard, DecideInChannel, DecideBy, StopItem, DeskFlags, askVars, aroundVars
<1>9. CASE Retry
  <2>1. itemState' = "claimed" /\ draftJob' = TRUE /\ timer' = FALSE
        /\ UNCHANGED <<without, rejected, connected, channel, recheck>>
    BY <1>9 DEF Retry
  <2> QED BY <2>1, Zenon DEF DeskFlags
<1>10. CASE Connect
  <2>1. connected' \in BOOLEAN /\ UNCHANGED <<recheck, channel>>
    BY <1>10 DEF Connect
  <2>2. CASE SendBack
    BY <2>1, <2>2, SentBackFlags
  <2>3. CASE UNCHANGED <<itemVars, askVars, draftJob>>
    BY <2>1, <2>3 DEF DeskFlags, itemVars, askVars
  <2> QED BY <1>10, <2>2, <2>3 DEF Connect
<1> QED BY <1>1, <1>2, <1>3, <1>4, <1>5, <1>6, <1>7, <1>8, <1>9, <1>10

LEMMA FlagsStep == DraftInv /\ DeskFlags /\ [DeskNext]_deskVars => DeskFlags'
<1>1. ASSUME DeskFlags, UNCHANGED deskVars
      PROVE  DeskFlags'
  BY <1>1 DEF deskVars, itemVars, askVars, aroundVars, DeskFlags
<1> QED BY <1>1, DraftFlags, SendFlags, AroundFlags DEF DeskNext

LEMMA SpentStep == DraftInv /\ DeskSpent /\ [DeskNext]_deskVars => DeskSpent'
<1> SUFFICES ASSUME DraftInv, DeskSpent, [DeskNext]_deskVars
             PROVE  DeskSpent'
  OBVIOUS
<1>1. Slip \/ UNCHANGED slips
  BY DEF DeskNext, DraftStep, ClaimDraft, StorePlan, DraftFails, DraftDecides, DraftDies, SendStep, Prepare,
         BeforeTransport, Post, RecordRequest, SenderDies, DraftJobLost, AskLost, SweepDraft, StopDead, SweepPending,
         Recheck, RecoverRequest, Resend, DecideOnDashboard, DecideInChannel, DecideBy, StopItem, Retry, Connect,
         Disconnect, ChannelChanges, deskVars
<1>2. Change \/ UNCHANGED changes
  BY DEF DeskNext, DraftStep, ClaimDraft, StorePlan, DraftFails, DraftDecides, DraftDies, SendStep, Prepare,
         BeforeTransport, Post, RecordRequest, SenderDies, DraftJobLost, AskLost, SweepDraft, StopDead, SweepPending,
         Recheck, RecoverRequest, Resend, DecideOnDashboard, DecideInChannel, DecideBy, StopItem, Retry, Connect,
         Disconnect, ChannelChanges, deskVars, aroundVars
<1>3. resumes' = resumes \/ resumes' = 0 \/ (resumes' = resumes + 1 /\ resumes < MaxResumes)
  <2>1. CASE SweepDraft
    <3>1. claim # 0 /\ resumes >= MaxResumes => resumes' = resumes
      BY <2>1 DEF SweepDraft
    <3>2. ~(claim # 0 /\ resumes >= MaxResumes) => resumes' = IF claim = 0 THEN resumes ELSE resumes + 1
      BY <2>1 DEF SweepDraft
    <3> QED BY <3>1, <3>2 DEF DeskSpent
  <2>2. CASE Retry
    BY <2>2 DEF Retry
  <2>3. CASE ~SweepDraft /\ ~Retry
    BY <2>3 DEF DeskNext, DraftStep, ClaimDraft, StorePlan, DraftFails, DraftDecides, DraftDies, SendStep, Prepare,
         BeforeTransport, Post, RecordRequest, SenderDies, DraftJobLost, AskLost, StopDead, SweepPending,
         Recheck, RecoverRequest, Resend, DecideOnDashboard, DecideInChannel, DecideBy, StopItem, Connect,
         Disconnect, ChannelChanges, deskVars, itemVars, SendBack
  <2> QED BY <2>1, <2>2, <2>3
<1>4. resumes' \in 0..MaxResumes
  BY <1>3 DEF DeskSpent
<1> QED BY <1>1, <1>2, <1>4, SlipsOn, ChangesOn DEF DeskSpent

-----------------------------------------------------------------------------
\* What the row, the drafts, the senders and the messages name was given out.
GivenOut ==
  /\ plan <= claims /\ stopDue <= claims /\ failedFor <= claims
  /\ \A d \in Drafters : draft[d].claim <= claims
AskedOut ==
  /\ \A s \in Senders : send[s].plan <= claims /\ send[s].code <= codes
  /\ \A c \in Codes : dm[c] <= claims
  /\ asks \subseteq 0..codes /\ replaced \subseteq 1..codes

LEMMA DraftsMove ==
  ASSUME DraftInv, NEW d \in Drafters, DraftStep(d)
  PROVE  /\ claims' = claims \/ (ClaimDraft(d) /\ claims' = claims + 1 /\ claim' = claims')
         /\ \A e \in Drafters : draft'[e].claim \in {draft[e].claim, 0, claims'}
<1>1. draft \in [Drafters -> DraftRows]
  BY DEF DraftInv, DraftTypes
<1>2. CASE ClaimDraft(d)
  <2>1. CASE claims' = claims + 1
    <3>1. claim' = claims' /\ \E read \in {"no", "unread", "not-connected"} :
            draft' = [draft EXCEPT ![d] = [at |-> "drafting", claim |-> claims + 1, without |-> read]]
      BY <1>2, <2>1 DEF ClaimDraft, DraftInv, DraftTypes
    <3> QED BY <1>1, <1>2, <2>1, <3>1
  <2>2. CASE claims' # claims + 1
    BY <1>1, <1>2, <2>2 DEF ClaimDraft
  <2> QED BY <2>1, <2>2
<1>3. CASE StorePlan(d) \/ DraftFails(d) \/ DraftDecides(d) \/ DraftDies(d)
  <2>1. claims' = claims
        /\ (draft' = [draft EXCEPT ![d] = IdleDraft] \/ draft' = [draft EXCEPT ![d].at = "deciding"])
    BY <1>3 DEF StorePlan, DraftFails, DraftDecides, DraftDies
  <2> QED BY <1>1, <2>1, DraftRow DEF IdleDraft, DraftRows
<1> QED BY <1>2, <1>3 DEF DraftStep

LEMMA OthersKeepClaims ==
  ASSUME DeskNext \/ UNCHANGED deskVars, \A d \in Drafters : ~DraftStep(d)
  PROVE  draft' = draft /\ claims' = claims
BY DEF DeskNext, SendStep, Prepare, BeforeTransport, Post, RecordRequest, SenderDies, DraftJobLost, AskLost,
       SweepDraft, StopDead, SweepPending, Recheck, RecoverRequest, Resend, DecideOnDashboard, DecideInChannel,
       DecideBy, StopItem, Retry, Connect, Disconnect, ChannelChanges, deskVars

LEMMA RowMoves ==
  ASSUME DraftInv, [DeskNext]_deskVars
  PROVE  plan' \in {plan, 0, claim} /\ stopDue' \in {stopDue, 0, claim} /\ failedFor' \in {failedFor, 0, claim}
<1>1. ASSUME NEW d \in Drafters, DraftStep(d)
      PROVE  plan' \in {plan, 0, claim} /\ stopDue' \in {stopDue, 0, claim} /\ failedFor' \in {failedFor, 0, claim}
  BY <1>1 DEF DraftStep, ClaimDraft, StorePlan, MayStorePlan, SendBack, DraftFails, FailFor, DraftDecides, DraftDies,
              itemVars
<1>2. CASE \A d \in Drafters : ~DraftStep(d)
  BY <1>2 DEF DeskNext, SendStep, Prepare, BeforeTransport, Post, RecordRequest, SenderDies, DraftJobLost, AskLost,
              SweepDraft, StopDead, FailFor, SweepPending, Recheck, RecoverRequest, Resend, DecideOnDashboard,
              DecideInChannel, DecideBy, StopItem, Retry, Connect, SendBack, Disconnect, ChannelChanges, deskVars,
              itemVars
<1> QED BY <1>1, <1>2

LEMMA ClaimsGrow ==
  ASSUME DraftInv, [DeskNext]_deskVars
  PROVE  claims \in Nat /\ claims' \in {claims, claims + 1}
BY DraftsMove, OthersKeepClaims DEF DraftInv, DraftTypes

LEMMA GivenStep ==
  ASSUME DraftInv, GivenOut, [DeskNext]_deskVars
  PROVE  GivenOut'
<1>1. /\ claims \in Nat /\ claims' \in {claims, claims + 1} /\ claim <= claims /\ claim \in Nat /\ plan \in Nat
      /\ stopDue \in Nat /\ failedFor \in Nat
  BY ClaimsGrow DEF DraftInv, DraftTypes, DraftOrder
<1>2. plan' <= claims' /\ stopDue' <= claims' /\ failedFor' <= claims'
  BY <1>1, RowMoves DEF GivenOut
<1>3. ASSUME NEW d \in Drafters
      PROVE  draft'[d].claim <= claims'
  <2>1. draft[d].claim \in Nat /\ draft[d].claim <= claims
    BY DEF DraftInv, DraftTypes, DraftRows, GivenOut
  <2>2. draft'[d].claim \in {draft[d].claim, 0, claims'}
    BY DraftsMove, OthersKeepClaims
  <2> QED BY <1>1, <2>1, <2>2
<1> QED BY <1>2, <1>3 DEF GivenOut

-----------------------------------------------------------------------------
(* The codes. *)

\* What a step of the row may do to the requests, but for a Prepare.
AskMoves ==
  /\ codes' = codes /\ asks' \subseteq asks \cup {0, request.id}
  /\ replaced' \subseteq replaced \cup {request.id}
  /\ request.id = 0 => replaced' = replaced

LEMMA SentBackMoves ==
  ASSUME AskInv, SendBack
  PROVE  AskMoves /\ dm' = dm
BY RequestRow DEF SendBack, Remembered, Undecided, AskMoves, AskInv, AskTypes, AskOrder, RequestOrder, RequestRows

LEMMA AsksMove ==
  ASSUME AskInv, [DeskNext]_deskVars, \A s \in Senders : ~Prepare(s)
  PROVE  AskMoves
<1>1. ASSUME NEW d \in Drafters, DraftStep(d)
      PROVE  AskMoves
  <2>1. CASE SendBack
    BY <2>1, SentBackMoves
  <2>2. CASE ~SendBack
    BY <1>1, <2>2 DEF DraftStep, ClaimDraft, StorePlan, DraftFails, DraftDecides, DecidePlan, Ask, DraftDies, askVars, AskMoves
  <2> QED BY <2>1, <2>2
<1>2. ASSUME NEW s \in Senders, BeforeTransport(s) \/ Post(s) \/ RecordRequest(s) \/ SenderDies(s)
      PROVE  AskMoves
  BY <1>2 DEF BeforeTransport, Post, RecordRequest, SenderDies, askVars, AskMoves
<1>3. CASE DraftJobLost \/ AskLost \/ SweepDraft \/ StopDead \/ SweepPending \/ Recheck
  BY <1>3 DEF DraftJobLost, AskLost, SweepDraft, StopDead, SweepPending, Recheck, DecidePlan, Ask, askVars, AskMoves
<1>4. CASE RecoverRequest \/ Resend \/ DecideOnDashboard \/ DecideInChannel \/ StopItem
  BY <1>4 DEF RecoverRequest, Resend, Supersede, DecideOnDashboard, DecideInChannel, DecideBy, StopItem, askVars, AskMoves
<1>5. CASE Retry
  <2>1. codes' = codes /\ asks' = asks /\ replaced' = IF request = NoRequest THEN replaced ELSE replaced \cup {request.id}
    BY <1>5 DEF Retry
  <2>2. request.id = 0 => request = NoRequest
    BY DEF AskInv, AskOrder, RequestOrder
  <2> QED BY <2>1, <2>2 DEF AskMoves
<1>6. CASE Connect
  <2>1. CASE SendBack
    BY <2>1, SentBackMoves
  <2>2. CASE UNCHANGED askVars
    BY <2>2 DEF askVars, AskMoves
  <2> QED BY <1>6, <2>1, <2>2 DEF Connect
<1>7. CASE Disconnect \/ ChannelChanges \/ UNCHANGED deskVars
  BY <1>7 DEF Disconnect, ChannelChanges, deskVars, askVars, AskMoves
<1> QED BY <1>1, <1>2, <1>3, <1>4, <1>5, <1>6, <1>7 DEF DeskNext, SendStep

LEMMA SendersMove ==
  ASSUME AskInv, [DeskNext]_deskVars, \A s \in Senders : ~Prepare(s)
  PROVE  \A t \in Senders : \/ send'[t].plan = send[t].plan /\ send'[t].code = send[t].code
                            \/ send'[t] = IdleSend
<1>0. send \in [Senders -> SendRows]
  BY DEF AskInv, AskTypes
<1>1. ASSUME NEW s \in Senders, BeforeTransport(s) \/ Post(s)
      PROVE  \A t \in Senders : send'[t].plan = send[t].plan /\ send'[t].code = send[t].code
  <2>1. \E at \in {"cleared", "posted", "refused"} : send' = [send EXCEPT ![s].at = at]
    BY <1>1 DEF BeforeTransport, Post
  <2> QED BY <1>0, <2>1 DEF SendRows
<1>2. ASSUME NEW s \in Senders, RecordRequest(s) \/ SenderDies(s)
      PROVE  \A t \in Senders : send'[t] = send[t] \/ send'[t] = IdleSend
  <2>1. send' = [send EXCEPT ![s] = IdleSend]
    BY <1>2 DEF RecordRequest, SenderDies
  <2> QED BY <1>0, <2>1
<1>3. CASE \A s \in Senders : ~SendStep(s) /\ ~SenderDies(s)
  <2>1. send' = send
    BY <1>3 DEF DeskNext, DraftStep, ClaimDraft, StorePlan, DraftFails, DraftDecides, DraftDies, DraftJobLost, AskLost,
       SweepDraft, StopDead, SweepPending, Recheck, RecoverRequest, Resend, DecideOnDashboard, DecideInChannel,
       DecideBy, StopItem, Retry, Connect, Disconnect, ChannelChanges, deskVars
  <2> QED BY <2>1
<1> QED BY <1>1, <1>2, <1>3 DEF SendStep

LEMMA MessagesMove ==
  ASSUME AskInv, [DeskNext]_deskVars
  PROVE  \A c \in Codes : dm'[c] = dm[c] \/ \E s \in Senders : dm'[c] = send[s].plan
<1>1. ASSUME NEW s \in Senders, Post(s)
      PROVE  \A c \in Codes : dm'[c] = dm[c] \/ dm'[c] = send[s].plan
  <2>1. dm' = dm \/ dm' = [dm EXCEPT ![send[s].code] = send[s].plan]
    BY <1>1 DEF Post
  <2> QED BY <2>1 DEF AskInv, AskTypes
<1>2. CASE \A s \in Senders : ~Post(s)
  <2>1. dm' = dm
    BY <1>2, SentBackMoves DEF DeskNext, DraftStep, ClaimDraft, StorePlan, DraftFails, DraftDecides, DraftDies, SendStep, Prepare,
       BeforeTransport, RecordRequest, SenderDies, DraftJobLost, AskLost,
       SweepDraft, StopDead, SweepPending, Recheck, RecoverRequest, Resend, DecideOnDashboard, DecideInChannel,
       DecideBy, StopItem, Retry, Connect, Disconnect, ChannelChanges, deskVars, askVars
  <2> QED BY <2>1
<1> QED BY <1>1, <1>2

\* A sender prepares nothing, or gives out the next code.
GivesCode(s, a) ==
  /\ a \in asks /\ asks' = asks \ {a} /\ itemState = "plan-pending"
  /\ request = NoRequest \/ (request # NoRequest /\ request.id = a)
  /\ codes' = codes + 1 /\ request' = [NoRequest EXCEPT !.id = codes + 1] /\ replaced' = Remembered(request)
  /\ send' = [send EXCEPT ![s] = [at |-> "prepared", code |-> codes + 1, plan |-> plan]]

LEMMA PrepareCases ==
  ASSUME AskInv, NEW s \in Senders, Prepare(s)
  PROVE  /\ UNCHANGED <<itemState, plan, dm, changes, slips, connected>>
         /\ \/ asks' \subseteq asks /\ UNCHANGED <<request, replaced, codes, send>>
            \/ \E a \in asks : GivesCode(s, a)
<1>1. UNCHANGED <<itemState, plan, dm, changes, slips, connected>>
  BY DEF Prepare, itemVars, aroundVars
<1>2. PICK a \in asks :
        /\ asks' = asks \ {a}
        /\ IF \/ itemState # "plan-pending" \/ ~channel
              \/ Undecided(request) /\ request.id # a
              \/ Undecided(request) /\ request.ts /\ ~request.failed
           THEN UNCHANGED <<request, replaced, timer, codes, send>>
           ELSE /\ codes' = codes + 1
                /\ request' = [NoRequest EXCEPT !.id = codes + 1]
                /\ replaced' = Remembered(request) /\ timer' = Armed
                /\ send' = [send EXCEPT ![s] = [at |-> "prepared", code |-> codes + 1, plan |-> plan]]
  BY DEF Prepare
<1>3. CASE UNCHANGED <<request, replaced, codes, send>>
  BY <1>1, <1>2, <1>3
<1>4. CASE ~UNCHANGED <<request, replaced, codes, send>>
  <2>1. /\ itemState = "plan-pending" /\ ~(Undecided(request) /\ request.id # a)
        /\ codes' = codes + 1 /\ request' = [NoRequest EXCEPT !.id = codes + 1] /\ replaced' = Remembered(request)
        /\ send' = [send EXCEPT ![s] = [at |-> "prepared", code |-> codes + 1, plan |-> plan]]
    BY <1>2, <1>4
  <2>2. request = NoRequest \/ (request # NoRequest /\ request.id = a)
    BY <2>1 DEF Undecided, AskInv, AskOrder, RequestOrder
  <2> QED BY <1>1, <1>2, <2>1, <2>2 DEF GivesCode
<1> QED BY <1>3, <1>4

LEMMA CodesNat ==
  ASSUME AskInv
  PROVE  codes \in Nat /\ request.id \in Nat /\ request.id <= codes /\ (request.id = 0 <=> request = NoRequest)
BY RequestRow DEF AskInv, AskTypes, AskOrder, RequestOrder, RequestRows

LEMMA GivenCode ==
  ASSUME AskInv, NEW s \in Senders, NEW a, GivesCode(s, a)
  PROVE  \A t \in Senders : /\ send'[t] = IF t = s THEN [at |-> "prepared", code |-> codes + 1, plan |-> plan] ELSE send[t]
                            /\ send'[s].code = codes + 1 /\ send'[s].plan = plan
BY DEF GivesCode, AskInv, AskTypes

LEMMA RememberedCodes ==
  ASSUME AskInv, AskedOut
  PROVE  Remembered(request) \subseteq 1..codes
<1>1. Undecided(request) => request.id \in 1..codes
  BY CodesNat DEF Undecided
<1> QED BY <1>1 DEF Remembered, AskedOut

LEMMA AskedStep ==
  ASSUME DraftInv, AskInv, GivenOut, AskedOut, [DeskNext]_deskVars
  PROVE  AskedOut'
<1>1. claims \in Nat /\ claims' \in Nat /\ claims <= claims' /\ plan \in Nat /\ plan <= claims
  BY ClaimsGrow DEF DraftInv, DraftTypes, GivenOut
<1>2. \A s \in Senders : send[s].plan \in Nat /\ send[s].code \in Nat /\ send[s].plan <= claims /\ send[s].code <= codes
  BY DEF AskInv, AskTypes, SendRows, AskedOut
<1>3. \A c \in Codes : dm'[c] <= claims'
  <2> SUFFICES ASSUME NEW c \in Codes PROVE dm'[c] <= claims'
    OBVIOUS
  <2>1. dm[c] \in Nat /\ dm[c] <= claims
    BY DEF AskInv, AskTypes, AskedOut
  <2>2. dm'[c] = dm[c] \/ \E s \in Senders : dm'[c] = send[s].plan
    BY MessagesMove
  <2> QED BY <1>1, <1>2, <2>1, <2>2
<1>4. CASE \A s \in Senders : ~Prepare(s)
  <2>1. AskMoves
    BY <1>4, AsksMove
  <2>2. asks' \subseteq 0..codes' /\ replaced' \subseteq 1..codes'
    <3>1. codes' = codes /\ asks' \subseteq asks \cup {0, request.id} /\ asks \subseteq 0..codes
      BY <2>1 DEF AskMoves, AskedOut
    <3>2. 0 \in 0..codes /\ request.id \in 0..codes /\ (request.id # 0 => request.id \in 1..codes)
      BY CodesNat
    <3>3. replaced' \subseteq 1..codes
      BY <2>1, <3>2 DEF AskMoves, AskedOut
    <3> QED BY <3>1, <3>2, <3>3
  <2>3. \A t \in Senders : send'[t].plan <= claims' /\ send'[t].code <= codes'
    <3> SUFFICES ASSUME NEW t \in Senders PROVE send'[t].plan <= claims' /\ send'[t].code <= codes'
      OBVIOUS
    <3>1. codes' = codes /\ codes \in Nat
      BY <2>1, CodesNat DEF AskMoves
    <3>2. (send'[t].plan = send[t].plan /\ send'[t].code = send[t].code) \/ send'[t] = IdleSend
      BY <1>4, SendersMove
    <3>3. IdleSend.plan = 0 /\ IdleSend.code = 0
      BY DEF IdleSend
    <3> QED BY <1>1, <1>2, <3>1, <3>2, <3>3
  <2> QED BY <1>3, <2>2, <2>3 DEF AskedOut
<1>5. ASSUME NEW s \in Senders, Prepare(s)
      PROVE  AskedOut'
  <2>1. CASE asks' \subseteq asks /\ UNCHANGED <<request, replaced, codes, send>>
    <3>1. \A t \in Senders : send'[t].plan <= claims' /\ send'[t].code <= codes'
      <4> SUFFICES ASSUME NEW t \in Senders PROVE send'[t].plan <= claims' /\ send'[t].code <= codes'
        OBVIOUS
      <4>1. send'[t] = send[t] /\ codes' = codes
        BY <2>1
      <4> QED BY <1>1, <1>2, <4>1
    <3> QED BY <1>3, <2>1, <3>1 DEF AskedOut
  <2>2. ASSUME NEW a \in asks, GivesCode(s, a)
        PROVE  AskedOut'
    <3>1. codes \in Nat /\ codes' = codes + 1
      BY <2>2, CodesNat DEF GivesCode
    <3>2. \A t \in Senders : send'[t].plan <= claims' /\ send'[t].code <= codes'
      <4> SUFFICES ASSUME NEW t \in Senders PROVE send'[t].plan <= claims' /\ send'[t].code <= codes'
        OBVIOUS
      <4>1. CASE t = s
        BY <1>1, <2>2, <3>1, <4>1, GivenCode
      <4>2. CASE t # s
        <5>1. send'[t] = send[t]
          BY <2>2, <4>2, GivenCode
        <5> QED BY <1>1, <1>2, <3>1, <5>1
      <4> QED BY <4>1, <4>2
    <3>3. 0..codes \subseteq 0..codes' /\ 1..codes \subseteq 1..codes'
      BY <3>1
    <3>4. asks' \subseteq 0..codes' /\ replaced' \subseteq 1..codes'
      BY <2>2, <3>3, RememberedCodes DEF GivesCode, AskedOut
    <3> QED BY <1>3, <3>2, <3>4 DEF AskedOut
  <2> QED BY <1>5, <2>1, <2>2, PrepareCases
<1> QED BY <1>4, <1>5

-----------------------------------------------------------------------------
(* What may still be claimed. *)

\* A draft under way was begun without the item's system: its plan may be sent back.
Unsettled(d) == draft[d].at = "drafting" /\ draft[d].claim = claim /\ draft[d].without = "not-connected"
\* A connection may still send the row back.
MayConnect == ~connected \/ \E d \in Drafters : Unsettled(d)
Restarts == (MaxChanges - changes) + (IF MayConnect THEN 1 ELSE 0)
DraftsLeft == (MaxResumes - resumes) + (IF itemState = "claimed" /\ (draftJob \/ claim = 0) THEN 1 ELSE 0)
ClaimBudget == claims + Restarts * (MaxResumes + 1) + DraftsLeft <= (MaxChanges + 2) * (MaxResumes + 1)

LEMMA Scaled ==
  ASSUME NEW a \in Nat, NEW b \in Nat, NEW k \in Nat, a <= b
  PROVE  a * k <= b * k /\ (a < b => a * k + k <= b * k)
<1>1. PICK d \in Nat : b = a + d
  <2>1. b - a \in Nat /\ b = a + (b - a)
    OBVIOUS
  <2> QED BY <2>1
<1>2. b * k = a * k + d * k /\ a * k \in Nat /\ d * k \in Nat
  BY <1>1
<1>3. ASSUME a < b
      PROVE  a * k + k <= b * k
  <2>1. d \in Nat /\ d # 0
    BY <1>1, <1>3
  <2>2. PICK e \in Nat : d = e + 1
    <3>1. d - 1 \in Nat /\ d = (d - 1) + 1
      BY <2>1
    <3> QED BY <3>1
  <2>3. d * k = e * k + k /\ e * k \in Nat
    BY <2>2
  <2> QED BY <1>2, <2>3
<1> QED BY <1>2, <1>3

LEMMA BudgetTypes ==
  ASSUME DraftInv, DeskSpent
  PROVE  claims \in Nat /\ Restarts \in Nat /\ DraftsLeft \in Nat /\ DraftsLeft >= MaxResumes - resumes
BY DEF DraftInv, DraftTypes, DeskSpent, Restarts, DraftsLeft

LEMMA BudgetTypesNext ==
  ASSUME DraftInv', DeskSpent'
  PROVE  claims' \in Nat /\ Restarts' \in Nat /\ DraftsLeft' \in Nat
<1>1. claims' \in Nat /\ changes' \in 0..MaxChanges /\ resumes' \in 0..MaxResumes
  BY DEF DraftInv, DraftTypes, DeskSpent
<1>2. Restarts' = MaxChanges - changes' + 1 \/ Restarts' = MaxChanges - changes'
  BY <1>1 DEF Restarts
<1>3. DraftsLeft' = MaxResumes - resumes' + 1 \/ DraftsLeft' = MaxResumes - resumes'
  BY <1>1 DEF DraftsLeft
<1> QED BY <1>1, <1>2, <1>3

\* The sum, whatever the numbers are: spent, restarts and drafts left.
LEMMA Sums ==
  ASSUME NEW c \in Nat, NEW r \in Nat, NEW d \in Nat, NEW k \in Nat, NEW b,
         NEW c2 \in Nat, NEW r2 \in Nat, NEW d2 \in Nat, b \in Nat, c + r * k + d <= b,
         \/ r2 <= r /\ c2 + d2 <= c + d
         \/ r2 < r /\ c2 = c /\ d2 <= d + k
  PROVE  c2 + r2 * k + d2 <= b
<1>1. r2 <= r
  OBVIOUS
<1>2. r2 * k <= r * k /\ r2 * k \in Nat /\ r * k \in Nat /\ (r2 < r => r2 * k + k <= r * k)
  BY <1>1, Scaled
<1> DEFINE x == r * k
           y == r2 * k
<1>3. x \in Nat /\ y \in Nat /\ y <= x /\ (r2 < r => y + k <= x) /\ c + x + d <= b
  BY <1>2
<1> HIDE DEF x, y
<1>4. c2 + y + d2 <= b
  BY <1>3
<1> QED BY <1>4 DEF y

\* What is claimed, or wasted, comes out of what is left.
LEMMA BudgetKept ==
  ASSUME DraftInv, DeskSpent, DraftInv', DeskSpent', ClaimBudget, Restarts' <= Restarts,
         claims' + DraftsLeft' <= claims + DraftsLeft
  PROVE  ClaimBudget'
<1>1. MaxResumes + 1 \in Nat /\ (MaxChanges + 2) * (MaxResumes + 1) \in Nat
  OBVIOUS
<1> QED BY <1>1, BudgetTypes, BudgetTypesNext, Sums DEF ClaimBudget

\* A row that is sent back has its drafts anew, out of a restart.
LEMMA BudgetRestarted ==
  ASSUME DraftInv, DeskSpent, DraftInv', DeskSpent', ClaimBudget, Restarts' < Restarts,
         claims' = claims, resumes' = resumes \/ resumes' = 0
  PROVE  ClaimBudget'
<1>1. MaxResumes + 1 \in Nat /\ (MaxChanges + 2) * (MaxResumes + 1) \in Nat
  OBVIOUS
<1>2. DraftsLeft' <= DraftsLeft + (MaxResumes + 1)
  <2>1. resumes \in 0..MaxResumes /\ resumes' \in 0..MaxResumes
    BY DEF DeskSpent
  <2>2. DraftsLeft' = MaxResumes - resumes' + 1 \/ DraftsLeft' = MaxResumes - resumes'
    BY <2>1 DEF DraftsLeft
  <2> QED BY <2>1, <2>2, BudgetTypes
<1> QED BY <1>1, <1>2, BudgetTypes, BudgetTypesNext, Sums DEF ClaimBudget

\* The drafts that go on are the ones there were.
NoneBegun == \A d \in Drafters : draft'[d].at = "drafting" => draft'[d] = draft[d]

LEMMA OnlyIdled ==
  ASSUME DraftInv, draft' = draft \/ \E d \in Drafters : draft' = [draft EXCEPT ![d] = IdleDraft]
                                                         \/ draft' = [draft EXCEPT ![d].at = "deciding"]
  PROVE  NoneBegun
<1>1. draft \in [Drafters -> DraftRows]
  BY DEF DraftInv, DraftTypes
<1>2. CASE draft' = draft
  BY <1>2 DEF NoneBegun
<1>3. ASSUME NEW d \in Drafters, draft' = [draft EXCEPT ![d] = IdleDraft] \/ draft' = [draft EXCEPT ![d].at = "deciding"]
      PROVE  NoneBegun
  BY <1>1, <1>3 DEF NoneBegun, IdleDraft, DraftRows
<1> QED BY <1>2, <1>3

\* A draft that may be sent back was one before, unless its system went.
LEMMA MayConnectKept ==
  ASSUME DraftInv', NoneBegun, claim' \in {claim, 0}
  PROVE  /\ (MayConnect)' => MayConnect \/ ~connected'
         /\ claim' = 0 /\ connected' => ~(MayConnect)'
<1>1. ASSUME NEW d \in Drafters, draft'[d].at = "drafting", draft'[d].claim = claim', draft'[d].without = "not-connected"
      PROVE  claim' # 0 /\ Unsettled(d)
  <2>1. draft'[d] = draft[d]
    BY <1>1 DEF NoneBegun
  <2>2. claim' # 0
    BY <1>1 DEF DraftInv, DraftOrder
  <2> QED BY <1>1, <2>1, <2>2 DEF Unsettled
<1> QED BY <1>1 DEF MayConnect, Unsettled

LEMMA RestartsKept ==
  ASSUME DeskSpent, changes' = changes, (MayConnect)' => MayConnect
  PROVE  Restarts' <= Restarts
<1>1. changes \in Nat
  BY DEF DeskSpent
<1>2. CASE (MayConnect)'
  BY <1>1, <1>2 DEF Restarts
<1>3. CASE ~(MayConnect)'
  BY <1>1, <1>3 DEF Restarts
<1> QED BY <1>2, <1>3

\* A step that begins no draft and gives the row back to none.
LEMMA BudgetQuiet ==
  ASSUME DraftInv, DeskSpent, DraftInv', DeskSpent', ClaimBudget, NoneBegun,
         UNCHANGED <<claims, resumes, changes, connected>>,
         claim' = claim \/ (claim' = 0 /\ itemState' # "claimed"),
         itemState' = "claimed" => itemState = "claimed", draftJob' => draftJob
  PROVE  ClaimBudget'
<1>1. Restarts' <= Restarts
  <2>1. (MayConnect)' => MayConnect
    BY MayConnectKept DEF MayConnect
  <2> QED BY <2>1, RestartsKept
<1>2. DraftsLeft' <= DraftsLeft
  <2>1. resumes \in Nat /\ resumes' = resumes
    BY DEF DeskSpent
  <2>2. (itemState' = "claimed" /\ (draftJob' \/ claim' = 0)) => (itemState = "claimed" /\ (draftJob \/ claim = 0))
    OBVIOUS
  <2> QED BY <2>1, <2>2 DEF DraftsLeft
<1>3. claims' + DraftsLeft' <= claims + DraftsLeft
  BY <1>2, BudgetTypes, BudgetTypesNext
<1> QED BY <1>1, <1>3, BudgetKept

LEMMA BudgetSentBack ==
  ASSUME DraftInv, DeskSpent, DraftInv', DeskSpent', ClaimBudget, NoneBegun, SendBack,
         UNCHANGED <<claims, changes>>, MayConnect, connected'
  PROVE  ClaimBudget'
<1>1. claim' = 0 /\ resumes' = resumes
  BY DEF SendBack
<1>2. ~(MayConnect)'
  BY <1>1, MayConnectKept
<1>3. Restarts' < Restarts
  BY <1>2 DEF Restarts, DeskSpent
<1> QED BY <1>1, <1>3, BudgetRestarted

LEMMA BudgetClaims ==
  ASSUME DraftInv, DeskSpent, DraftInv', DeskSpent', GivenOut, ClaimBudget, NEW d \in Drafters, ClaimDraft(d)
  PROVE  ClaimBudget'
<1>1. draft \in [Drafters -> DraftRows] /\ claims \in Nat
  BY DEF DraftInv, DraftTypes
<1>2. UNCHANGED <<itemState, resumes, changes, connected>> /\ draftJob /\ ~draftJob'
  BY Zenon DEF ClaimDraft, aroundVars
<1>3. CASE itemState = "claimed" /\ ~LiveClaim
  <2>1. PICK read \in IF connected THEN {"no", "unread"} ELSE {"not-connected"} :
          draft' = [draft EXCEPT ![d] = [at |-> "drafting", claim |-> claims + 1, without |-> read]]
    BY <1>3 DEF ClaimDraft
  <2>2. claims' = claims + 1 /\ claim' = claims + 1
    BY <1>3 DEF ClaimDraft
  <2>3. connected => ~(MayConnect)'
    <3> SUFFICES ASSUME connected, NEW e \in Drafters,
                        draft'[e].at = "drafting", draft'[e].claim = claim', draft'[e].without = "not-connected"
                 PROVE  FALSE
      BY <1>2 DEF MayConnect, Unsettled
    <3>1. CASE e = d
      BY <1>1, <2>1, <3>1
    <3>2. CASE e # d
      <4>1. draft'[e] = draft[e] /\ draft[e].claim \in Nat /\ draft[e].claim <= claims
        BY <1>1, <2>1, <3>2 DEF GivenOut, DraftRows
      <4> QED BY <1>1, <2>2, <4>1
    <3> QED BY <3>1, <3>2
  <2>4. (MayConnect)' => MayConnect
    BY <1>2, <2>3 DEF MayConnect
  <2>5. Restarts' <= Restarts
    BY <1>2, <2>4, RestartsKept
  <2>6. DraftsLeft = MaxResumes - resumes + 1
    BY <1>2, <1>3 DEF DraftsLeft
  <2>7. DraftsLeft' = MaxResumes - resumes
    <3>1. claim' # 0
      BY <1>1, <2>2
    <3> QED BY <1>2, <3>1, BudgetTypes DEF DraftsLeft, DeskSpent
  <2>8. claims' + DraftsLeft' <= claims + DraftsLeft
    BY <1>1, <2>2, <2>6, <2>7 DEF DeskSpent
  <2> QED BY <2>5, <2>8, BudgetKept
<1>4. CASE ~(itemState = "claimed" /\ ~LiveClaim)
  <2>1. UNCHANGED <<claims, claim, draft>>
    BY <1>4 DEF ClaimDraft
  <2>2. NoneBegun
    BY <2>1, OnlyIdled
  <2> QED BY <1>2, <2>1, <2>2, BudgetQuiet
<1> QED BY <1>3, <1>4

LEMMA BudgetStores ==
  ASSUME DraftInv, DeskSpent, DraftInv', DeskSpent', ClaimBudget, NEW d \in Drafters, StorePlan(d)
  PROVE  ClaimBudget'
<1>1. NoneBegun
  <2>1. draft' = [draft EXCEPT ![d] = IdleDraft] \/ draft' = [draft EXCEPT ![d].at = "deciding"]
    BY DEF StorePlan
  <2> QED BY <2>1, OnlyIdled
<1>2. UNCHANGED <<claims, changes, connected>>
  BY DEF StorePlan, aroundVars
<1>3. CASE ~MayStorePlan(d)
  BY <1>1, <1>2, <1>3, BudgetQuiet DEF StorePlan, itemVars
<1>4. CASE MayStorePlan(d) /\ draft[d].without = "not-connected" /\ connected
  <2>1. SendBack /\ MayConnect
    BY <1>4 DEF StorePlan, MayStorePlan, MayConnect, Unsettled
  <2> QED BY <1>1, <1>2, <1>4, <2>1, BudgetSentBack
<1>5. CASE MayStorePlan(d) /\ ~(draft[d].without = "not-connected" /\ connected)
  <2>1. itemState' = "plan-pending" /\ claim' = 0 /\ UNCHANGED <<resumes, draftJob>>
    BY <1>5 DEF StorePlan
  <2> QED BY <1>1, <1>2, <2>1, BudgetQuiet
<1> QED BY <1>3, <1>4, <1>5

LEMMA BudgetDrafts ==
  ASSUME DraftInv, DeskSpent, DraftInv', DeskSpent', GivenOut, ClaimBudget, NEW d \in Drafters, DraftStep(d)
  PROVE  ClaimBudget'
<1>1. CASE DraftFails(d) \/ DraftDecides(d) \/ DraftDies(d)
  <2>1. NoneBegun
    BY <1>1, OnlyIdled DEF DraftFails, DraftDecides, DraftDies
  <2>2. UNCHANGED <<claims, resumes, changes, connected, claim, draftJob>>
    BY <1>1, Zenon DEF DraftFails, DraftDecides, DraftDies, itemVars, aroundVars
  <2>3. itemState' = "claimed" => itemState = "claimed"
    BY <1>1 DEF DraftFails, FailFor, DraftDecides, DecidePlan, DraftDies, itemVars
  <2> QED BY <2>1, <2>2, <2>3, BudgetQuiet
<1> QED BY <1>1, BudgetClaims, BudgetStores DEF DraftStep

LEMMA BudgetSwept ==
  ASSUME DraftInv, DeskSpent, DraftInv', DeskSpent', ClaimBudget, SweepDraft
  PROVE  ClaimBudget'
<1>1. UNCHANGED <<itemState, claim, claims, changes, connected, draft>> /\ itemState = "claimed"
  BY DEF SweepDraft, aroundVars
<1>2. NoneBegun
  BY <1>1, OnlyIdled
<1>3. CASE UNCHANGED <<resumes, draftJob>>
  BY <1>1, <1>2, <1>3, BudgetQuiet
<1>4. CASE /\ ~(claim # 0 /\ resumes >= MaxResumes) /\ draftJob'
           /\ resumes' = IF claim = 0 THEN resumes ELSE resumes + 1
  <2>1. Restarts' <= Restarts
    <3>1. (MayConnect)' => MayConnect
      BY <1>1, <1>2, MayConnectKept DEF MayConnect
    <3> QED BY <1>1, <3>1, RestartsKept
  <2>2. DraftsLeft' <= DraftsLeft
    <3>1. resumes \in Nat /\ DraftsLeft' = MaxResumes - resumes' + 1
      BY <1>1, <1>4 DEF DraftsLeft, DeskSpent
    <3>2. CASE claim = 0
      <4>1. resumes' = resumes /\ DraftsLeft = MaxResumes - resumes + 1
        BY <1>1, <1>4, <3>2 DEF DraftsLeft
      <4> QED BY <3>1, <4>1
    <3>3. CASE claim # 0
      <4>1. resumes' = resumes + 1
        BY <1>4, <3>3
      <4> QED BY <3>1, <4>1, BudgetTypes
    <3> QED BY <3>2, <3>3
  <2>3. claims' + DraftsLeft' <= claims + DraftsLeft
    BY <1>1, <2>2, BudgetTypes, BudgetTypesNext
  <2> QED BY <2>1, <2>3, BudgetKept
<1> QED BY <1>3, <1>4 DEF SweepDraft

LEMMA BudgetRetried ==
  ASSUME DraftInv, DeskSpent, DraftInv', DeskSpent', ClaimBudget, Retry
  PROVE  ClaimBudget'
<1>1. /\ UNCHANGED <<claims, connected, draft>> /\ claim' = 0 /\ resumes' = 0
      /\ changes' = changes + 1
  BY DEF Retry, Change
<1>2. NoneBegun
  BY <1>1, OnlyIdled
<1>3. (MayConnect)' => MayConnect
  BY <1>1, <1>2, MayConnectKept DEF MayConnect
<1>4. changes \in Nat
  BY DEF DeskSpent
<1>5. Restarts' < Restarts
  <2>1. CASE (MayConnect)'
    BY <1>1, <1>3, <1>4, <2>1 DEF Restarts
  <2>2. CASE ~(MayConnect)'
    BY <1>1, <1>4, <2>2 DEF Restarts
  <2> QED BY <2>1, <2>2
<1> QED BY <1>1, <1>5, BudgetRestarted

LEMMA BudgetConnection ==
  ASSUME DraftInv, DeskSpent, DraftInv', DeskSpent', ClaimBudget, Connect \/ Disconnect
  PROVE  ClaimBudget'
<1>1. UNCHANGED <<claims, draft>>
  BY DEF Connect, Disconnect
<1>2. NoneBegun
  BY <1>1, OnlyIdled
<1>3. CASE Connect /\ SendBack
  BY <1>1, <1>2, <1>3, BudgetSentBack DEF Connect, MayConnect
<1>4. CASE (Connect /\ ~SendBack) \/ Disconnect
  <2>1. UNCHANGED <<itemState, claim, resumes, draftJob>>
    BY <1>4 DEF Connect, Disconnect, itemVars
  <2>2. Restarts' <= Restarts
    <3>1. CASE Connect
      <4>1. MayConnect /\ changes' = changes
        BY <3>1 DEF Connect, MayConnect
      <4> QED BY <4>1, RestartsKept
    <3>2. CASE Disconnect
      <4>1. changes' = changes + 1 /\ changes \in Nat
        BY <3>2 DEF Disconnect, Change, DeskSpent
      <4>2. CASE (MayConnect)'
        BY <4>1, <4>2 DEF Restarts
      <4>3. CASE ~(MayConnect)'
        BY <4>1, <4>3 DEF Restarts
      <4> QED BY <4>2, <4>3
    <3> QED BY <1>4, <3>1, <3>2
  <2>3. DraftsLeft' = DraftsLeft
    BY <2>1 DEF DraftsLeft
  <2> QED BY <1>1, <2>2, <2>3, BudgetKept, BudgetTypes
<1> QED BY <1>3, <1>4

LEMMA BudgetStep ==
  ASSUME DraftInv, DeskSpent, GivenOut, ClaimBudget, [DeskNext]_deskVars
  PROVE  ClaimBudget'
<1>1. DraftInv' /\ DeskSpent'
  BY DraftStays, SpentStep
<1>2. ASSUME NEW d \in Drafters, DraftStep(d)
      PROVE  ClaimBudget'
  BY <1>1, <1>2, BudgetDrafts
<1>3. CASE SweepDraft \/ Retry \/ Connect \/ Disconnect
  BY <1>1, <1>3, BudgetSwept, BudgetRetried, BudgetConnection
<1>4. CASE \E s \in Senders : SendStep(s) \/ SenderDies(s)
  <2>1. UNCHANGED <<claims, resumes, changes, connected, claim, draftJob, itemState, draft>>
    BY <1>4 DEF SendStep, Prepare, BeforeTransport, Post, RecordRequest, SenderDies, itemVars, aroundVars
  <2> QED BY <1>1, <2>1, OnlyIdled, BudgetQuiet
<1>5. CASE \/ DraftJobLost \/ AskLost \/ StopDead \/ SweepPending \/ Recheck \/ RecoverRequest
           \/ DecideOnDashboard \/ DecideInChannel \/ StopItem \/ UNCHANGED deskVars
  <2>1. UNCHANGED <<claims, resumes, changes, connected, claim, draft>>
    BY <1>5 DEF DraftJobLost, AskLost, StopDead, SweepPending, Recheck, RecoverRequest, DecideOnDashboard,
       DecideInChannel, DecideBy, StopItem, itemVars, aroundVars, deskVars
  <2>3. draftJob' => draftJob
    BY <1>5 DEF DraftJobLost, AskLost, StopDead, SweepPending, Recheck, RecoverRequest, DecideOnDashboard,
       DecideInChannel, DecideBy, StopItem, itemVars, aroundVars, deskVars
  <2>2. itemState' = "claimed" => itemState = "claimed"
    BY <1>5 DEF DraftJobLost, AskLost, StopDead, FailFor, SweepPending, Recheck, DecidePlan, RecoverRequest,
       DecideOnDashboard, DecideInChannel, DecideBy, StopItem, itemVars, deskVars
  <2> QED BY <1>1, <2>1, <2>2, <2>3, OnlyIdled, BudgetQuiet
<1>6. CASE Resend \/ ChannelChanges
  <2>1. /\ UNCHANGED <<claims, resumes, connected, claim, draft, draftJob, itemState>>
        /\ changes' = changes + 1
    BY <1>6 DEF Resend, ChannelChanges, Change, itemVars
  <2>2. (MayConnect)' = MayConnect
    BY <2>1 DEF MayConnect, Unsettled
  <2>3. changes \in Nat
    BY DEF DeskSpent
  <2>4. Restarts' <= Restarts /\ DraftsLeft' = DraftsLeft
    BY <2>1, <2>2, <2>3 DEF Restarts, DraftsLeft
  <2> QED BY <1>1, <2>1, <2>4, BudgetKept, BudgetTypes
<1> QED BY <1>2, <1>3, <1>4, <1>5, <1>6 DEF DeskNext

-----------------------------------------------------------------------------
(* What codes may still be given out. *)

Credit(b) == IF b THEN 1 ELSE 0
\* The row's plan, or the one it is being drafted, has no request yet.
AskDue == request = NoRequest /\ itemState \in {"claimed", "plan-pending"}
\* The row's request is superseded, or its switch finds no one sending it.
MayReissue ==
  /\ request # NoRequest
  /\ request.id \in asks \/ (~request.ts /\ ~request.failed /\ \A s \in Senders : send[s].code # request.id)
CodesLeft ==
  (MaxChanges - changes) + (MaxSlips - slips) + Credit(~connected) + Credit(AskDue) + Credit(MayReissue)
CodeBudget == codes + CodesLeft <= MaxChanges + MaxSlips + 2

\* The credits of the row before a step and after it.
LEMMA CreditsAre ==
  ASSUME DeskSpent, DeskSpent'
  PROVE  /\ changes \in Nat /\ changes <= MaxChanges /\ changes' \in Nat /\ changes' <= MaxChanges
         /\ slips \in Nat /\ slips <= MaxSlips /\ slips' \in Nat /\ slips' <= MaxSlips
         /\ Credit(~connected) = (IF connected THEN 0 ELSE 1) /\ Credit(~connected') = (IF connected' THEN 0 ELSE 1)
         /\ Credit(AskDue) = (IF AskDue THEN 1 ELSE 0) /\ Credit(AskDue') = (IF AskDue' THEN 1 ELSE 0)
         /\ Credit(MayReissue) = (IF MayReissue THEN 1 ELSE 0) /\ Credit(MayReissue') = (IF MayReissue' THEN 1 ELSE 0)
BY DEF DeskSpent, Credit

LEMMA CodesNatNext ==
  ASSUME AskInv'
  PROVE  request'.id = 0 <=> request' = NoRequest
BY RequestRow DEF AskInv, AskOrder, RequestOrder

\* A step that earns no credit.
LEMMA CodesQuiet ==
  ASSUME AskInv, AskInv', DeskSpent, DeskSpent', CodeBudget, codes' = codes, changes' >= changes, slips' >= slips,
         connected => connected', AskDue' => AskDue, MayReissue' => MayReissue
  PROVE  CodeBudget'
<1>1. codes \in Nat
  BY CodesNat
<1> QED BY <1>1, CreditsAre DEF CodeBudget, CodesLeft

\* A step that earns one, and pays for it.
LEMMA CodesEarned ==
  ASSUME AskInv, AskInv', DeskSpent, DeskSpent', CodeBudget, codes' = codes,
         \/ changes' = changes + 1 /\ slips' >= slips /\ (connected => connected') /\ (MayReissue' => MayReissue)
         \/ changes' = changes + 1 /\ slips' >= slips /\ (connected => connected') /\ (AskDue' => AskDue)
         \/ changes' = changes + 1 /\ slips' >= slips /\ (AskDue' => AskDue) /\ (MayReissue' => MayReissue)
         \/ changes' >= changes /\ slips' = slips + 1 /\ (connected => connected') /\ (AskDue' => AskDue)
         \/ changes' = changes /\ slips' = slips /\ ~connected /\ connected' /\ (MayReissue' => MayReissue)
  PROVE  CodeBudget'
<1>1. codes \in Nat
  BY CodesNat
<1> QED BY <1>1, CreditsAre DEF CodeBudget, CodesLeft

LEMMA SpentOn ==
  ASSUME DraftInv, DeskSpent, [DeskNext]_deskVars
  PROVE  changes' >= changes /\ slips' >= slips
<1>1. Slip \/ UNCHANGED slips
  BY DEF DeskNext, DraftStep, ClaimDraft, StorePlan, DraftFails, DraftDecides, DraftDies, SendStep, Prepare,
         BeforeTransport, Post, RecordRequest, SenderDies, DraftJobLost, AskLost, SweepDraft, StopDead, SweepPending,
         Recheck, RecoverRequest, Resend, DecideOnDashboard, DecideInChannel, DecideBy, StopItem, Retry, Connect,
         Disconnect, ChannelChanges, deskVars
<1>2. Change \/ UNCHANGED changes
  BY DEF DeskNext, DraftStep, ClaimDraft, StorePlan, DraftFails, DraftDecides, DraftDies, SendStep, Prepare,
         BeforeTransport, Post, RecordRequest, SenderDies, DraftJobLost, AskLost, SweepDraft, StopDead, SweepPending,
         Recheck, RecoverRequest, Resend, DecideOnDashboard, DecideInChannel, DecideBy, StopItem, Retry, Connect,
         Disconnect, ChannelChanges, deskVars, aroundVars
<1> QED BY <1>1, <1>2, SlipsOn, ChangesOn

\* The row's request may be asked for again only as it might before.
LEMMA ReissueKept ==
  ASSUME AskInv, UNCHANGED request, asks' \subseteq asks \cup {0},
         \A s \in Senders : send'[s].code = request.id <=> send[s].code = request.id
  PROVE  MayReissue' => MayReissue
BY DEF MayReissue, AskInv, AskOrder, RequestOrder

LEMMA CodesPrepare ==
  ASSUME AskInv, AskInv', AskedOut, DeskSpent, DeskSpent', CodeBudget, NEW s \in Senders, Prepare(s), UNCHANGED slips
  PROVE  CodeBudget'
<1>1. UNCHANGED <<itemState, changes, connected>> /\ changes \in Nat /\ slips \in Nat
  BY PrepareCases DEF DeskSpent
<1>2. CASE asks' \subseteq asks /\ UNCHANGED <<request, replaced, codes, send>>
  <2>1. AskDue' = AskDue /\ (MayReissue' => MayReissue)
    BY <1>1, <1>2, ReissueKept DEF AskDue
  <2> QED BY <1>1, <1>2, <2>1, CodesQuiet
<1>3. ASSUME NEW a \in asks, GivesCode(s, a)
      PROVE  CodeBudget'
  <2>1. /\ codes \in Nat /\ codes' = codes + 1 /\ request' = [NoRequest EXCEPT !.id = codes + 1]
        /\ itemState = "plan-pending" /\ asks' \subseteq asks
        /\ request = NoRequest \/ (request # NoRequest /\ request.id \in asks)
    BY <1>3, CodesNat DEF GivesCode
  <2>2. request'.id = codes + 1
    BY <2>1, RequestRow
  <2>3. request' # NoRequest
    <3>1. codes + 1 # 0
      BY <2>1
    <3> QED BY <2>2, <3>1, RequestRow
  <2>4. ~MayReissue'
    <3>1. request'.id \notin asks'
      BY <2>1, <2>2 DEF AskedOut
    <3>2. send'[s].code = request'.id
      BY <1>3, <2>2, GivenCode
    <3> QED BY <3>1, <3>2 DEF MayReissue
  <2>5. ~AskDue'
    BY <2>3 DEF AskDue
  <2>6. AskDue \/ MayReissue
    BY <2>1 DEF AskDue, MayReissue
  <2> QED BY <1>1, <2>1, <2>4, <2>5, <2>6, CreditsAre DEF CodeBudget, CodesLeft
<1> QED BY <1>2, <1>3, PrepareCases

LEMMA CodesSent ==
  ASSUME AskInv, AskInv', DeskSpent, DeskSpent', CodeBudget, NEW s \in Senders, changes' >= changes, slips' >= slips,
         BeforeTransport(s) \/ Post(s) \/ RecordRequest(s) \/ SenderDies(s)
  PROVE  CodeBudget'
<1>0. send \in [Senders -> SendRows]
  BY DEF AskInv, AskTypes
<1>1. UNCHANGED <<itemState, connected, codes, asks>>
  BY DEF BeforeTransport, Post, RecordRequest, SenderDies, itemVars, askVars, aroundVars
<1>2. CASE BeforeTransport(s) \/ Post(s)
  <2>1. UNCHANGED request /\ \E at \in {"cleared", "posted", "refused"} : send' = [send EXCEPT ![s].at = at]
    BY <1>2 DEF BeforeTransport, Post, askVars
  <2>2. \A t \in Senders : send'[t].code = send[t].code
    BY <1>0, <2>1 DEF SendRows
  <2>3. AskDue' = AskDue /\ (MayReissue' => MayReissue)
    BY <1>1, <2>1, <2>2, ReissueKept DEF AskDue
  <2> QED BY <1>1, <2>3, CodesQuiet
<1>3. CASE RecordRequest(s)
  <2>1. \A t \in Senders : t # s => send'[t] = send[t]
    BY <1>0, <1>3 DEF RecordRequest
  <2>2. request'.id = request.id /\ (request' = NoRequest => request = NoRequest) /\ (request = NoRequest => request' = NoRequest)
    <3>1. request \in RequestRows /\ (request.id = 0 <=> request = NoRequest)
      BY CodesNat DEF AskInv, AskTypes
    <3>2. request'.id = request.id
      BY <1>3, <3>1 DEF RecordRequest, RequestRows
    <3>3. request' = NoRequest <=> request'.id = 0
      BY CodesNatNext
    <3> QED BY <3>1, <3>2, <3>3
  <2>3. AskDue' = AskDue
    BY <1>1, <2>2 DEF AskDue
  <2>4. MayReissue' => MayReissue
    <3>1. CASE request.id # send[s].code
      <4>1. request' = request
        BY <1>3, <3>1 DEF RecordRequest
      <4> QED BY <1>1, <2>1, <3>1, <4>1 DEF MayReissue
    <3>2. CASE request.id = send[s].code
      <4>1. request'.ts \/ request'.failed
        <5>1. request \in RequestRows
          BY DEF AskInv, AskTypes
        <5>2. request' = [request EXCEPT !.ts = TRUE] \/ request' = [request EXCEPT !.failed = TRUE]
          BY <1>3, <3>2 DEF RecordRequest
        <5> QED BY <5>1, <5>2 DEF RequestRows
      <4> QED BY <1>1, <2>2, <4>1 DEF MayReissue
    <3> QED BY <3>1, <3>2
  <2> QED BY <1>1, <2>3, <2>4, CodesQuiet
<1>4. CASE SenderDies(s)
  <2>1. UNCHANGED request /\ slips' = slips + 1
    BY <1>4 DEF SenderDies, Slip, askVars
  <2>2. AskDue' = AskDue
    BY <1>1, <2>1 DEF AskDue
  <2> QED BY <1>1, <2>1, <2>2, CodesEarned
<1> QED BY <1>2, <1>3, <1>4

LEMMA CodesDrafts ==
  ASSUME AskInv, AskInv', DeskSpent, DeskSpent', CodeBudget, NEW d \in Drafters, DraftStep(d), slips' >= slips
  PROVE  CodeBudget'
<1>1. UNCHANGED <<changes, connected, codes, send>> /\ changes \in Nat
  BY DEF DraftStep, ClaimDraft, StorePlan, SendBack, DraftFails, DraftDecides, DraftDies, askVars, aroundVars, DeskSpent
<1>2. CASE SendBack
  <2>1. itemState = "claimed"
    BY <1>2 DEF DraftStep, ClaimDraft, StorePlan, MayStorePlan, DraftFails, FailFor, DraftDecides, DecidePlan, DraftDies,
                SendBack, itemVars
  <2>2. request = NoRequest /\ request' = NoRequest
    BY <1>2, <2>1 DEF AskInv, AskOrder, RequestOrder, SendBack, RequestTakenBack
  <2>3. AskDue /\ ~MayReissue'
    BY <2>1, <2>2 DEF AskDue, MayReissue
  <2> QED BY <1>1, <2>3, CodesQuiet
<1>3. CASE ~SendBack
  <2>1. UNCHANGED request /\ asks' \subseteq asks \cup {0}
    BY <1>3 DEF DraftStep, ClaimDraft, StorePlan, DraftFails, DraftDecides, DecidePlan, Ask, DraftDies, askVars
  <2>2. itemState' \in {"claimed", "plan-pending"} => itemState \in {"claimed", "plan-pending"}
    BY <1>3 DEF DraftStep, ClaimDraft, StorePlan, MayStorePlan, DraftFails, FailFor, DraftDecides, DecidePlan, DraftDies,
                itemVars
  <2>3. (AskDue' => AskDue) /\ (MayReissue' => MayReissue)
    BY <1>1, <2>1, <2>2, ReissueKept DEF AskDue
  <2> QED BY <1>1, <2>3, CodesQuiet
<1> QED BY <1>2, <1>3

LEMMA CodesRecovered ==
  ASSUME AskInv, AskInv', DeskSpent, DeskSpent', CodeBudget, RecoverRequest
  PROVE  CodeBudget'
<1>1. /\ UNCHANGED <<itemState, changes, connected, codes, send>> /\ changes \in Nat /\ slips \in Nat
  BY DEF RecoverRequest, itemVars, aroundVars, DeskSpent
<1>2. slips' >= slips
  BY <1>1 DEF RecoverRequest, Slip
<1>3. CASE UNCHANGED <<request, asks>>
  <2>1. AskDue' = AskDue /\ (MayReissue' => MayReissue)
    BY <1>1, <1>3, ReissueKept DEF AskDue
  <2> QED BY <1>1, <1>2, <2>1, CodesQuiet
<1>4. CASE Undecided(request) /\ ~request.ts /\ ~request.failed /\ Supersede
  <2>1. request # NoRequest /\ request'.failed /\ ~NoRequest.failed
    BY <1>4 DEF Undecided, Supersede, AskInv, AskTypes, RequestRows, NoRequest
  <2>2. ~AskDue'
    BY <2>1 DEF AskDue
  <2>3. CASE \E s \in Senders : send[s].code = request.id
    <3>1. slips' = slips + 1
      BY <2>3 DEF RecoverRequest, Slip
    <3> QED BY <1>1, <2>2, <3>1, CodesEarned
  <2>4. CASE ~\E s \in Senders : send[s].code = request.id
    <3>1. MayReissue
      BY <1>4, <2>1, <2>4 DEF MayReissue
    <3> QED BY <1>1, <1>2, <2>2, <3>1, CodesQuiet
  <2> QED BY <2>3, <2>4
<1> QED BY <1>3, <1>4 DEF RecoverRequest

LEMMA CodesDecided ==
  ASSUME AskInv, AskInv', DeskSpent, DeskSpent', CodeBudget, DecideOnDashboard \/ DecideInChannel
  PROVE  CodeBudget'
<1>1. PICK via \in {"dashboard", "channel"} : DecideBy(via)
  BY DEF DecideOnDashboard, DecideInChannel
<1>2. UNCHANGED <<changes, slips, connected, codes, send, asks>> /\ changes \in Nat /\ slips \in Nat
  BY <1>1 DEF DecideBy, aroundVars, DeskSpent
<1>3. ~AskDue'
  BY <1>1 DEF DecideBy, AskDue
<1>4. MayReissue' => MayReissue
  <2>1. request' = request \/ (request # NoRequest /\ request' = [request EXCEPT !.decided = via])
    BY <1>1 DEF DecideBy, Undecided
  <2>2. request'.id = request.id /\ request'.ts = request.ts /\ request'.failed = request.failed
    BY <2>1 DEF AskInv, AskTypes, RequestRows
  <2>3. request' # NoRequest => request # NoRequest
    BY <2>1
  <2> QED BY <1>2, <2>2, <2>3 DEF MayReissue
<1> QED BY <1>2, <1>3, <1>4, CodesQuiet

LEMMA CodesChanged ==
  ASSUME AskInv, AskInv', DeskSpent, DeskSpent', CodeBudget, Resend \/ Retry \/ Connect \/ Disconnect \/ ChannelChanges
  PROVE  CodeBudget'
<1>1. UNCHANGED <<slips, codes, send>> /\ slips \in Nat /\ changes \in Nat
  BY DEF Resend, Retry, Connect, SendBack, Disconnect, ChannelChanges, askVars, DeskSpent
<1>2. CASE Resend
  <2>1. request # NoRequest /\ request'.failed /\ ~NoRequest.failed
    BY <1>2 DEF Resend, Undecided, Supersede, AskInv, AskTypes, RequestRows, NoRequest
  <2>2. ~AskDue'
    BY <2>1 DEF AskDue
  <2>3. changes' = changes + 1 /\ connected' = connected
    BY <1>2 DEF Resend, Change
  <2> QED BY <1>1, <2>2, <2>3, CodesEarned
<1>3. CASE Retry
  <2>1. changes' = changes + 1 /\ connected' = connected /\ request' = NoRequest
    BY <1>3 DEF Retry, Change
  <2>2. ~MayReissue'
    BY <2>1 DEF MayReissue
  <2> QED BY <1>1, <2>1, <2>2, CodesEarned
<1>4. CASE Connect
  <2>1. ~connected /\ connected' /\ changes' = changes
    BY <1>4 DEF Connect
  <2>2. MayReissue' => MayReissue
    <3>1. CASE SendBack
      BY <3>1 DEF SendBack, RequestTakenBack, MayReissue
    <3>2. CASE UNCHANGED askVars
      BY <1>1, <3>2, ReissueKept DEF askVars
    <3> QED BY <1>4, <3>1, <3>2 DEF Connect
  <2> QED BY <1>1, <2>1, <2>2, CodesEarned
<1>5. CASE Disconnect \/ ChannelChanges
  <2>1. UNCHANGED <<itemState, request, asks>> /\ changes' = changes + 1
    BY <1>5 DEF Disconnect, ChannelChanges, Change, itemVars, askVars
  <2>2. AskDue' = AskDue /\ (MayReissue' => MayReissue)
    BY <1>1, <2>1, ReissueKept DEF AskDue
  <2> QED BY <1>1, <2>1, <2>2, CodesEarned
<1> QED BY <1>2, <1>3, <1>4, <1>5

LEMMA CodesStep ==
  ASSUME DraftInv, AskInv, AskedOut, DeskSpent, CodeBudget, [DeskNext]_deskVars
  PROVE  CodeBudget'
<1>1. AskInv' /\ DeskSpent' /\ changes' >= changes /\ slips' >= slips
  BY AskStep, SpentStep, SpentOn
<1>2. ASSUME NEW d \in Drafters, DraftStep(d)
      PROVE  CodeBudget'
  BY <1>1, <1>2, CodesDrafts
<1>3. ASSUME NEW s \in Senders, SendStep(s) \/ SenderDies(s)
      PROVE  CodeBudget'
  <2>1. CASE Prepare(s)
    BY <1>1, <2>1, CodesPrepare DEF Prepare
  <2>2. CASE BeforeTransport(s) \/ Post(s) \/ RecordRequest(s) \/ SenderDies(s)
    BY <1>1, <2>2, CodesSent
  <2> QED BY <1>3, <2>1, <2>2 DEF SendStep
<1>4. CASE RecoverRequest
  BY <1>1, <1>4, CodesRecovered
<1>5. CASE DecideOnDashboard \/ DecideInChannel
  BY <1>1, <1>5, CodesDecided
<1>6. CASE Resend \/ Retry \/ Connect \/ Disconnect \/ ChannelChanges
  BY <1>1, <1>6, CodesChanged
<1>7. CASE \/ DraftJobLost \/ AskLost \/ SweepDraft \/ StopDead \/ SweepPending \/ Recheck \/ StopItem
           \/ UNCHANGED deskVars
  <2>1. UNCHANGED <<request, codes, send, connected>>
    BY <1>7 DEF DraftJobLost, AskLost, SweepDraft, StopDead, SweepPending, Recheck, StopItem, askVars, aroundVars, deskVars
  <2>2. asks' \subseteq asks \cup {0}
    BY <1>7 DEF DraftJobLost, AskLost, SweepDraft, StopDead, SweepPending, Recheck, DecidePlan, Ask, StopItem, askVars,
                deskVars
  <2>3. itemState' \in {"claimed", "plan-pending"} => itemState \in {"claimed", "plan-pending"}
    BY <1>7 DEF DraftJobLost, AskLost, SweepDraft, StopDead, FailFor, SweepPending, Recheck, DecidePlan, StopItem,
                itemVars, deskVars
  <2>4. (AskDue' => AskDue) /\ (MayReissue' => MayReissue)
    BY <2>1, <2>2, <2>3, ReissueKept DEF AskDue
  <2> QED BY <1>1, <2>1, <2>4, CodesQuiet
<1> QED BY <1>2, <1>3, <1>4, <1>5, <1>6, <1>7 DEF DeskNext

-----------------------------------------------------------------------------
\* DeskTypeOK is not inductive: the numbers are bounded by what is left.
DeskInv == DraftInv /\ AskInv /\ DeskFlags /\ DeskSpent /\ GivenOut /\ AskedOut /\ ClaimBudget /\ CodeBudget

LEMMA DeskStarts == DeskInit => DeskInv
<1> SUFFICES ASSUME DeskInit
             PROVE  DeskInv
  OBVIOUS
<1>1. DraftInv /\ AskInv /\ DeskFlags /\ DeskSpent
  BY AskInit, FlagsStart
<1>2. GivenOut /\ AskedOut
  BY DEF DeskInit, GivenOut, AskedOut, IdleDraft, IdleSend
<1>3. ClaimBudget
  <2>1. claims = 0 /\ changes = 0 /\ resumes = 0
    BY DEF DeskInit
  <2>2. Restarts <= MaxChanges + 1 /\ DraftsLeft <= MaxResumes + 1 /\ Restarts \in Nat
    BY <2>1 DEF Restarts, DraftsLeft
  <2>3. Restarts * (MaxResumes + 1) <= (MaxChanges + 1) * (MaxResumes + 1)
    BY <2>2, Scaled
  <2>4. /\ (MaxChanges + 2) * (MaxResumes + 1) = (MaxChanges + 1) * (MaxResumes + 1) + (MaxResumes + 1)
        /\ (MaxChanges + 1) * (MaxResumes + 1) \in Nat /\ Restarts * (MaxResumes + 1) \in Nat
    BY <2>2
  <2> QED BY <1>1, <2>1, <2>2, <2>3, <2>4, BudgetTypes DEF ClaimBudget
<1>4. CodeBudget
  <2>1. codes = 0 /\ changes = 0 /\ slips = 0 /\ ~MayReissue
    BY DEF DeskInit, MayReissue
  <2> QED BY <2>1 DEF CodeBudget, CodesLeft, Credit
<1> QED BY <1>1, <1>2, <1>3, <1>4 DEF DeskInv

LEMMA DeskStays == DeskInv /\ [DeskNext]_deskVars => DeskInv'
BY DraftStays, AskStep, FlagsStep, SpentStep, GivenStep, AskedStep, BudgetStep, CodesStep DEF DeskInv

LEMMA WithinBounds ==
  ASSUME DeskInv
  PROVE  claims <= (MaxChanges + 2) * (MaxResumes + 1) /\ codes <= MaxChanges + MaxSlips + 2
<1>1. Restarts * (MaxResumes + 1) \in Nat /\ claims \in Nat /\ DraftsLeft \in Nat
      /\ (MaxChanges + 2) * (MaxResumes + 1) \in Nat
  BY BudgetTypes DEF DeskInv
<1>2. claims <= (MaxChanges + 2) * (MaxResumes + 1)
  BY <1>1 DEF DeskInv, ClaimBudget
<1>3. CodesLeft \in Nat /\ codes \in Nat
  BY CodesNat DEF DeskInv, CodesLeft, DeskSpent, Credit
<1>4. codes <= MaxChanges + MaxSlips + 2
  BY <1>3 DEF DeskInv, CodeBudget
<1> QED BY <1>2, <1>4

LEMMA DeskWithin == DeskInv => DeskTypeOK
<1> SUFFICES ASSUME DeskInv
             PROVE  DeskTypeOK
  OBVIOUS
<1> DEFINE last == (MaxChanges + 2) * (MaxResumes + 1)
<1>0. last \in Nat /\ claims <= last /\ Claims = 0..last
  BY WithinBounds DEF Claims
<1> HIDE DEF last
<1>1. 0..claims \subseteq Claims /\ claims \in Nat
  BY <1>0 DEF DeskInv, DraftInv, DraftTypes
<1>2. 1..codes \subseteq Codes /\ codes \in Nat /\ 0..codes \subseteq {0} \cup Codes
  BY WithinBounds, CodesNat DEF DeskInv, Codes
<1>3. {claim, plan, stopDue, claims, resetAt, failedFor} \subseteq Claims
  BY <1>1 DEF DeskInv, DraftInv, DraftTypes, DraftOrder, GivenOut
<1>4. request \in Requests \cup {NoRequest}
  <2>1. request \in RequestRows /\ request.id \in Nat /\ request.id <= codes /\ (request.id = 0 => request = NoRequest)
    BY CodesNat DEF DeskInv, AskInv, AskTypes
  <2>2. CASE request.id = 0
    BY <2>1, <2>2
  <2>3. CASE request.id # 0
    <3>1. request.id \in Codes
      BY <1>2, <2>1, <2>3
    <3> QED BY <2>1, <3>1 DEF RequestRows, Requests
  <2> QED BY <2>2, <2>3
<1>5. asks \subseteq {0} \cup Codes /\ replaced \subseteq Codes /\ codes \in {0} \cup Codes
  BY <1>2 DEF DeskInv, AskedOut
<1>6. dm \in [Codes -> Claims]
  <2>1. \A c \in Codes : dm[c] \in Claims
    BY <1>1 DEF DeskInv, AskInv, AskTypes, AskedOut
  <2> QED BY <2>1 DEF DeskInv, AskInv, AskTypes
<1>7. draft \in [Drafters -> [at : {"idle", "drafting", "deciding"}, claim : Claims,
                             without : {"no", "not-connected", "unread"}]]
  <2>1. draft \in [Drafters -> DraftRows]
    BY DEF DeskInv, DraftInv, DraftTypes
  <2>2. \A d \in Drafters : draft[d].claim \in Claims
    BY <1>1, <2>1 DEF DeskInv, GivenOut, DraftRows
  <2> QED BY <2>1, <2>2 DEF DraftRows
<1>8. send \in [Senders -> [at : {"idle", "prepared", "cleared", "posted", "refused"},
                           code : {0} \cup Codes, plan : Claims]]
  <2>1. send \in [Senders -> SendRows]
    BY DEF DeskInv, AskInv, AskTypes
  <2>2. \A s \in Senders : send[s].plan \in Claims /\ send[s].code \in {0} \cup Codes
    BY <1>1, <1>2, <2>1 DEF DeskInv, AskedOut, SendRows
  <2> QED BY <2>1, <2>2 DEF SendRows
<1>9. DeskFlags /\ DeskSpent
  BY DEF DeskInv
<1>10. claims \in Claims
  BY <1>3
<1> QED BY <1>3, <1>4, <1>5, <1>6, <1>7, <1>8, <1>9, <1>10, Zenon DEF DeskTypeOK, DeskFlags, DeskSpent

\* Every state of a plan's life is of its type; above all no row outlives the
\* numbers, however drafts die and requests go astray: each draft and each
\* code is one that a queued step, a restart, a Retry or a connection paid for
\* (claimLoopStep, resumeDraft, prepareDecisionRequest, supersedeDecisionRequest).
THEOREM DeskTyped == DeskSpec => []DeskTypeOK
<1>1. DeskInv => DeskTypeOK
  BY DeskWithin
<1> QED BY <1>1, DeskStarts, DeskStays, PTL DEF DeskSpec

-----------------------------------------------------------------------------
\* MAX_DRAFT_RESUMES: from the row's last Retry or re-draft on, its first draft
\* and the restarts.
DraftsCapped == claims <= resetAt + MaxResumes + 1
\* A draft is to come that no restart has been charged for.
DraftAhead == itemState = "claimed" /\ (draftJob \/ claim = 0)
DraftsCharged ==
  /\ claims <= resetAt + resumes + 1
  /\ DraftAhead => claims <= resetAt + resumes

LEMMA DraftsSpend ==
  ASSUME DraftInv, [DeskNext]_deskVars
  PROVE  \/ claims' = claims /\ resetAt' = claims
         \/ UNCHANGED <<claims, resetAt, resumes>> /\ (DraftAhead' => DraftAhead)
         \/ claims' = claims + 1 /\ UNCHANGED <<resetAt, resumes>> /\ DraftAhead /\ ~DraftAhead'
         \/ UNCHANGED <<claims, resetAt>> /\ resumes' = resumes + 1
<1>1. CASE SendBack \/ Retry
  <2>1. claims' = claims
    BY <1>1 DEF DeskNext, DraftStep, ClaimDraft, StorePlan, SendBack, DraftFails, DraftDecides, DraftDies, SendStep, Prepare,
       BeforeTransport, Post, RecordRequest, SenderDies, DraftJobLost, AskLost, SweepDraft, StopDead, SweepPending,
       Recheck, RecoverRequest, Resend, DecideOnDashboard, DecideInChannel, DecideBy, StopItem, Retry, Connect,
       Disconnect, ChannelChanges, deskVars, itemVars
  <2> QED BY <1>1, <2>1 DEF SendBack, Retry
<1>2. ASSUME NEW d \in Drafters, ClaimDraft(d)
      PROVE  \/ UNCHANGED <<claims, resetAt, resumes>> /\ (DraftAhead' => DraftAhead)
             \/ claims' = claims + 1 /\ UNCHANGED <<resetAt, resumes>> /\ DraftAhead /\ ~DraftAhead'
  <2>1. UNCHANGED <<itemState, resumes, resetAt>> /\ draftJob /\ ~draftJob'
    BY <1>2, Zenon DEF ClaimDraft
  <2>2. CASE itemState = "claimed" /\ ~LiveClaim
    <3>1. claims' = claims + 1 /\ claim' # 0
      BY <1>2, <2>2 DEF ClaimDraft, DraftInv, DraftTypes
    <3> QED BY <2>1, <2>2, <3>1 DEF DraftAhead
  <2>3. CASE ~(itemState = "claimed" /\ ~LiveClaim)
    <3>1. UNCHANGED <<claims, claim>>
      BY <1>2, <2>3 DEF ClaimDraft
    <3> QED BY <2>1, <3>1 DEF DraftAhead
  <2> QED BY <2>2, <2>3
<1>3. CASE SweepDraft
  <2>1. UNCHANGED <<itemState, claim, claims, resetAt>> /\ itemState = "claimed"
    BY <1>3 DEF SweepDraft
  <2>2. UNCHANGED <<resumes, draftJob>> \/ (claim = 0 /\ resumes' = resumes) \/ resumes' = resumes + 1
    BY <1>3 DEF SweepDraft
  <2> QED BY <2>1, <2>2 DEF DraftAhead
<1>4. CASE ~SendBack /\ ~Retry /\ ~SweepDraft /\ ~\E d \in Drafters : ClaimDraft(d)
  <2>1. UNCHANGED <<claims, resumes, resetAt>>
    BY <1>4 DEF DeskNext, DraftStep, StorePlan, DraftFails, DraftDecides, DraftDies, SendStep, Prepare,
       BeforeTransport, Post, RecordRequest, SenderDies, DraftJobLost, AskLost, StopDead, SweepPending,
       Recheck, RecoverRequest, Resend, DecideOnDashboard, DecideInChannel, DecideBy, StopItem, Connect,
       Disconnect, ChannelChanges, deskVars, itemVars
  <2>2. draftJob' => draftJob
    BY <1>4 DEF DeskNext, DraftStep, StorePlan, DraftFails, DraftDecides, DraftDies, SendStep, Prepare,
       BeforeTransport, Post, RecordRequest, SenderDies, DraftJobLost, AskLost, StopDead, SweepPending,
       Recheck, RecoverRequest, Resend, DecideOnDashboard, DecideInChannel, DecideBy, StopItem, Connect,
       Disconnect, ChannelChanges, deskVars
  <2>3. itemState' = "claimed" => itemState = "claimed" /\ claim' = claim
    BY <1>4 DEF DeskNext, DraftStep, StorePlan, DraftFails, FailFor, DraftDecides, DecidePlan, DraftDies, SendStep, Prepare,
       BeforeTransport, Post, RecordRequest, SenderDies, DraftJobLost, AskLost, StopDead, SweepPending,
       Recheck, RecoverRequest, Resend, DecideOnDashboard, DecideInChannel, DecideBy, StopItem, Connect,
       Disconnect, ChannelChanges, deskVars, itemVars
  <2>4. DraftAhead' => DraftAhead
    BY <2>2, <2>3 DEF DraftAhead
  <2> QED BY <2>1, <2>4
<1> QED BY <1>1, <1>2, <1>3, <1>4

LEMMA DraftsChargedStep ==
  ASSUME DeskInv, DraftsCharged, [DeskNext]_deskVars
  PROVE  DraftsCharged'
<1>1. claims \in Nat /\ resetAt \in Nat /\ resumes \in Nat
  BY DEF DeskInv, DraftInv, DraftTypes, DeskSpent
<1>2. resumes' \in Nat
  BY SpentStep DEF DeskInv, DeskSpent
<1>3. CASE claims' = claims /\ resetAt' = claims
  <2>1. PICK n \in Nat : n = resumes'
    BY <1>2, Zenon
  <2>2. claims <= claims + n /\ claims <= claims + n + 1
    BY <1>1
  <2>3. claims' <= resetAt' + resumes' /\ claims' <= resetAt' + resumes' + 1
    BY <1>3, <2>1, <2>2, Zenon
  <2> QED BY <2>3 DEF DraftsCharged
<1>4. CASE UNCHANGED <<claims, resetAt, resumes>> /\ (DraftAhead' => DraftAhead)
  BY <1>4 DEF DraftsCharged
<1>5. CASE claims' = claims + 1 /\ UNCHANGED <<resetAt, resumes>> /\ DraftAhead /\ ~DraftAhead'
  <2>1. claims <= resetAt + resumes
    BY <1>5 DEF DraftsCharged
  <2>2. claims' <= resetAt' + resumes' + 1
    BY <1>1, <1>5, <2>1
  <2> QED BY <1>5, <2>2 DEF DraftsCharged
<1>6. CASE UNCHANGED <<claims, resetAt>> /\ resumes' = resumes + 1
  <2>1. claims' <= resetAt' + resumes'
    BY <1>1, <1>6 DEF DraftsCharged
  <2>2. claims' <= resetAt' + resumes' + 1
    BY <1>1, <1>6, <2>1
  <2> QED BY <2>1, <2>2 DEF DraftsCharged
<1> QED BY <1>3, <1>4, <1>5, <1>6, DraftsSpend DEF DeskInv

\* A row is drafted once, and again for each restart it may have, between two
\* resets of its own (a Retry, a re-draft), whatever dies, is lost or is swept
\* twice: the claim fences the queued drafts, and a restart is charged for each
\* claim that lapsed (claimLoopStep, resumeDraft, MAX_DRAFT_RESUMES).
THEOREM DeskDraftsCapped == DeskSpec => []DraftsCapped
<1>1. DeskInit => DraftsCharged
  BY DEF DeskInit, DraftsCharged
<1>2. DeskInv /\ DraftsCharged => DraftsCapped
  BY DEF DeskInv, DraftInv, DraftTypes, DeskSpent, DraftsCharged, DraftsCapped
<1> QED BY <1>1, <1>2, DeskStarts, DeskStays, DraftsChargedStep, PTL DEF DeskSpec

USE ManagerAssumption, HandoverBounds, EndAfterAssumption

-----------------------------------------------------------------------------
(* The types of the pieces and of the transfer. *)

PieceTypeOK ==
  /\ piece \in [Pieces -> PieceStates] /\ saidBy \in [Pieces -> Managers \cup {Nobody}]
  /\ ask \in [Pieces -> Request] /\ askedOf \in [Pieces -> Managers \cup {Nobody}]
  /\ retried \in 0..MaxRetried
MoveTypeOK ==
  /\ owner \in Managers /\ toOwner \in Managers \cup {Nobody}
  /\ transfer \in {"none", "asked", "accepting", "accepted", "closed"}
  /\ dmOf \in Managers \cup {Nobody} /\ settleAsked \in BOOLEAN
  /\ overdue \in BOOLEAN /\ settleJobs \in 0..2 /\ counting \in BOOLEAN
  /\ settleFailures \in 0..EndAfter /\ lostAttempts \in 0..MaxLost /\ handovers \in 0..MaxHandovers

\* HandTypeOK is not inductive: a settle moves the employee to whoever
\* accepted, and a failure is counted only while the handover is open.
OpenHandover ==
  /\ transfer = "accepting" => toOwner \in Managers
  /\ transfer \in {"asked", "accepting"} => settleFailures < EndAfter
HandTypeInv == PieceTypeOK /\ MoveTypeOK /\ OpenHandover

LEMMA BoundsNat ==
  /\ MaxHandovers \in Nat /\ MaxRetried \in Nat /\ MaxLost \in Nat
  /\ 0 \in 0..EndAfter /\ 0 < EndAfter
BY HandoverBounds, EndAfterAssumption

LEMMA KeptPieces == ASSUME PieceTypeOK, UNCHANGED pieceVars PROVE PieceTypeOK'
BY DEF PieceTypeOK, pieceVars

LEMMA KeptMove ==
  ASSUME MoveTypeOK, OpenHandover, UNCHANGED transferVars
  PROVE  MoveTypeOK' /\ OpenHandover'
BY DEF MoveTypeOK, OpenHandover, transferVars, moveVars, boundVars

\* The step of one piece that its run makes.
LEMMA RunMove ==
  ASSUME MoveTypeOK, OpenHandover, AskSettle,
         UNCHANGED <<moveVars, transfer, overdue, settleJobs, counting, settleFailures, boundVars>>
  PROVE  MoveTypeOK' /\ OpenHandover'
<1>1. settleAsked' \in BOOLEAN
  BY DEF MoveTypeOK, AskSettle
<1> QED BY <1>1 DEF MoveTypeOK, OpenHandover, moveVars, boundVars

LEMMA PieceType ==
  ASSUME HandTypeInv, NEW i \in Pieces,
         \/ ClaimRequest(i) \/ RecordPost(i) \/ ReplyApproves(i) \/ ClickApproves(i)
         \/ StartRun(i) \/ StartApply(i) \/ HoldSet(i) \/ RunGoesBack(i)
         \/ EndPiece(i, "completed") \/ EndPiece(i, "failed") \/ RetryPiece(i)
  PROVE  HandTypeInv'
<1> USE DEF HandTypeInv
<1>1. ASSUME ClaimRequest(i) \/ RecordPost(i)
      PROVE  HandTypeInv'
  BY <1>1, KeptMove DEF ClaimRequest, RecordPost, PieceTypeOK, MoveTypeOK, Request
<1>2. ASSUME NEW m \in Managers \cup {Nobody}, Decide(i, m)
      PROVE  HandTypeInv'
  BY <1>2, KeptMove DEF Decide, PieceTypeOK, Request, PieceStates, Approved
<1>3. ReplyApproves(i) \/ ClickApproves(i) => \E m \in Managers \cup {Nobody} : Decide(i, m)
  BY DEF ReplyApproves, ClickApproves, PieceTypeOK, MoveTypeOK
<1>4. ASSUME StartRun(i) \/ StartApply(i) \/ RetryPiece(i)
      PROVE  HandTypeInv'
  <2>1. UNCHANGED transferVars
    BY <1>4 DEF StartRun, StartApply, RetryPiece
  <2> QED BY <1>4, <2>1, KeptMove DEF StartRun, StartApply, RetryPiece, PieceTypeOK, MoveTypeOK, PieceStates
<1>5. ASSUME HoldSet(i) \/ EndPiece(i, "completed") \/ EndPiece(i, "failed") \/ RunGoesBack(i)
      PROVE  HandTypeInv'
  <2>1. PieceTypeOK'
    BY <1>5 DEF HoldSet, EndPiece, RunGoesBack, PieceTypeOK, PieceStates
  <2> QED BY <1>5, <2>1, RunMove DEF HoldSet, EndPiece, RunGoesBack
<1> QED BY <1>1, <1>2, <1>3, <1>4, <1>5

LEMMA MovedType ==
  ASSUME HandTypeInv, NEW to \in Managers, Move(to),
         settleAsked' \in BOOLEAN, settleJobs' \in 0..2, counting' \in BOOLEAN
  PROVE  HandTypeInv'
<1> USE DEF HandTypeInv
<1>1. MoveTypeOK' /\ OpenHandover'
  BY DEF Move, MoveTypeOK, OpenHandover, boundVars
<1>2. piece' \in [Pieces -> PieceStates]
  BY DEF Move, Returned, Stopped, PieceTypeOK, PieceStates
<1>3. ask' \in [Pieces -> Request]
  <2>1. \A i \in Pieces : Voided(i) \in Request
    BY DEF Voided, PieceTypeOK, Request
  <2> QED BY <2>1 DEF Move
<1> QED BY <1>1, <1>2, <1>3 DEF Move, PieceTypeOK

LEMMA HandTypeStep == HandTypeInv /\ [HandNext]_handVars => HandTypeInv'
<1> SUFFICES ASSUME HandTypeInv, [HandNext]_handVars
             PROVE  HandTypeInv'
  OBVIOUS
<1>1. CASE AskHandover \/ CloseAsked
  <2>1. PieceTypeOK'
    BY <1>1, KeptPieces DEF AskHandover, CloseAsked, HandTypeInv
  <2>2. CASE AskHandover
    <3>1. handovers' \in 0..MaxHandovers
      BY <2>2, BoundsNat DEF AskHandover, HandTypeInv, MoveTypeOK
    <3>2. overdue' \in BOOLEAN /\ settleAsked' \in BOOLEAN /\ counting' \in BOOLEAN
      BY <2>2 DEF AskHandover, HandTypeInv, MoveTypeOK
    <3> QED BY <2>1, <2>2, <3>1, <3>2, BoundsNat DEF AskHandover, HandTypeInv, MoveTypeOK, OpenHandover
  <2>3. CASE CloseAsked
    BY <2>1, <2>3 DEF CloseAsked, HandTypeInv, MoveTypeOK, OpenHandover, moveVars, boundVars
  <2> QED BY <1>1, <2>2, <2>3
<1>2. ASSUME NEW m \in Managers, AcceptMoves(m)
      PROVE  HandTypeInv'
  BY <1>2, MovedType DEF AcceptMoves, HandTypeInv, MoveTypeOK
<1>3. ASSUME NEW m \in Managers, AcceptWaits(m)
      PROVE  HandTypeInv'
  BY <1>3 DEF AcceptWaits, HandTypeInv, PieceTypeOK, MoveTypeOK, OpenHandover, pieceVars, boundVars
<1>4. CASE ConnectChat
  <2>1. ask' \in [Pieces -> Request]
    BY <1>4 DEF ConnectChat, HandTypeInv, PieceTypeOK, Request
  <2> QED BY <1>4, <2>1 DEF ConnectChat, HandTypeInv, PieceTypeOK, MoveTypeOK, OpenHandover, boundVars
<1>5. CASE DeadlinePasses \/ SweepSettles \/ OperatorEnds \/ SettleLost
  <2>1. PieceTypeOK'
    BY <1>5, KeptPieces DEF DeadlinePasses, SweepSettles, OperatorEnds, SettleLost, EndHandover, HandTypeInv
  <2>2. CASE DeadlinePasses
    BY <2>1, <2>2 DEF DeadlinePasses, HandTypeInv, MoveTypeOK, OpenHandover, moveVars, boundVars
  <2>3. CASE SweepSettles
    BY <2>1, <2>3 DEF SweepSettles, HandTypeInv, MoveTypeOK, OpenHandover, moveVars, boundVars
  <2>4. CASE OperatorEnds
    BY <2>1, <2>4 DEF OperatorEnds, EndHandover, HandTypeInv, MoveTypeOK, OpenHandover, moveVars, boundVars
  <2>5. CASE SettleLost
    <3>1. lostAttempts' \in 0..MaxLost
      BY <2>5, BoundsNat DEF SettleLost, HandTypeInv, MoveTypeOK
    <3> QED BY <2>1, <2>5, <3>1 DEF SettleLost, HandTypeInv, MoveTypeOK, OpenHandover, moveVars
  <2> QED BY <1>5, <2>2, <2>3, <2>4, <2>5
<1>6. CASE Settle \/ SettleAfterRun
  <2>1. settleJobs' \in 0..2 /\ settleAsked' \in BOOLEAN /\ counting' \in BOOLEAN
    <3>1. settleJobs' \in 0..2
      <4>1. settleJobs \in 0..2
        BY DEF HandTypeInv, MoveTypeOK
      <4>2. CASE Settle
        BY <4>1, <4>2 DEF Settle
      <4>3. CASE SettleAfterRun
        BY <4>1, <4>3 DEF SettleAfterRun
      <4> QED BY <1>6, <4>2, <4>3
    <3>2. settleAsked' \in BOOLEAN
      BY <1>6, Zenon DEF Settle, SettleAfterRun, HandTypeInv, MoveTypeOK
    <3>3. counting' \in BOOLEAN
      BY <1>6, Zenon DEF Settle, SettleAfterRun, HandTypeInv, MoveTypeOK
    <3> QED BY <3>1, <3>2, <3>3
  <2>2. SettleReturns \/ SettleThrows
    BY <1>6 DEF Settle, SettleAfterRun
  <2>3. CASE BeingHandedOver /\ MayMove /\ Move(toOwner)
    BY <2>1, <2>3, MovedType DEF BeingHandedOver, HandTypeInv, OpenHandover
  <2>4. CASE ~(BeingHandedOver /\ MayMove /\ Move(toOwner))
    BY <2>1, <2>2, <2>4 DEF SettleReturns, SettleThrows, EndHandover, HandTypeInv, PieceTypeOK, MoveTypeOK,
                            OpenHandover, pieceVars, moveVars, boundVars
  <2> QED BY <2>3, <2>4
<1>7. CASE RecordSettleFailure
  <2>1. PieceTypeOK'
    BY <1>7, KeptPieces DEF RecordSettleFailure, EndHandover, HandTypeInv
  <2>2. /\ UNCHANGED <<owner, toOwner, dmOf, overdue, lostAttempts, handovers, settleJobs, settleAsked>>
        /\ counting' = FALSE
    BY <1>7 DEF RecordSettleFailure, EndHandover, moveVars, boundVars
  <2>3. /\ transfer' \in {transfer, "closed"}
        /\ settleFailures' = settleFailures \/ (settleFailures' = settleFailures + 1 /\ transfer = "accepting")
        /\ transfer' = transfer => (settleFailures' = settleFailures \/ settleFailures' < EndAfter)
    BY <1>7 DEF RecordSettleFailure, BeingHandedOver, Counted, EndHandover, HandTypeInv, MoveTypeOK
  <2>4. settleFailures' \in 0..EndAfter
    BY <2>3 DEF HandTypeInv, MoveTypeOK, OpenHandover
  <2> QED BY <2>1, <2>2, <2>3, <2>4 DEF HandTypeInv, MoveTypeOK, OpenHandover
<1>8. CASE UNCHANGED handVars
  BY <1>8 DEF handVars, HandTypeInv, PieceTypeOK, MoveTypeOK, OpenHandover, transferVars, pieceVars, moveVars,
              boundVars
<1> QED BY <1>1, <1>2, <1>3, <1>4, <1>5, <1>6, <1>7, <1>8, PieceType DEF HandNext

LEMMA HandTypeInit == HandInit => HandTypeInv
<1> SUFFICES ASSUME HandInit PROVE HandTypeInv
  OBVIOUS
<1>1. PieceTypeOK
  BY BoundsNat DEF HandInit, PieceTypeOK, PieceStates, Request
<1>2. MoveTypeOK /\ OpenHandover
  <2>1. 0 \in 0..2 /\ 0 \in 0..MaxLost /\ 0 \in 0..MaxHandovers
    BY BoundsNat
  <2>2. owner \in Managers /\ dmOf \in Managers /\ toOwner = Nobody /\ transfer = "none"
    BY ManagerAssumption, Zenon DEF HandInit
  <2>3. settleAsked = FALSE /\ overdue = FALSE /\ counting = FALSE /\ settleJobs = 0 /\ settleFailures = 0
        /\ lostAttempts = 0 /\ handovers = 0
    BY Zenon DEF HandInit
  <2> QED BY <2>1, <2>2, <2>3, BoundsNat DEF MoveTypeOK, OpenHandover
<1> QED BY <1>1, <1>2 DEF HandTypeInv

-----------------------------------------------------------------------------
(* Whose word the work runs on, and whom a parked row asked. *)

\* The employee's DM is its owner's; a request went to somebody, and only a
\* parked row carries one.
DmIsOwners == dmOf # Nobody => dmOf = owner
AskedSomebody == \A i \in Pieces : ask[i] # "none" => askedOf[i] # Nobody /\ Parked(i)

WordInv == DmIsOwners /\ AskedSomebody /\ RunsOnItsOwnersWord /\ AskedOfItsOwner

\* A step that moves no piece and nobody's DM.
LEMMA KeptWord ==
  ASSUME WordInv, UNCHANGED <<owner, dmOf, pieceVars>>
  PROVE  WordInv'
BY DEF WordInv, DmIsOwners, AskedSomebody, RunsOnItsOwnersWord, AskedOfItsOwner, Parked, pieceVars

\* A step of one piece.
LEMMA PieceWord ==
  ASSUME HandTypeInv, WordInv, NEW i \in Pieces,
         \/ ClaimRequest(i) \/ RecordPost(i) \/ ReplyApproves(i) \/ ClickApproves(i)
         \/ StartRun(i) \/ StartApply(i) \/ HoldSet(i) \/ RunGoesBack(i)
         \/ EndPiece(i, "completed") \/ EndPiece(i, "failed") \/ RetryPiece(i)
  PROVE  WordInv'
<1>1. /\ UNCHANGED <<owner, dmOf>>
      /\ \A j \in Pieces \ {i} : /\ piece'[j] = piece[j] /\ saidBy'[j] = saidBy[j]
                                 /\ ask'[j] = ask[j] /\ askedOf'[j] = askedOf[j]
  BY DEF ClaimRequest, RecordPost, ReplyApproves, ClickApproves, Decide, StartRun, StartApply, HoldSet,
         RunGoesBack, EndPiece, RetryPiece, HandTypeInv, PieceTypeOK, transferVars, moveVars
<1>2. /\ ask'[i] # "none" => askedOf'[i] # Nobody /\ piece'[i] \in {"planPending", "setPending"}
      /\ piece'[i] \in InFlightStates \cup {"planApproved", "setApproved"} => saidBy'[i] = owner
      /\ ask'[i] \in {"claimed", "delivered"} => askedOf'[i] = owner
  <2> USE DEF HandTypeInv, PieceTypeOK, WordInv, DmIsOwners, AskedSomebody, RunsOnItsOwnersWord,
              AskedOfItsOwner, Parked, InFlightStates
  <2>1. CASE ClaimRequest(i) \/ RecordPost(i)
    BY <2>1 DEF ClaimRequest, RecordPost
  <2>2. CASE ReplyApproves(i) \/ ClickApproves(i)
    BY <2>2 DEF ReplyApproves, ClickApproves, Decide
  <2>3. CASE StartRun(i) \/ StartApply(i) \/ RetryPiece(i)
    BY <2>3 DEF StartRun, StartApply, RetryPiece
  <2>4. CASE HoldSet(i) \/ RunGoesBack(i) \/ EndPiece(i, "completed") \/ EndPiece(i, "failed")
    BY <2>4 DEF HoldSet, RunGoesBack, EndPiece
  <2> QED BY <2>1, <2>2, <2>3, <2>4
<1> QED BY <1>1, <1>2 DEF WordInv, DmIsOwners, AskedSomebody, RunsOnItsOwnersWord, AskedOfItsOwner, Parked

\* The move: what ran is stopped, what was approved waits again, and no
\* request of the old manager's counts.
LEMMA MovedWord ==
  ASSUME HandTypeInv, WordInv, NEW to, Move(to)
  PROVE  WordInv'
<1>1. \A i \in Pieces :
        /\ piece'[i] \notin InFlightStates \cup {"planApproved", "setApproved"}
        /\ Parked(i) => piece'[i] = piece[i]
  BY DEF Move, Returned, Stopped, RunsInFlight, InFlightStates, Parked, HandTypeInv, PieceTypeOK
<1>2. \A i \in Pieces :
        /\ ask'[i] \notin {"claimed", "delivered"}
        /\ ask'[i] # "none" => askedOf'[i] = askedOf[i] /\ ask[i] # "none"
  BY DEF Move, Voided, WordInv, AskedSomebody, HandTypeInv, PieceTypeOK, Request
<1>3. dmOf' = Nobody
  BY DEF Move
<1> QED BY <1>1, <1>2, <1>3 DEF WordInv, DmIsOwners, AskedSomebody, RunsOnItsOwnersWord, AskedOfItsOwner, Parked

LEMMA WordStep == HandTypeInv /\ WordInv /\ [HandNext]_handVars => WordInv'
<1> SUFFICES ASSUME HandTypeInv, WordInv, [HandNext]_handVars
             PROVE  WordInv'
  OBVIOUS
<1>1. ASSUME NEW m \in Managers, AcceptMoves(m)
      PROVE  WordInv'
  BY <1>1, MovedWord DEF AcceptMoves
<1>2. CASE ConnectChat
  <2>1. /\ dmOf' = owner /\ UNCHANGED <<owner, piece, saidBy, askedOf>>
        /\ \A i \in Pieces : ask'[i] = ask[i] \/ (ask[i] # "none" /\ ask'[i] = "failed")
    BY <1>2 DEF ConnectChat, HandTypeInv, PieceTypeOK
  <2> QED BY <2>1 DEF WordInv, DmIsOwners, AskedSomebody, RunsOnItsOwnersWord, AskedOfItsOwner, Parked
<1>3. CASE Settle \/ SettleAfterRun
  <2>1. UNCHANGED <<owner, dmOf, pieceVars>> \/ Move(toOwner)
    BY <1>3 DEF Settle, SettleAfterRun, SettleReturns, SettleThrows, EndHandover, moveVars
  <2> QED BY <2>1, KeptWord, MovedWord
<1>4. CASE AskHandover \/ CloseAsked \/ (\E m \in Managers : AcceptWaits(m)) \/ DeadlinePasses \/ SweepSettles
           \/ RecordSettleFailure \/ SettleLost \/ OperatorEnds \/ UNCHANGED handVars
  <2>1. UNCHANGED <<owner, dmOf, pieceVars>>
    BY <1>4 DEF AskHandover, CloseAsked, AcceptWaits, DeadlinePasses, SweepSettles, RecordSettleFailure,
                EndHandover, SettleLost, OperatorEnds, moveVars, handVars, transferVars
  <2> QED BY <2>1, KeptWord
<1> QED BY <1>1, <1>2, <1>3, <1>4, PieceWord DEF HandNext

LEMMA WordInit == HandInit => WordInv
BY DEF HandInit, WordInv, DmIsOwners, AskedSomebody, RunsOnItsOwnersWord, AskedOfItsOwner, InFlightStates

\* Whenever a piece runs, or stands approved, it is on the word of the manager
\* the employee reports to: no approval outlives the move, however the runs
\* ended before it (returnApprovalsForHandover, stopRunsForHandover).
THEOREM OwnersWord == HandSpec => []RunsOnItsOwnersWord
<1>1. WordInv => RunsOnItsOwnersWord
  BY DEF WordInv
<1> QED BY <1>1, HandTypeInit, HandTypeStep, WordInit, WordStep, PTL DEF HandSpec

\* A parked row that counts as asked was asked of the manager it has now
\* (voidDecisionRequestsForHandover, requestDecision).
THEOREM AskedOwner == HandSpec => []AskedOfItsOwner
<1>1. WordInv => AskedOfItsOwner
  BY DEF WordInv
<1> QED BY <1>1, HandTypeInit, HandTypeStep, WordInit, WordStep, PTL DEF HandSpec
=============================================================================

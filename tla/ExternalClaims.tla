--------------------------- MODULE ExternalClaims ---------------------------
(***************************************************************************)
(* The owner-wide claims of convex/workClaims.ts: one provider ticket that *)
(* several employees of an owner find, and one page field that several     *)
(* plans write.  A row takes the ticket with its claim verdict, a run      *)
(* takes the field before it authors and a ticket it wrote after it        *)
(* landed.  Who lets go, and how, is spread over the managers' decisions,  *)
(* the withdrawal of a ticket, a skill's end and the lazy release of       *)
(* whoever next asks.                                                      *)
(*                                                                         *)
(* A transaction is a step.  Retired employees' claims (convex/reset.ts),  *)
(* a second name of one ticket, and the tickets' own write guard are left  *)
(* out.                                                                    *)
(***************************************************************************)
EXTENDS Integers

CONSTANTS Finders,   \* rows discovered from the ticket, each of another employee
          Askers,    \* rows discovered from a message, whose plan may name the ticket
          MaxSendBacks \* bound: retries, and tickets listed again

ASSUME WorkRowAssumption == Finders \cap Askers = {}
ASSUME SendBackAssumption == MaxSendBacks \in Nat

WorkRows == Finders \cup Askers
ClaimKeys == {"ticket", "field"}
NoRefusal == <<>>

ItemStates == {"absent", "discovered", "needsSkill", "claimed", "planned", "executing",
               "completed", \* all done, with a comment on the ticket it was found from
               "failed",    \* or completed otherwise
               "cancelled", "withdrawn", "skipped"}

VARIABLES
  work,      \* state
  refusedBy, \* verdict.claimedBy: the row and the key of the claim that refused it
  claimsOn,  \* the claims not released, by key: <<g, h>> when g's is no newer than h's
  settled,   \* settledAt of each: the rows that existed then, {} while its holder runs
  waived,    \* settledWaivedAt
  run,       \* where the row's run is
  sendBacks

claimVars == <<work, refusedBy, claimsOn, settled, waived, run, sendBacks>>

ClaimTypeOK ==
  /\ work \in [WorkRows -> ItemStates]
  /\ refusedBy \in [WorkRows -> {NoRefusal} \cup WorkRows \X ClaimKeys]
  /\ claimsOn \in [ClaimKeys -> SUBSET (WorkRows \X WorkRows)]
  /\ settled \in [ClaimKeys -> [WorkRows -> SUBSET WorkRows]]
  /\ waived \subseteq WorkRows /\ sendBacks \in 0..MaxSendBacks
  /\ run \in [WorkRows -> {"none", "begun", "plain", "holding", "told", "cleared", "applied"}]

ClaimInit ==
  /\ work = [r \in WorkRows |-> "absent"] /\ refusedBy = [r \in WorkRows |-> NoRefusal]
  /\ claimsOn = [k \in ClaimKeys |-> {}]
  /\ settled = [k \in ClaimKeys |-> [r \in WorkRows |-> {}]]
  /\ waived = {} /\ run = [r \in WorkRows |-> "none"] /\ sendBacks = 0

-----------------------------------------------------------------------------
(***************************************************************************)
(* Reading and releasing.                                                  *)
(***************************************************************************)

IsItemClaim(h, k) == k = "ticket" /\ h \in Finders  \* else it has a writeTarget
LetGo(h) == work[h] \in {"cancelled", "withdrawn", "skipped"}  \* RELEASED_HOLDER_STATES

\* holdsAgainst: a finished writer's claim gives way to a row created later.
HoldsAgainst(h, k, r) ==
  IsItemClaim(h, k) \/ settled[k][h] = {} \/ r \in settled[k][h]

\* releaseClaim, of the claims (row and key) in cs, and what they refused:
\* each refused row goes back to be judged.
\* Mutant: the claim is stamped, and nobody is told.
ReleasedSilently(cs) == [r \in WorkRows |-> refusedBy[r]]
Unrefused(cs) == [r \in WorkRows |-> IF refusedBy[r] \in cs THEN NoRefusal ELSE refusedBy[r]]
Without(cs) ==
  [k \in ClaimKeys |-> {p \in claimsOn[k] : <<p[1], k>> \notin cs /\ <<p[2], k>> \notin cs}]
SentBackWith(cs) ==
  [r \in WorkRows |-> IF refusedBy[r] # NoRefusal /\ Unrefused(cs)[r] = NoRefusal
                      THEN "discovered" ELSE work[r]]
\* ClaimsOf: releaseExternalClaim's; releaseItemClaim keeps the field.
ClaimsOf(r) == {r} \X ClaimKeys
HeldBy(r, k) == <<r, r>> \in claimsOn[k]
Holders(k) == {r \in WorkRows : HeldBy(r, k)}

\* liveClaimOn: where the read of the key's claims stops, at the row's own
\* or at the first that holds against it, and the claims it releases on the
\* way there.
StopsAt(r, k) ==
  LET stops == {h \in Holders(k) : h = r \/ (~LetGo(h) /\ HoldsAgainst(h, k, r))}
  IN {h \in stops : \A g \in stops : <<h, g>> \in claimsOn[k]}
Lapsed(r, k) ==
  {<<h, k>> : h \in {x \in Holders(k) : LetGo(x) /\ \A s \in StopsAt(r, k) : <<s, x>> \notin claimsOn[k]}}
HolderFor(r, k) == {<<h, k>> : h \in StopsAt(r, k) \ {r}}

\* settledByColleague, of an ask that names the ticket.
SettledFor(r) ==
  IF r \notin Askers \/ r \in waived THEN {}
  ELSE {<<h, "ticket">> : h \in {x \in Holders("ticket") \cap Finders : work[x] = "completed"}}

-----------------------------------------------------------------------------
(***************************************************************************)
(* A row is judged.                                                        *)
(***************************************************************************)

Discover(r) ==
  /\ work[r] = "absent"
  /\ work' = [work EXCEPT ![r] = "discovered"]
  /\ UNCHANGED <<refusedBy, claimsOn, settled, waived, run, sendBacks>>

\* A row is refused the ticket, by the claim c, once the lapsed claims are
\* released.
Refuse(r, c, lapsed) ==
  /\ work' = [SentBackWith(lapsed) EXCEPT ![r] = "skipped"]
  /\ refusedBy' = [Unrefused(lapsed) EXCEPT ![r] = c]
  /\ claimsOn' = Without(lapsed)

\* The ticket of a row: an asker's own message is nobody else's.
LapsedFor(r) == IF r \in Finders THEN Lapsed(r, "ticket") ELSE {}
ItemHolder(r) == IF r \in Finders THEN HolderFor(r, "ticket") ELSE {}

\* claimLoopStep: a row a colleague holds is not evaluated; else only the
\* lapsed claims go.
BeginEvaluation(r) ==
  /\ work[r] = "discovered"
  /\ \/ \E c \in ItemHolder(r) \cup SettledFor(r) : Refuse(r, c, LapsedFor(r))
     \/ /\ ItemHolder(r) \cup SettledFor(r) = {}
        /\ work' = SentBackWith(LapsedFor(r)) /\ refusedBy' = Unrefused(LapsedFor(r))
        /\ claimsOn' = Without(LapsedFor(r))
  /\ UNCHANGED <<settled, waived, run, sendBacks>>

MayTakeClaims(r) == work[r] \in {"discovered", "needsSkill"}

\* The claims c, and a newer one of r's on k.
Joined(c, k, r) == [c EXCEPT ![k] = @ \cup ({h \in WorkRows : h = r \/ <<h, h>> \in @} \X {r})]

\* takeExternalClaim and the move to st.
\* Mutant: the owner's other employees are not asked.
UnheldUnasked(r) == TRUE
Unheld(r) == ItemHolder(r) = {}
TakeItem(r, st) ==
  /\ Unheld(r)
  /\ work' = [SentBackWith(LapsedFor(r)) EXCEPT ![r] = st]
  /\ refusedBy' = Unrefused(LapsedFor(r))
  /\ claimsOn' = IF r \in Askers \/ HeldBy(r, "ticket") THEN Without(LapsedFor(r))
                 ELSE Joined(Without(LapsedFor(r)), "ticket", r)

\* applyVerdict of a claim.
VerdictClaims(r) ==
  /\ MayTakeClaims(r)
  /\ TakeItem(r, "claimed") \/ \E c \in ItemHolder(r) : Refuse(r, c, LapsedFor(r))
  /\ UNCHANGED <<settled, waived, run, sendBacks>>

\* applyVerdict of a verdict that parks the row: it takes nothing.
VerdictParks(r) ==
  /\ MayTakeClaims(r)
  /\ \/ \E c \in ItemHolder(r) \cup SettledFor(r) : Refuse(r, c, LapsedFor(r))
     \/ /\ ItemHolder(r) \cup SettledFor(r) = {}
        /\ work' = [SentBackWith(LapsedFor(r)) EXCEPT ![r] = "needsSkill"]
        /\ refusedBy' = Unrefused(LapsedFor(r)) /\ claimsOn' = Without(LapsedFor(r))
  /\ UNCHANGED <<settled, waived, run, sendBacks>>

\* applyVerdict of a skip: the claim a row was parked with stays.
VerdictSkips(r) ==
  /\ MayTakeClaims(r)
  /\ work' = [work EXCEPT ![r] = "skipped"]
  /\ UNCHANGED <<refusedBy, claimsOn, settled, waived, run, sendBacks>>

\* moveWaitingWork, when the skill a row waits for registers.
SkillRegisters(r) ==
  /\ work[r] = "needsSkill"
  /\ work' = [work EXCEPT ![r] = "discovered"]
  /\ UNCHANGED <<refusedBy, claimsOn, settled, waived, run, sendBacks>>

\* The plan is drafted; or an approved one has no callable skill any more and
\* is parked, its claim kept (parkForSkill).
DraftPlan(r) ==
  /\ work[r] = "claimed"
  /\ work' = [work EXCEPT ![r] = "planned"]
  /\ UNCHANGED <<refusedBy, claimsOn, settled, waived, run, sendBacks>>

ParkForSkill(r) ==
  /\ work[r] = "planned"
  /\ work' = [work EXCEPT ![r] = "needsSkill"]
  /\ UNCHANGED <<refusedBy, claimsOn, settled, waived, run, sendBacks>>

-----------------------------------------------------------------------------
(***************************************************************************)
(* A run of an approved plan.                                              *)
(***************************************************************************)

BeginRun(r) ==
  /\ work[r] = "planned"
  /\ work' = [work EXCEPT ![r] = "executing"] /\ run' = [run EXCEPT ![r] = "begun"]
  /\ UNCHANGED <<refusedBy, claimsOn, settled, waived, sendBacks>>

\* The claims on the field that give way to a row about to author.
GivesWay(r) ==
  {<<h, "field">> : h \in {x \in Holders("field") \ {r} :
                             LetGo(x) \/ ~HoldsAgainst(x, "field", r)}}
\* Mutant: the stamp of an earlier run stands.
SettledStands(r) == settled
Reopened(r) == [settled EXCEPT !["field"][r] = {}]

\* takeWriteTargetClaims: the first to ask holds the field; a later one is
\* refused nothing here.
TakeField(r) ==
  /\ work[r] = "executing" /\ run[r] = "begun"
  /\ LET left == Without(GivesWay(r))
     IN /\ claimsOn' = IF left["field"] = {} THEN Joined(left, "field", r) ELSE left
        /\ run' = [run EXCEPT ![r] = IF left["field"] \in {{}, {<<r, r>>}} THEN "holding" ELSE "told"]
  /\ work' = SentBackWith(GivesWay(r)) /\ refusedBy' = Unrefused(GivesWay(r))
  /\ settled' = Reopened(r)
  /\ UNCHANGED <<waived, sendBacks>>

\* Its plan names no field.
AuthorPlain(r) ==
  /\ work[r] = "executing" /\ run[r] = "begun"
  /\ run' = [run EXCEPT ![r] = "plain"]
  /\ UNCHANGED <<work, refusedBy, claimsOn, settled, waived, sendBacks>>

\* writeClaimHolder, before the field is filled; another row's claim
\* withholds the fill, and the run goes on.
FieldFree(r) ==
  \/ HeldBy(r, "field")
  \/ \A h \in Holders("field") : LetGo(h) \/ ~HoldsAgainst(h, "field", r)
AskTheGuard(r) ==
  /\ run[r] \in {"holding", "told"}
  /\ run' = [run EXCEPT ![r] = IF FieldFree(r) THEN "cleared" ELSE "applied"]
  /\ UNCHANGED <<work, refusedBy, claimsOn, settled, waived, sendBacks>>

FillField(r) ==
  /\ run[r] = "cleared"
  /\ run' = [run EXCEPT ![r] = "applied"]
  /\ UNCHANGED <<work, refusedBy, claimsOn, settled, waived, sendBacks>>

\* claimLandedTicketWrites of a run that wrote the ticket, if nobody holds it.
ClaimLanded(r) ==
  /\ work[r] = "executing" /\ run[r] = "plain"
  /\ run' = [run EXCEPT ![r] = "applied"]
  /\ claimsOn' = IF r \in Askers /\ claimsOn["ticket"] = {} THEN Joined(claimsOn, "ticket", r) ELSE claimsOn
  /\ settled' = IF claimsOn' = claimsOn THEN settled ELSE [settled EXCEPT !["ticket"][r] = {}]
  /\ UNCHANGED <<work, refusedBy, waived, sendBacks>>

\* settleWriteTargetClaims.
Settled(r) ==
  LET existing == {x \in WorkRows : work[x] # "absent"}
  IN [k \in ClaimKeys |->
        IF HeldBy(r, k) /\ ~IsItemClaim(r, k) THEN [settled[k] EXCEPT ![r] = existing]
        ELSE settled[k]]

\* setCompleted, or setFailed and the recoveries; a run is stopped or dies
\* anywhere.  What it releases is given by cs.
EndRun(r, st, cs) ==
  /\ work' = [SentBackWith(cs) EXCEPT ![r] = st] /\ refusedBy' = Unrefused(cs)
  /\ claimsOn' = Without(cs) /\ settled' = Settled(r) /\ run' = [run EXCEPT ![r] = "none"]
  /\ UNCHANGED <<waived, sendBacks>>

CompleteRun(r) == work[r] = "executing" /\ run[r] = "applied" /\ EndRun(r, "completed", {})
FailRun(r) == work[r] = "executing" /\ EndRun(r, "failed", {})
\* rejectActions: the ticket goes, a field it wrote does not (releaseItemClaim).
RejectActions(r) ==
  /\ work[r] = "executing" /\ run[r] \in {"plain", "holding", "told"}
  /\ EndRun(r, "failed", {c \in ClaimsOf(r) : IsItemClaim(c[1], c[2])})

-----------------------------------------------------------------------------
(***************************************************************************)
(* Letting go, and sending back.                                           *)
(***************************************************************************)

LetGoOf(r, st) ==
  /\ work' = [SentBackWith(ClaimsOf(r)) EXCEPT ![r] = st]
  /\ refusedBy' = Unrefused(ClaimsOf(r)) /\ claimsOn' = Without(ClaimsOf(r))
  /\ UNCHANGED <<settled, waived, run, sendBacks>>

\* cancelPlan, of a plan that awaits its decision; a rejected skill cancels
\* what waits for it (moveWaitingWork).
Cancel(r) == work[r] \in {"planned", "needsSkill"} /\ LetGoOf(r, "cancelled")

\* refreshListedItem: the ticket left the queue, and is back.
WithdrawTicket(r) ==
  /\ r \in Finders /\ work[r] \in {"discovered", "needsSkill", "claimed"}
  /\ LetGoOf(r, "withdrawn")
ListAgain(r) ==
  /\ work[r] = "withdrawn" /\ sendBacks < MaxSendBacks
  /\ work' = [work EXCEPT ![r] = "discovered"] /\ sendBacks' = sendBacks + 1
  /\ UNCHANGED <<refusedBy, claimsOn, settled, waived, run>>

\* retryFailed: a skip is judged afresh; what ended past its verdict takes
\* its item again, or the Retry is refused.
RetryRow(r) ==
  /\ sendBacks < MaxSendBacks /\ sendBacks' = sendBacks + 1
  /\ \/ /\ work[r] = "skipped"
        /\ work' = [work EXCEPT ![r] = "discovered"]
        /\ refusedBy' = [refusedBy EXCEPT ![r] = NoRefusal]
        /\ waived' = IF refusedBy[r] = NoRefusal THEN waived ELSE waived \cup {r}
        /\ UNCHANGED claimsOn
     \/ /\ work[r] \in {"completed", "failed", "cancelled", "withdrawn"}
        /\ \E st \in {"claimed"} \cup (IF work[r] \in {"completed", "failed"}
                                       THEN {"planned"} ELSE {}) : TakeItem(r, st)
        /\ UNCHANGED waived
     \/ /\ work[r] \in {"cancelled", "withdrawn"}  \* its verdict was no claim
        /\ work' = [work EXCEPT ![r] = "discovered"]
        /\ UNCHANGED <<refusedBy, claimsOn, waived>>
  /\ UNCHANGED <<settled, run>>

ClaimNext == \E r \in WorkRows :
  \/ Discover(r) \/ BeginEvaluation(r) \/ VerdictClaims(r) \/ VerdictParks(r) \/ VerdictSkips(r)
  \/ SkillRegisters(r) \/ DraftPlan(r) \/ ParkForSkill(r)
  \/ BeginRun(r) \/ TakeField(r) \/ AuthorPlain(r) \/ AskTheGuard(r) \/ FillField(r)
  \/ ClaimLanded(r) \/ CompleteRun(r) \/ FailRun(r) \/ RejectActions(r)
  \/ Cancel(r) \/ WithdrawTicket(r) \/ ListAgain(r) \/ RetryRow(r)

ClaimSpec == ClaimInit /\ [][ClaimNext]_claimVars

\* Whoever is sent back is judged (the loop's queue, which is WorkQueue's).
JudgeRow(r) == BeginEvaluation(r) \/ VerdictClaims(r) \/ VerdictParks(r) \/ VerdictSkips(r)
ClaimFairSpec == ClaimSpec /\ \A r \in WorkRows : WF_claimVars(JudgeRow(r))

-----------------------------------------------------------------------------
(***************************************************************************)
(* Properties.                                                             *)
(***************************************************************************)

\* Employees meet on one ticket and one field: no two rows that have not let
\* go hold the ticket they were found from, and no two hold the field,
\* through retries, withdrawals and lapsed claims (takeExternalClaim,
\* takeWriteTargetClaims).
OneHolder ==
  /\ \A g, h \in Holders("ticket") \cap Finders : LetGo(g) \/ LetGo(h) \/ g = h
  /\ \A g, h \in Holders("field") : g = h

\* A row skipped for a colleague's hold is behind a claim that still stands:
\* whichever path released it sent the row back in the same transaction, for
\* nothing later would (releaseClaim, reevaluatePendingInTransaction).
RefusedByALiveClaim ==
  \A r \in WorkRows : refusedBy[r] # NoRefusal =>
    work[r] = "skipped" /\ HeldBy(refusedBy[r][1], refusedBy[r][2])

\* A run that took the field keeps it until it asks to fill it: the claim of
\* an earlier run of the row, settled when that one ended, is open again, so
\* a row that came since does not take the field from under it.
FieldKept == \A r \in WorkRows : run[r] = "holding" => HeldBy(r, "field")

\* The claims as ClaimBook has them.  Of two claims on a thing one must give
\* way but for a finder's and an asker's of the ticket; a ticket is needed by
\* whoever found it and has not let go, a field by the run that took it.
BookClaims == WorkRows \X ClaimKeys
BookHeld == {c \in BookClaims : HeldBy(c[1], c[2])}
BookClash ==
  {p \in BookClaims \X BookClaims :
     /\ p[1] # p[2] /\ p[1][2] = p[2][2]
     /\ p[1][2] = "field" \/ (p[1][1] \in Finders <=> p[2][1] \in Finders)}
BookNeeded ==
  {c \in BookClaims : IF c[2] = "field" THEN run[c[1]] \in {"holding", "cleared"} ELSE ~LetGo(c[1])}
BookActive == {r \in WorkRows : ~LetGo(r) /\ work[r] # "failed"}
Book == INSTANCE ClaimBook WITH
  Rows <- WorkRows, Things <- ClaimKeys, Clash <- BookClash, Nothing <- NoRefusal,
  held <- BookHeld, needed <- BookNeeded, active <- BookActive, told <- refusedBy

\* Every step of the rows is one the book allows: through retries, lapsed and
\* settled claims, a claim is taken from nobody who needs it, its row is never
\* refused by itself, and whoever it refused is freed as it goes.  A run that
\* took the field has it open until it asks to fill it: a row that came since
\* does not take it from under it (takeExternalClaim, takeWriteTargetClaims,
\* releaseClaim).
KeepsTheBook == Book!Spec

\* The comment at liveClaimOn: a claim whose holder was cancelled or skipped
\* cannot keep the item from the company for good.
NotKeptForGood ==
  \A r \in WorkRows :
    (refusedBy[r] # NoRefusal /\ LetGo(refusedBy[r][1])) ~> refusedBy[r] = NoRefusal
=============================================================================

----------------------------- MODULE TokenLife -----------------------------
(***************************************************************************)
(* One OAuth pair (an access token's row and its refresh token's row) from *)
(* its landing to its revocation: the refreshes of src/surfaces/           *)
(* token-store.ts under the lease of convex/refreshLease.ts, the           *)
(* rotation-safe write (mcpOauth.rotateTokens), and the end of access held *)
(* for the vendor by convex/sourceRevocation.ts.                           *)
(*                                                                         *)
(* A refresh token is the number of the pair the issuer issued it with.    *)
(* Refreshes are Node actions: those of Readers serve a read, the one of   *)
(* Timer is the scheduled refresh.                                         *)
(***************************************************************************)
EXTENDS Integers, FiniteSets

CONSTANTS Readers,      \* the refreshes made for a read of the token
          Timer,        \* the scheduled refresh
          MaxPairs,     \* bound: how many pairs the issuer issues
          MaxRetries,   \* retries of a scheduled refresh
          MaxCalls      \* attempts at a revocation (three offsets in the code)

ASSUME TimerAssumption == Timer \notin Readers
ASSUME LeaseAssumption == {"free", "dead"} \cap (Readers \cup {Timer}) = {}
ASSUME PairsAssumption == MaxPairs \in Nat /\ MaxRetries \in Nat
ASSUME AttemptsAtAssumption == MaxCalls \in Nat \ {0}

Refreshes == Readers \cup {Timer}
Pairs == 0..MaxPairs
NoPair == -1
Attempts == 1..MaxCalls

VARIABLES
  \* the two rows
  generation,     \* generation of the access token's row
  storedPair,     \* the pair whose values the rows hold, NoPair once deleted
  lease,          \* who holds refreshingUntil: "free", a refresh, or "dead"
  revocation,     \* sourceRevocation: "none", "pending", "done", "failed"
  revokeAttempts, \* sourceRevocation.attempts
  \* the scheduler
  refreshQueued,  \* the generation a scheduled refresh is queued for, or -1
  retries,        \* the attempt number it carries
  refusalTold,    \* a refusal is on the cards' record for the generation held
  nextJob,        \* what the revocation has scheduled: "none", "attempt", "expire"
  \* the refreshes
  step,           \* where each is
  readGen,        \* the generation it read
  presented,      \* the refresh token its claim handed it
  issuedTo,       \* the pair the issuer gave it
  outcome,        \* what it ends with: "ok", "refused", "unreachable"
  \* the attempts at the vendor
  call,           \* "none", "calling", "revoked", "failed", "ended"
  \* the issuer
  issued,         \* the newest pair it issued
  liveTokens,     \* the pairs whose refresh token it accepts
  \* for the properties
  adrift,         \* pairs issued whose holder died, or that Day0 let lapse
  timerDied       \* a scheduled refresh was killed

rowVars == <<generation, storedPair, lease>>
endVars == <<revocation, revokeAttempts, nextJob, call>>
timerVars == <<refreshQueued, retries, refusalTold, timerDied>>
refreshVars == <<step, readGen, presented, issuedTo, outcome>>
issuerVars == <<issued, liveTokens, adrift>>
tokenVars == <<rowVars, endVars, timerVars, refreshVars, issuerVars>>

TokenTypeOK ==
  /\ generation \in Pairs /\ storedPair \in Pairs \cup {NoPair}
  /\ lease \in Refreshes \cup {"free", "dead"}
  /\ revocation \in {"none", "pending", "done", "failed"}
  /\ revokeAttempts \in 0..MaxCalls
  /\ refreshQueued \in Pairs \cup {-1} /\ retries \in 0..MaxRetries
  /\ refusalTold \in BOOLEAN /\ timerDied \in BOOLEAN
  /\ nextJob \in {"none", "attempt", "expire"}
  /\ step \in [Refreshes -> {"idle", "held", "claimed", "answered", "discard", "release", "settle"}]
  /\ readGen \in [Refreshes -> Pairs]
  /\ presented \in [Refreshes -> Pairs \cup {NoPair}]
  /\ issuedTo \in [Refreshes -> Pairs \cup {NoPair}]
  /\ outcome \in [Refreshes -> {"ok", "refused", "unreachable"}]
  /\ call \in [Attempts -> {"none", "calling", "revoked", "failed", "ended"}]
  /\ issued \in Pairs /\ liveTokens \subseteq Pairs /\ adrift \subseteq Pairs

\* The authorisation has landed: generation 0, its refresh scheduled.
TokenInit ==
  /\ generation = 0 /\ storedPair = 0 /\ lease = "free"
  /\ revocation = "none" /\ revokeAttempts = 0 /\ nextJob = "none"
  /\ call = [n \in Attempts |-> "none"]
  /\ refreshQueued = 0 /\ retries = 0 /\ refusalTold = FALSE /\ timerDied = FALSE
  /\ step = [p \in Refreshes |-> "idle"] /\ readGen = [p \in Refreshes |-> 0]
  /\ presented = [p \in Refreshes |-> NoPair] /\ issuedTo = [p \in Refreshes |-> NoPair]
  /\ outcome = [p \in Refreshes |-> "ok"]
  /\ issued = 0 /\ liveTokens = {0} /\ adrift = {}

-----------------------------------------------------------------------------
\* holdsLiveValue, of both rows: an end of access revokes the two together.
LiveValue == revocation = "none" /\ storedPair # NoPair

\* A refresh is over: nothing of it is left.
EndRefresh(p) ==
  /\ step' = [step EXCEPT ![p] = "idle"] /\ readGen' = [readGen EXCEPT ![p] = 0]
  /\ presented' = [presented EXCEPT ![p] = NoPair]
  /\ issuedTo' = [issuedTo EXCEPT ![p] = NoPair]
  /\ outcome' = [outcome EXCEPT ![p] = "ok"]

\* What a refresh does next once it knows how it ends.
EndsWith(p, at, how) ==
  /\ step' = [step EXCEPT ![p] = at]
  /\ outcome' = [outcome EXCEPT ![p] = how]
  /\ UNCHANGED <<readGen, presented, issuedTo>>

\* A refresh reads the rows, for a token near its expiry or because the
\* schedule queued it for the generation the row still has.
ReadHeld(p) ==
  /\ step[p] = "idle" /\ LiveValue
  /\ p = Timer => refreshQueued = generation
  /\ refreshQueued' = IF p = Timer THEN -1 ELSE refreshQueued
  /\ step' = [step EXCEPT ![p] = "held"]
  /\ readGen' = [readGen EXCEPT ![p] = generation]
  /\ UNCHANGED <<rowVars, endVars, retries, refusalTold, timerDied, presented, issuedTo,
                 outcome, issuerVars>>

\* leaseDecision in the claiming transaction.
MayClaim(p) == LiveValue /\ generation = readGen[p] /\ lease = "free"

\* The lease is taken with the refresh token of the same snapshot.
ClaimLease(p) ==
  /\ step[p] = "held" /\ MayClaim(p)
  /\ lease' = p
  /\ step' = [step EXCEPT ![p] = "claimed"]
  /\ presented' = [presented EXCEPT ![p] = storedPair]
  /\ UNCHANGED <<generation, storedPair, endVars, timerVars, readGen, issuedTo, outcome,
                 issuerVars>>

\* The pair is gone or was moved on: the winner's token serves.  A refresh
\* that waited its polls out behind another's lease gives up.
ClaimRefusedLease(p) ==
  /\ step[p] = "held"
  /\ \/ ~LiveValue /\ EndsWith(p, "settle", "refused")
     \/ LiveValue /\ generation # readGen[p] /\ EndsWith(p, "settle", "ok")
     \/ LiveValue /\ generation = readGen[p] /\ lease # "free"
        /\ EndsWith(p, "settle", "unreachable")
  /\ UNCHANGED <<rowVars, endVars, timerVars, issuerVars>>

\* The issuer exchanges the token presented.  A spent one may be answered
\* with a sibling while the grant lives, and the answer may be lost.
Exchange(p) ==
  /\ step[p] = "claimed" /\ issued < MaxPairs
  /\ presented[p] \in liveTokens \/ liveTokens # {}
  /\ issued' = issued + 1 /\ liveTokens' = (liveTokens \ {presented[p]}) \cup {issued + 1}
  /\ \/ /\ step' = [step EXCEPT ![p] = "answered"]
        /\ issuedTo' = [issuedTo EXCEPT ![p] = issued + 1]
        /\ UNCHANGED <<outcome, adrift>>
     \/ /\ step' = [step EXCEPT ![p] = "release"]
        /\ outcome' = [outcome EXCEPT ![p] = "unreachable"]
        /\ adrift' = adrift \cup {issued + 1}
        /\ UNCHANGED issuedTo
  /\ UNCHANGED <<rowVars, endVars, timerVars, readGen, presented>>

\* A spent token is refused; a rotation it did not see gives the winner's.
ExchangeRefused(p) ==
  /\ step[p] = "claimed" /\ presented[p] \notin liveTokens
  /\ EndsWith(p, "release", IF generation # readGen[p] THEN "ok" ELSE "refused")
  /\ UNCHANGED <<rowVars, endVars, timerVars, issuerVars>>

ExchangeUnreachable(p) ==
  /\ step[p] = "claimed"
  /\ EndsWith(p, "release", "unreachable")
  /\ UNCHANGED <<rowVars, endVars, timerVars, issuerVars>>

\* Mutant: the write checks that the pair is live, not its generation.
RotationStandsUnfenced(p) == LiveValue
RotationStands(p) == LiveValue /\ generation = readGen[p]

\* rotateTokens: the new pair, the next generation and the end of the lease
\* in one write, with the next scheduled refresh.
Rotate(p) ==
  /\ step[p] = "answered" /\ RotationStands(p)
  /\ storedPair' = issuedTo[p] /\ lease' = "free"
  /\ generation' = readGen[p] + 1
  /\ refreshQueued' = readGen[p] + 1 /\ retries' = 0 /\ refusalTold' = FALSE
  /\ EndsWith(p, "release", "ok")
  /\ UNCHANGED <<endVars, timerDied, issuerVars>>

\* A loser's pair is left to lapse; one issued for a credential revoked
\* meanwhile is revoked at the issuer.
RotateRefused(p) ==
  /\ step[p] = "answered" /\ ~RotationStands(p)
  /\ IF LiveValue
     THEN /\ adrift' = adrift \cup {issuedTo[p]}
          /\ EndsWith(p, "release", "ok")
     ELSE EndsWith(p, "discard", "refused") /\ UNCHANGED adrift
  /\ UNCHANGED <<rowVars, endVars, timerVars, issued, liveTokens>>

\* Mutant: what was issued for a revoked credential is dropped.
DiscardNothing(p) ==
  /\ step[p] = "discard"
  /\ UNCHANGED <<liveTokens, adrift>>
  /\ EndsWith(p, "release", "refused")
  /\ UNCHANGED <<rowVars, endVars, timerVars, issued>>

\* Best effort: the issuer revokes it, or does not answer.
Discard(p) ==
  /\ step[p] = "discard"
  /\ \/ liveTokens' = liveTokens \ {issuedTo[p]} /\ UNCHANGED adrift
     \/ adrift' = adrift \cup {issuedTo[p]} /\ UNCHANGED liveTokens
  /\ EndsWith(p, "release", "refused")
  /\ UNCHANGED <<rowVars, endVars, timerVars, issued>>

\* Mutant: the release clears whichever lease the row carries.
ReleaseAny(p) == lease' = "free"
ReleaseOwn(p) == lease' = IF lease = p THEN "free" ELSE lease

Release(p) ==
  /\ step[p] = "release"
  /\ ReleaseOwn(p)
  /\ step' = [step EXCEPT ![p] = "settle"]
  /\ UNCHANGED <<generation, storedPair, endVars, timerVars, readGen, presented, issuedTo, outcome,
                 issuerVars>>

\* Mutant: a refresh that could not be made is not queued again.
RetriedNever(p) == FALSE
Retried(p) == p = Timer /\ outcome[p] = "unreachable" /\ retries < MaxRetries

\* A scheduled refresh queues its retry or records its refusal; a read hands
\* back the stored token or throws.  A job of an older generation is inert.
SettleRefresh(p) ==
  /\ step[p] = "settle"
  /\ EndRefresh(p)
  /\ IF p # Timer \/ outcome[p] = "ok" \/ readGen[p] # generation
     THEN UNCHANGED timerVars
     ELSE IF Retried(p)
     THEN /\ refreshQueued' = readGen[p] /\ retries' = retries + 1
          /\ UNCHANGED <<refusalTold, timerDied>>
     ELSE /\ refusalTold' = (outcome[p] = "refused" \/ retries = MaxRetries)
          /\ UNCHANGED <<refreshQueued, retries, timerDied>>
  /\ UNCHANGED <<rowVars, endVars, issuerVars>>

\* The action is killed; its lease is left behind.
RefreshDies(p) ==
  /\ step[p] # "idle"
  /\ EndRefresh(p)
  /\ lease' = IF lease = p THEN "dead" ELSE lease
  /\ adrift' = IF step[p] \in {"answered", "discard"} THEN adrift \cup {issuedTo[p]} ELSE adrift
  /\ timerDied' = (timerDied \/ p = Timer)
  /\ UNCHANGED <<generation, storedPair, endVars, refreshQueued, retries, refusalTold, issued,
                 liveTokens>>

\* A lease outlives the exchange it was taken for (90 s against 30 s), not
\* a dead holder and not one that is slow to write.
LeaseLapses ==
  /\ lease # "free"
  /\ lease \in Refreshes => step[lease] # "claimed"
  /\ lease' = "free"
  /\ UNCHANGED <<generation, storedPair, endVars, timerVars, refreshVars, issuerVars>>

-----------------------------------------------------------------------------
\* An end of access: revoked at once, the value kept for the vendor call.
EndAccess ==
  /\ revocation = "none"
  /\ revocation' = "pending" /\ nextJob' = "attempt"
  /\ UNCHANGED <<rowVars, revokeAttempts, call, timerVars, refreshVars, issuerVars>>

\* Mutant: the last attempt is followed by another.
AfterAttemptAgain(n) == "attempt"
\* What is scheduled before the vendor is called.
AfterAttempt(n) == IF n = MaxCalls THEN "expire" ELSE "attempt"

BeginAttempt ==
  /\ nextJob = "attempt"
  /\ IF revocation = "pending"
     THEN /\ revokeAttempts' = revokeAttempts + 1
          /\ nextJob' = AfterAttempt(revokeAttempts + 1)
          /\ call' = [call EXCEPT ![revokeAttempts + 1] = "calling"]
     ELSE nextJob' = "none" /\ UNCHANGED <<revokeAttempts, call>>
  /\ UNCHANGED <<rowVars, revocation, timerVars, refreshVars, issuerVars>>

\* The attempt's action dies before it counted itself: nothing follows it.
RevocationLost ==
  /\ nextJob = "attempt" /\ nextJob' = "none"
  /\ UNCHANGED <<rowVars, revocation, revokeAttempts, call, timerVars, refreshVars, issuerVars>>

\* The value was opened from the row; the vendor may act and not answer.
VendorAnswers(n) ==
  /\ call[n] = "calling"
  /\ \E answer \in {"revoked", "failed", "ended"} : call' = [call EXCEPT ![n] = answer]
  /\ \/ liveTokens' = liveTokens \ {storedPair}
     \/ call'[n] # "revoked" /\ UNCHANGED liveTokens
  /\ UNCHANGED <<rowVars, revocation, revokeAttempts, nextJob, timerVars, refreshVars,
                 issued, adrift>>

\* finishSourceRevocation, of both rows: final, and the value deleted.
FinishRevocation(how) == revocation' = how /\ storedPair' = NoPair

\* An answer of an attempt that is no longer the latest is dropped.
AttemptStands(n) == revocation = "pending" /\ revokeAttempts = n

RecordAttempt(n) ==
  /\ call[n] \in {"revoked", "failed"}
  /\ call' = [call EXCEPT ![n] = "ended"]
  /\ IF ~AttemptStands(n) THEN UNCHANGED <<revocation, storedPair>>
     ELSE \/ call[n] = "revoked" /\ FinishRevocation("done")
          \/ call[n] = "failed" /\ FinishRevocation("failed")  \* the last, or for good
          \/ call[n] = "failed" /\ n < MaxCalls /\ UNCHANGED <<revocation, storedPair>>
  /\ UNCHANGED <<generation, lease, revokeAttempts, nextJob, timerVars, refreshVars, issuerVars>>

\* Ages are not modelled: the last attempt's purge may come at any time.
Expire ==
  /\ nextJob = "expire" /\ nextJob' = "none"
  /\ IF revocation = "pending" THEN FinishRevocation("failed")
     ELSE UNCHANGED <<revocation, storedPair>>
  /\ UNCHANGED <<generation, lease, revokeAttempts, call, timerVars, refreshVars, issuerVars>>

\* Mutant: the sweep looks only at revocations that had their last attempt.
SweepFindsLast == revocation = "pending" /\ revokeAttempts = MaxCalls
SweepFinds == revocation = "pending"

\* The hourly sweep, past the 24 hours, for a purge that was itself lost.
ExpireOverdue ==
  /\ SweepFinds /\ FinishRevocation("failed")
  /\ UNCHANGED <<generation, lease, revokeAttempts, nextJob, call, timerVars, refreshVars,
                 issuerVars>>

-----------------------------------------------------------------------------
RefreshStep(p) ==
  \/ ReadHeld(p) \/ ClaimLease(p) \/ ClaimRefusedLease(p)
  \/ Exchange(p) \/ ExchangeRefused(p) \/ ExchangeUnreachable(p)
  \/ Rotate(p) \/ RotateRefused(p) \/ Discard(p) \/ Release(p) \/ SettleRefresh(p) \/ RefreshDies(p)

TokenNext ==
  \/ \E p \in Refreshes : RefreshStep(p)
  \/ LeaseLapses \/ EndAccess \/ BeginAttempt \/ RevocationLost
  \/ \E n \in Attempts : VendorAnswers(n) \/ RecordAttempt(n)
  \/ Expire \/ ExpireOverdue

TokenSpec == TokenInit /\ [][TokenNext]_tokenVars

-----------------------------------------------------------------------------
\* No two refreshes have the same refresh token out at once, and the one out
\* is the token of the pair stored (the claim's snapshot, the lease): an
\* issuer with reuse detection would end the grant.
PresentedAlone ==
  \A p \in Refreshes : step[p] = "claimed" =>
     /\ generation = readGen[p] /\ storedPair # NoPair => presented[p] = storedPair
     /\ \A q \in Refreshes : step[q] = "claimed" /\ presented[q] = presented[p] => q = p

\* The stored pair only ever gives way to one issued after it, and never
\* once access has ended: a slow refresh writes back neither the pair a
\* faster one replaced nor a live value into a revoked row (rotateTokens).
PairMovesOn ==
  [][storedPair' # storedPair =>
       storedPair' = NoPair \/ (revocation = "none" /\ storedPair' > storedPair)]_tokenVars

\* Once the vendor said the held token is revoked, nothing issued for the
\* pair is alive, but what a refresh still has in hand, what a killed one or
\* an unanswered issuer left, and what lost a race (refresh.discard).
EndedAtTheVendor ==
  revocation = "done" =>
     liveTokens \subseteq
       adrift \cup {issuedTo[p] : p \in {q \in Refreshes : step[q] \in {"answered", "discard"}}}

\* A live pair's next refresh is queued, under way, or was refused on the
\* record, unless the scheduled action itself was killed (runScheduledRefresh).
RefreshAhead ==
  LiveValue =>
     \/ refreshQueued = generation \/ refusalTold \/ timerDied
     \/ step[Timer] # "idle" /\ readGen[Timer] = generation

\* Access that ended is held for the vendor for a day at most, whatever died
\* on the way: its value is deleted (expire, expireOverdue).
HeldValueGoes == revocation = "pending" ~> storedPair = NoPair
=============================================================================

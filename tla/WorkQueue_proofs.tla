-------------------------- MODULE WorkQueue_proofs --------------------------
(***************************************************************************)
(* Proofs about WorkQueue, for any number of items and evaluations: a row  *)
(* has one evaluation, verdicts and calls keep the cap, and no row misses  *)
(* the connection or the charter it was parked for.  What a transition     *)
(* does to the queue is the same everywhere: it leaves some rows, of which *)
(* waking the queue parks a few that wait.  The proofs say first what that *)
(* is (Settles), and then what each transition leaves.                     *)
(***************************************************************************)
EXTENDS WorkQueue, FiniteSetTheorems, TLAPS

RowType == row \in [Items -> Row] /\ queued \in [Items -> 0..MaxCopies]
EmployeeType ==
  /\ cap \in {CapLow, CapHigh} /\ paused \in BOOLEAN /\ charter \in Charters
  /\ drafting \in BOOLEAN /\ requeues \subseteq Charters
SurfaceType ==
  /\ stored \in {"approved", "connected", "listed-dead"} /\ fresh \in BOOLEAN
  /\ probed \in Probes /\ since \in Probes
ProcType ==
  /\ pc \in [Procs -> {"idle", "claimed", "read", "judged"}]
  /\ item \in [Procs -> Items \cup {NoItem}] /\ readCharter \in [Procs -> Charters]
  /\ decision \in [Procs -> {"none", "outOfScope", "connection", "queue", "claim", "unavailable"}]
WordType == under \in [Items -> Charters] /\ agedOut \subseteq Items /\ resent \subseteq Items

\* A charter draft may be approved, a re-evaluation is of an approved charter,
\* and what is being evaluated is an item.
CharterFits == (drafting => charter < MaxCharter) /\ \A c \in requeues : c <= charter
JudgesItems == \A p \in Procs : pc[p] # "idle" => item[p] \in Items

OtherTypes == EmployeeType /\ SurfaceType /\ ProcType /\ WordType /\ CharterFits /\ JudgesItems
TypeInv == RowType /\ OtherTypes

\* A claim is on a row that waits, or was withdrawn while it was judged.
ClaimsOnWork == \A i \in Items : row[i].claim \in Procs => row[i].st \in {"discovered", "withdrawn"}

QueueInv == TypeInv /\ ClaimsOnWork /\ OneEvaluation

\* No row has spent a key that was not given out.
SpentPast ==
  \A i \in Items : /\ \A c \in Charters : CharterKey(c) \in row[i].spent => c <= charter
                   /\ \A v \in Probes : SurfaceKey(v) \in row[i].spent => v <= probed

\* What ConnectionNotMissed says of a surface that is live holds of one that
\* is stored as connected, and may be verified again.
ConnectionKept ==
  \A i \in Items : row[i].st = "deferred" /\ row[i].verdict = "connection" /\ stored = "connected" =>
    i \in agedOut \/ \E v \in since..probed : SurfaceKey(v) \in row[i].spent

WaitInv == SpentPast /\ since <= probed /\ ConnectionKept /\ CharterNotMissed

-----------------------------------------------------------------------------
(* Rows and keys.                                                          *)

LEMMA RowParts ==
  ASSUME NEW r \in Row
  PROVE  /\ r.st \in States /\ r.claim \in Procs \cup {"none", "lapsed"} /\ r.attempts \in 0..MaxAttempts
         /\ r.unavail \in BOOLEAN /\ r.verdict \in Reasons /\ r.waived \in BOOLEAN /\ r.spent \in SUBSET Keys
BY DEF Row

LEMMA KeysApart ==
  /\ \A c \in Charters : CharterKey(c) \in Keys
  /\ \A v \in Probes : SurfaceKey(v) \in Keys
  /\ \A c, d \in Charters : CharterKey(c) = CharterKey(d) => c = d
  /\ \A v, w \in Probes : SurfaceKey(v) = SurfaceKey(w) => v = w
  /\ \A c \in Charters, v \in Probes : CharterKey(c) # SurfaceKey(v)
BY DEF CharterKey, SurfaceKey, Keys

\* What a row looks like after a verdict.
LEMMA JudgedRow ==
  ASSUME NEW r \in Row, NEW st \in States, NEW verdict \in Reasons
  PROVE  /\ Judged(r, st, verdict) \in Row
         /\ Judged(r, st, verdict).st = st /\ Judged(r, st, verdict).claim = "none"
         /\ Judged(r, st, verdict).verdict = verdict /\ Judged(r, st, verdict).spent = r.spent
<1>1. 0 \in 0..MaxAttempts
  BY AttemptAssumption
<1> QED BY <1>1 DEF Judged, Row

-----------------------------------------------------------------------------
(* What waking the queue leaves of the rows r of a transition: a row that   *)
(* waits may be parked, for a draft of the charter or as spent.            *)

ParkedAs(r, x, i) ==
  /\ r[i].st = "discovered" /\ r[i].claim \notin Procs
  /\ x[i].st = "deferred" /\ x[i].claim = "none" /\ x[i].spent = r[i].spent
  /\ x[i].verdict \in {"unavailable", "spent"} \/ (x[i].verdict = "charter" /\ drafting)
Settled(r, x) == x \in [Items -> Row] /\ \A i \in Items : x[i] = r[i] \/ ParkedAs(r, x, i)
Settles(r) == Settled(r, row') /\ queued' \in [Items -> 0..MaxCopies]

ParkedTo(r, why) == [r EXCEPT !.st = "deferred", !.verdict = why, !.claim = "none"]

LEMMA ParkedRow ==
  ASSUME NEW r \in Row, NEW why \in Reasons
  PROVE  /\ ParkedTo(r, why) \in Row
         /\ ParkedTo(r, why).st = "deferred" /\ ParkedTo(r, why).claim = "none"
         /\ ParkedTo(r, why).verdict = why /\ ParkedTo(r, why).spent = r.spent
BY DEF ParkedTo, Row, States, Reasons

LEMMA CharterParks ==
  ASSUME NEW r \in [Items -> Row], drafting
  PROVE  Settled(r, ParkForCharter(r))
<1> DEFINE x == ParkForCharter(r)
<1>1. x = [i \in Items |-> IF i \in Waiting(r)
                           THEN ParkedTo(r[i], "charter")
                           ELSE r[i]]
  BY DEF ParkForCharter, Park, ParkedTo
<1>2. ASSUME NEW i \in Items
      PROVE  x[i] \in Row /\ (x[i] = r[i] \/ ParkedAs(r, x, i))
  <2>1. CASE i \in Waiting(r)
    <3>1. x[i] = ParkedTo(r[i], "charter")
      BY <1>1, <2>1
    <3>2. "charter" \in Reasons
      BY DEF Reasons
    <3>3. r[i] \in Row /\ r[i].st = "discovered" /\ r[i].claim \notin Procs
      BY <2>1 DEF Waiting
    <3> HIDE DEF x
    <3>4. /\ x[i] \in Row /\ x[i].st = "deferred" /\ x[i].claim = "none" /\ x[i].verdict = "charter"
          /\ x[i].spent = r[i].spent
      BY <3>1, <3>2, <3>3, ParkedRow
    <3> QED BY <3>3, <3>4 DEF ParkedAs
  <2>2. CASE i \notin Waiting(r)
    BY <1>1, <2>2
  <2> QED BY <2>1, <2>2
<1>3. x \in [Items -> Row]
  BY <1>1, <1>2
<1> QED BY <1>2, <1>3 DEF Settled

LEMMA SpentParks ==
  ASSUME NEW r \in [Items -> Row]
  PROVE  Settled(r, ParkSpent(r))
<1> DEFINE x == ParkSpent(r)
           why(i) == IF r[i].unavail THEN "unavailable" ELSE "spent"
<1>1. x = [i \in Items |-> IF i \in SpentRows(r)
                           THEN ParkedTo(r[i], why(i))
                           ELSE r[i]]
  BY DEF ParkSpent, Park, ParkedTo
<1>2. ASSUME NEW i \in Items
      PROVE  x[i] \in Row /\ (x[i] = r[i] \/ ParkedAs(r, x, i))
  <2>1. CASE i \in SpentRows(r)
    <3>1. x[i] = ParkedTo(r[i], why(i))
      BY <1>1, <2>1
    <3>2. why(i) \in Reasons /\ why(i) \in {"unavailable", "spent"}
      BY DEF Reasons
    <3>3. r[i] \in Row /\ r[i].st = "discovered" /\ r[i].claim \notin Procs
      BY <2>1 DEF SpentRows, Waiting
    <3> HIDE DEF x, why
    <3>4. /\ x[i] \in Row /\ x[i].st = "deferred" /\ x[i].claim = "none" /\ x[i].verdict = why(i)
          /\ x[i].spent = r[i].spent
      BY <3>1, <3>2, <3>3, ParkedRow
    <3> QED BY <3>2, <3>3, <3>4 DEF ParkedAs
  <2>2. CASE i \notin SpentRows(r)
    BY <1>1, <2>2
  <2> QED BY <2>1, <2>2
<1>3. x \in [Items -> Row]
  BY <1>1, <1>2
<1> QED BY <1>2, <1>3 DEF Settled

LEMMA QueuedType ==
  ASSUME NEW q \in [Items -> 0..MaxCopies], NEW J
  PROVE  [i \in Items |-> IF i \in J /\ q[i] < MaxCopies THEN q[i] + 1 ELSE q[i]] \in [Items -> 0..MaxCopies]
<1>1. ASSUME NEW i \in Items
      PROVE  (IF i \in J /\ q[i] < MaxCopies THEN q[i] + 1 ELSE q[i]) \in 0..MaxCopies
  BY BoundAssumption
<1> QED BY <1>1

LEMMA ScheduleSettles ==
  ASSUME NEW r \in [Items -> Row], queued \in [Items -> 0..MaxCopies], NEW limit, NEW several,
         Schedule(r, limit, several)
  PROVE  Settles(r)
<1>1. PICK o \in EvaluateNext(r, limit, several) :
        /\ row' = o.rows
        /\ queued' = [i \in Items |-> IF i \in o.jobs /\ queued[i] < MaxCopies THEN queued[i] + 1 ELSE queued[i]]
  BY DEF Schedule
<1>2. queued' \in [Items -> 0..MaxCopies]
  BY <1>1, QueuedType
<1>3. Settled(r, r)
  BY DEF Settled
<1>4. \/ drafting /\ o.rows = ParkForCharter(r)
      \/ o.rows = r
      \/ o.rows = ParkSpent(r)
  BY <1>1 DEF EvaluateNext
<1> QED BY <1>1, <1>2, <1>3, <1>4, CharterParks, SpentParks DEF Settles

LEMMA WakeSettles ==
  ASSUME NEW r \in [Items -> Row], queued \in [Items -> 0..MaxCopies], NEW several, Wake(r, several)
  PROVE  Settles(r)
<1>1. CASE row' = r /\ UNCHANGED queued
  BY <1>1 DEF Settles, Settled
<1> QED BY <1>1, ScheduleSettles DEF Wake

-----------------------------------------------------------------------------
(* What a step may do to a row, but for the start of an evaluation.        *)

\* Some evaluation of the row goes on under its claim.
GoesOn(i) == \E p \in Procs : pc'[p] # "idle" /\ item'[p] = i /\ row[i].claim = p

\* Of its claim: it is kept while its evaluation goes on, but for a row that
\* was sent back from a withdrawal, and none is made.
ClaimSteady(r, i) ==
  /\ r[i].claim \in Procs =>
       /\ r[i].claim = row[i].claim /\ r[i].st \in {"discovered", "withdrawn"}
       /\ r[i].st = "discovered" => row[i].st = "discovered"
  /\ r[i].claim = row[i].claim \/ i \in resent' \/ ~GoesOn(i)

\* Of what it waits for: a row comes to wait for the surface only where that
\* connection is not missed, and for the charter only by the queue.
WaitSteady(r, i) ==
  /\ \A k \in r[i].spent :
       \/ k \in row[i].spent
       \/ \E c \in Charters : c <= charter /\ k = CharterKey(c)
       \/ \E v \in Probes : v <= probed' /\ k = SurfaceKey(v)
  /\ r[i].st = "deferred" /\ r[i].verdict = "charter" => r[i] = row[i]
  /\ r[i].st = "deferred" /\ r[i].verdict = "connection" =>
       \/ stored' # "connected" \/ i \in agedOut' \/ SurfaceKey(probed') \in r[i].spent
       \/ r[i] = row[i] /\ stored = "connected" /\ since' = since /\ (i \in agedOut => i \in agedOut')

\* Of its slot: a verdict takes one within the cap.
SlotSteady(r, i) == row[i].st = "discovered" /\ r[i].st = "open" => OpenCount(r) <= cap

RowSteady(r, i) == ClaimSteady(r, i) /\ WaitSteady(r, i) /\ SlotSteady(r, i)

\* No evaluation begins.
NoneBegins == \A p \in Procs : pc'[p] # "idle" => pc[p] # "idle" /\ item'[p] = item[p]

\* A re-evaluation that ran has met every row that waits for the charter.
RequeuesMet(r) ==
  /\ drafting => drafting'
  /\ \A c \in requeues \ requeues' : \A i \in Items :
       r[i].st = "deferred" /\ r[i].verdict = "charter" => CharterKey(c) \in r[i].spent

Forward == charter <= charter' /\ probed <= probed' /\ since' <= probed'

Steady(r) == Settles(r) /\ RequeuesMet(r) /\ \A i \in Items : RowSteady(r, i)

\* Every step but the start of an evaluation and the approval of a charter.
Moves == NoneBegins /\ resent \subseteq resent' /\ Forward /\ \E r : Steady(r)

LEMMA EvaluationsKept ==
  ASSUME QueueInv, NEW r, Settles(r), NoneBegins, resent \subseteq resent',
         \A i \in Items : ClaimSteady(r, i)
  PROVE  ClaimsOnWork' /\ OneEvaluation'
<1>1. \A i \in Items : row'[i] = r[i] \/ ParkedAs(r, row', i)
  BY DEF Settles, Settled
<1>2. "none" \notin Procs
  BY ProcAssumption
<1>3. ClaimsOnWork'
  BY <1>1, <1>2 DEF ClaimsOnWork, ClaimSteady, ParkedAs
<1>4. ASSUME NEW p \in Procs, pc'[p] # "idle", item'[p] \notin resent'
      PROVE  row'[item'[p]].claim = p /\ row'[item'[p]].st \in {"discovered", "withdrawn"}
  <2>1. pc[p] # "idle" /\ item'[p] = item[p] /\ item[p] \in Items /\ item[p] \notin resent
    BY <1>4 DEF NoneBegins, QueueInv, TypeInv, OtherTypes, JudgesItems
  <2>2. row[item[p]].claim = p
    BY <2>1 DEF QueueInv, OneEvaluation
  <2>3. r[item[p]].claim = p
    BY <1>4, <2>1, <2>2 DEF ClaimSteady, GoesOn
  <2>4. row'[item[p]] = r[item[p]]
    BY <1>1, <2>1, <2>3 DEF ParkedAs
  <2> QED BY <2>1, <2>3, <2>4 DEF ClaimSteady
<1>5. OneEvaluation'
  BY <1>4 DEF OneEvaluation
<1> QED BY <1>3, <1>5

LEMMA WaitsKept ==
  ASSUME TypeInv, TypeInv', WaitInv, NEW r, Settles(r), RequeuesMet(r), charter <= charter',
         probed <= probed', since' <= probed', \A i \in Items : WaitSteady(r, i)
  PROVE  WaitInv'
<1>1. \A i \in Items : row'[i] = r[i] \/ ParkedAs(r, row', i)
  BY DEF Settles, Settled
<1>2. /\ charter \in Nat /\ charter' \in Nat /\ probed \in Nat /\ probed' \in Nat /\ since \in Nat /\ since' \in Nat
      /\ probed' \in Probes
  BY BoundAssumption DEF TypeInv, OtherTypes, EmployeeType, SurfaceType, Charters, Probes
<1>3. \A i \in Items : row'[i].spent = r[i].spent
  BY <1>1 DEF ParkedAs
<1>4. ASSUME NEW i \in Items, NEW c \in Charters, CharterKey(c) \in row'[i].spent
      PROVE  c <= charter'
  <2>1. CharterKey(c) \in row[i].spent \/ \E d \in Charters : d <= charter /\ CharterKey(c) = CharterKey(d)
    BY <1>3, <1>4, KeysApart DEF WaitSteady
  <2>2. c <= charter
    BY <2>1, KeysApart DEF WaitInv, SpentPast
  <2> QED BY <1>2, <2>2 DEF Charters
<1>5. ASSUME NEW i \in Items, NEW v \in Probes, SurfaceKey(v) \in row'[i].spent
      PROVE  v <= probed'
  <2>1. SurfaceKey(v) \in row[i].spent \/ \E w \in Probes : w <= probed' /\ SurfaceKey(v) = SurfaceKey(w)
    BY <1>3, <1>5, KeysApart DEF WaitSteady
  <2>2. v <= probed \/ v <= probed'
    BY <2>1, KeysApart DEF WaitInv, SpentPast
  <2> QED BY <1>2, <2>2 DEF Probes
<1>6. ASSUME NEW i \in Items, row'[i].st = "deferred", row'[i].verdict = "connection", stored' = "connected"
      PROVE  i \in agedOut' \/ \E v \in since'..probed' : SurfaceKey(v) \in row'[i].spent
  <2>1. row'[i] = r[i]
    BY <1>1, <1>6 DEF ParkedAs
  <2>2. CASE SurfaceKey(probed') \in r[i].spent
    BY <1>2, <2>1, <2>2
  <2>3. CASE r[i] = row[i] /\ stored = "connected" /\ since' = since /\ (i \in agedOut => i \in agedOut')
    <3>1. i \in agedOut \/ \E v \in since..probed : SurfaceKey(v) \in row[i].spent
      BY <1>6, <2>1, <2>3 DEF WaitInv, ConnectionKept
    <3>2. since..probed \subseteq since'..probed'
      BY <1>2, <2>3
    <3> QED BY <2>1, <2>3, <3>1, <3>2
  <2> QED BY <1>6, <2>1, <2>2, <2>3 DEF WaitSteady
<1>7. ASSUME NEW i \in Items, row'[i].st = "deferred", row'[i].verdict = "charter"
      PROVE  drafting' \/ \E c \in requeues' : CharterKey(c) \notin row'[i].spent
  <2>1. CASE ParkedAs(r, row', i)
    BY <1>7, <2>1 DEF ParkedAs, RequeuesMet
  <2>2. CASE row'[i] = r[i]
    <3>1. r[i] = row[i]
      BY <1>7, <2>2 DEF WaitSteady
    <3>2. drafting \/ \E c \in requeues : CharterKey(c) \notin row[i].spent
      BY <1>7, <2>2, <3>1 DEF WaitInv, CharterNotMissed
    <3> QED BY <1>7, <2>2, <3>1, <3>2 DEF RequeuesMet
  <2> QED BY <1>1, <2>1, <2>2
<1> QED BY <1>4, <1>5, <1>6, <1>7 DEF WaitInv, SpentPast, ConnectionKept, CharterNotMissed

-----------------------------------------------------------------------------
(* Steps that leave parts of the state alone.                              *)

LEMMA ProcsStay ==
  ASSUME OtherTypes, UNCHANGED procVars
  PROVE  ProcType' /\ JudgesItems' /\ NoneBegins
BY DEF OtherTypes, ProcType, JudgesItems, NoneBegins, procVars

LEMMA EndsProc ==
  ASSUME OtherTypes, NEW p \in Procs, Ends(p)
  PROVE  ProcType' /\ JudgesItems' /\ NoneBegins /\ pc'[p] = "idle"
<1>1. 0 \in Charters
  BY BoundAssumption DEF Charters
<1>2. ProcType
  BY DEF OtherTypes
<1>3. ProcType'
  BY <1>1, <1>2 DEF Ends, ProcType
<1>4. \A q \in Procs : IF q = p THEN pc'[q] = "idle" ELSE pc'[q] = pc[q] /\ item'[q] = item[q]
  BY <1>2 DEF Ends, ProcType
<1> QED BY <1>3, <1>4 DEF OtherTypes, JudgesItems, NoneBegins

SurfaceStays == stored' = stored /\ probed' = probed /\ since' = since
CharterStays == charter' = charter /\ requeues' = requeues /\ drafting' = drafting

LEMMA StaysForward ==
  ASSUME TypeInv, WaitInv, SurfaceStays, CharterStays
  PROVE  Forward /\ \A r : RequeuesMet(r)
<1>1. charter \in Nat /\ probed \in Nat
  BY BoundAssumption DEF TypeInv, OtherTypes, EmployeeType, SurfaceType, Charters, Probes
<1> QED BY <1>1 DEF Forward, RequeuesMet, SurfaceStays, CharterStays, WaitInv

\* A row the transition leaves alone.
LEMMA RowKept ==
  ASSUME QueueInv, NEW r, NEW i \in Items, r[i] = row[i],
         stored' # "connected" \/ (stored' = stored /\ since' = since /\ (i \in agedOut => i \in agedOut'))
  PROVE  RowSteady(r, i)
<1>1. ClaimSteady(r, i)
  BY DEF ClaimSteady, QueueInv, ClaimsOnWork
<1>2. WaitSteady(r, i)
  BY DEF WaitSteady
<1>3. SlotSteady(r, i)
  BY DEF SlotSteady
<1> QED BY <1>1, <1>2, <1>3 DEF RowSteady

\* A transition that leaves every row alone.
LEMMA RowsKept ==
  ASSUME QueueInv, stored' # "connected" \/ (stored' = stored /\ since' = since), agedOut' = agedOut,
         Settles(row), RequeuesMet(row)
  PROVE  \E r : Steady(r)
BY RowKept DEF Steady

LEMMA NothingSettles ==
  ASSUME RowType, UNCHANGED <<row, queued>>
  PROVE  Settles(row)
BY DEF Settles, Settled, RowType

\* A transition that patches one row.
LEMMA OneRow ==
  ASSUME RowType, NEW i \in Items, NEW new \in Row, NEW r, r = [row EXCEPT ![i] = new]
  PROVE  r \in [Items -> Row] /\ r[i] = new /\ \A j \in Items \ {i} : r[j] = row[j]
BY DEF RowType

LEMMA OneRowSteady ==
  ASSUME QueueInv, WaitInv, SurfaceStays, CharterStays, NEW i \in Items, NEW new \in Row,
         NEW r, r = [row EXCEPT ![i] = new],
         Settles(r), RowSteady(r, i), \A j \in Items \ {i} : j \in agedOut => j \in agedOut'
  PROVE  \E x : Steady(x)
<1>1. \A j \in Items \ {i} : r[j] = row[j]
  BY OneRow DEF QueueInv, TypeInv
<1>2. \A j \in Items \ {i} : RowSteady(r, j)
  BY <1>1, RowKept DEF SurfaceStays
<1>3. RequeuesMet(r)
  BY StaysForward DEF QueueInv
<1> QED BY <1>2, <1>3 DEF Steady

-----------------------------------------------------------------------------
(* The steps of an evaluation under way.                                   *)

\* A step that leaves the rows, the surface, the employee and the words alone.
LEMMA QuietMoves ==
  ASSUME QueueInv, WaitInv, NoneBegins, ProcType', JudgesItems',
         UNCHANGED <<row, queued, employeeVars, surfaceVars, wordVars>>
  PROVE  OtherTypes' /\ Moves
<1>1. OtherTypes'
  BY DEF QueueInv, TypeInv, OtherTypes, EmployeeType, SurfaceType, WordType, CharterFits,
         employeeVars, surfaceVars, wordVars
<1>2. SurfaceStays /\ CharterStays /\ agedOut' = agedOut /\ resent' = resent
  BY DEF SurfaceStays, CharterStays, employeeVars, surfaceVars, wordVars
<1>3. Settles(row)
  BY NothingSettles DEF QueueInv, TypeInv
<1>4. Forward /\ RequeuesMet(row)
  BY <1>2, StaysForward DEF QueueInv
<1>5. \E r : Steady(r)
  BY <1>2, <1>3, <1>4, RowsKept DEF SurfaceStays
<1> QED BY <1>1, <1>2, <1>4, <1>5 DEF Moves

LEMMA ReadCharterMoves ==
  ASSUME QueueInv, WaitInv, NEW p \in Procs, ReadCharter(p)
  PROVE  OtherTypes' /\ Moves
<1>1. OtherTypes /\ ProcType /\ JudgesItems
  BY DEF QueueInv, TypeInv, OtherTypes
<1>2. CASE Ends(p)
  BY <1>1, <1>2, EndsProc, QuietMoves DEF ReadCharter
<1>3. CASE /\ pc' = [pc EXCEPT ![p] = "read"] /\ readCharter' = [readCharter EXCEPT ![p] = charter]
           /\ UNCHANGED <<item, decision>>
  <2>1. charter \in Charters
    BY <1>1 DEF OtherTypes, EmployeeType
  <2>2. ProcType' /\ JudgesItems' /\ NoneBegins
    BY <1>1, <1>3, <2>1 DEF ProcType, JudgesItems, NoneBegins, ReadCharter
  <2> QED BY <2>2, QuietMoves DEF ReadCharter
<1> QED BY <1>2, <1>3 DEF ReadCharter

LEMMA JudgeMoves ==
  ASSUME QueueInv, WaitInv, NEW p \in Procs, Judge(p)
  PROVE  OtherTypes' /\ Moves
<1>1. ProcType /\ JudgesItems
  BY DEF QueueInv, TypeInv, OtherTypes
<1>2. PICK d \in Judgements(item[p]) : decision' = [decision EXCEPT ![p] = d]
  BY DEF Judge
<1>3. d \in {"outOfScope", "unavailable", "connection", "queue", "claim"}
  BY EventAssumption DEF Judgements
<1>4. ProcType' /\ JudgesItems' /\ NoneBegins
  BY <1>1, <1>2, <1>3 DEF ProcType, JudgesItems, NoneBegins, Judge
<1> QED BY <1>4, QuietMoves DEF Judge

LEMMA CrashMoves ==
  ASSUME QueueInv, WaitInv, NEW p \in Procs, Crash(p)
  PROVE  OtherTypes' /\ Moves
BY EndsProc, QuietMoves DEF Crash, QueueInv, TypeInv

\* Marking a row unread changes none of what the properties read.
LEMMA UnavailableRow ==
  ASSUME NEW r \in Row, NEW b \in BOOLEAN
  PROVE  /\ [r EXCEPT !.unavail = b] \in Row
         /\ [r EXCEPT !.unavail = b].st = r.st /\ [r EXCEPT !.unavail = b].claim = r.claim
         /\ [r EXCEPT !.unavail = b].verdict = r.verdict /\ [r EXCEPT !.unavail = b].spent = r.spent
BY DEF Row

LEMMA RecordMoves ==
  ASSUME QueueInv, WaitInv, NEW p \in Procs, RecordScopeUnavailable(p)
  PROVE  OtherTypes' /\ Moves
<1> DEFINE i == item[p]
           b == row[i].unavail \/ (row[i].st = "discovered" /\ row[i].claim = p)
<1>1. i \in Items /\ row[i] \in Row /\ RowType
  BY DEF RecordScopeUnavailable, QueueInv, TypeInv, OtherTypes, JudgesItems, RowType
<1>2. b \in BOOLEAN
  BY <1>1, RowParts
<1> DEFINE new == [row[i] EXCEPT !.unavail = b]
<1>3. row' = [row EXCEPT ![i] = new]
  BY DEF RecordScopeUnavailable
<1>4. /\ new \in Row /\ new.st = row[i].st /\ new.claim = row[i].claim /\ new.verdict = row[i].verdict
      /\ new.spent = row[i].spent
  BY <1>1, <1>2, UnavailableRow
<1> HIDE DEF i, new
<1>5. row' \in [Items -> Row] /\ row'[i] = new
  BY <1>1, <1>3, <1>4, OneRow
<1>6. UNCHANGED <<queued, employeeVars, surfaceVars, wordVars>>
  BY DEF RecordScopeUnavailable
<1>7. SurfaceStays /\ CharterStays /\ agedOut' = agedOut /\ resent' = resent
  BY <1>6 DEF SurfaceStays, CharterStays, employeeVars, surfaceVars, wordVars
<1>8. Settles(row')
  BY <1>1, <1>5, <1>6 DEF Settles, Settled, RowType
<1>9. RowSteady(row', i)
  <2>1. ClaimSteady(row', i)
    BY <1>1, <1>4, <1>5 DEF ClaimSteady, QueueInv, ClaimsOnWork
  <2>2. WaitSteady(row', i)
    <3>1. row'[i].st = "deferred" => row'[i] = row[i]
      <4>1. ASSUME row[i].st = "deferred"
            PROVE  b = row[i].unavail
        BY <1>1, <4>1, RowParts
      <4>2. [row[i] EXCEPT !.unavail = row[i].unavail] = row[i]
        BY <1>1 DEF Row
      <4> QED BY <1>4, <1>5, <4>1, <4>2 DEF new
    <3> QED BY <1>4, <1>5, <1>7, <3>1 DEF WaitSteady, SurfaceStays
  <2>3. SlotSteady(row', i)
    BY <1>4, <1>5 DEF SlotSteady
  <2> QED BY <2>1, <2>2, <2>3 DEF RowSteady
<1>10. \E r : Steady(r)
  BY <1>1, <1>3, <1>4, <1>7, <1>8, <1>9, OneRowSteady
<1>11. ProcType' /\ JudgesItems' /\ NoneBegins
  BY EndsProc DEF RecordScopeUnavailable, QueueInv, TypeInv
<1>12. OtherTypes'
  BY <1>6, <1>11 DEF QueueInv, TypeInv, OtherTypes, EmployeeType, SurfaceType, WordType, CharterFits,
         employeeVars, surfaceVars, wordVars
<1>13. Forward
  BY <1>7, StaysForward DEF QueueInv
<1> QED BY <1>7, <1>10, <1>11, <1>12, <1>13 DEF Moves

\* A step that patches a row, with the evaluations and the employee left alone.
LEMMA PatchMoves ==
  ASSUME QueueInv, WaitInv, UNCHANGED <<employeeVars, surfaceVars>>, ProcType', JudgesItems', NoneBegins,
         WordType', resent \subseteq resent', NEW i \in Items, NEW new \in Row, NEW r,
         r = [row EXCEPT ![i] = new], Settles(r), RowSteady(r, i),
         \A j \in Items \ {i} : j \in agedOut => j \in agedOut'
  PROVE  OtherTypes' /\ Moves
<1>1. SurfaceStays /\ CharterStays
  BY DEF SurfaceStays, CharterStays, employeeVars, surfaceVars
<1>2. OtherTypes'
  BY DEF QueueInv, TypeInv, OtherTypes, EmployeeType, SurfaceType, CharterFits, employeeVars, surfaceVars
<1>3. Forward
  BY <1>1, StaysForward DEF QueueInv
<1>4. \E x : Steady(x)
  BY <1>1, OneRowSteady
<1> QED BY <1>2, <1>3, <1>4 DEF Moves

LEMMA LapseMoves ==
  ASSUME QueueInv, WaitInv, NEW i \in Items, LapseClaim(i)
  PROVE  OtherTypes' /\ Moves
<1> DEFINE new == [row[i] EXCEPT !.claim = "lapsed"]
<1>1. row[i] \in Row /\ RowType /\ WordType /\ OtherTypes
  BY DEF QueueInv, TypeInv, OtherTypes, RowType
<1>2. row' = [row EXCEPT ![i] = new]
  BY DEF LapseClaim
<1>3. /\ new \in Row /\ new.st = row[i].st /\ new.claim = "lapsed" /\ new.verdict = row[i].verdict
      /\ new.spent = row[i].spent
  BY <1>1 DEF Row
<1>4. row[i].st = "discovered"
  BY DEF LapseClaim, Evaluating
<1> HIDE DEF new
<1>5. row' \in [Items -> Row] /\ row'[i] = new
  BY <1>1, <1>2, <1>3, OneRow
<1>6. UNCHANGED <<queued, employeeVars, surfaceVars, procVars, wordVars>>
  BY DEF LapseClaim
<1>7. Settles(row')
  BY <1>1, <1>5, <1>6 DEF Settles, Settled, RowType
<1>8. ~GoesOn(i)
  <2>1. pc' = pc /\ item' = item
    BY <1>6 DEF procVars
  <2>2. pc[row[i].claim] = "idle" \/ item[row[i].claim] # i
    BY DEF LapseClaim
  <2> QED BY <2>1, <2>2 DEF GoesOn
<1>9. RowSteady(row', i)
  <2>1. ClaimSteady(row', i)
    BY <1>3, <1>5, <1>8, ProcAssumption DEF ClaimSteady
  <2>2. WaitSteady(row', i)
    BY <1>3, <1>4, <1>5 DEF WaitSteady
  <2>3. SlotSteady(row', i)
    BY <1>3, <1>5 DEF SlotSteady
  <2> QED BY <2>1, <2>2, <2>3 DEF RowSteady
<1>10. ProcType' /\ JudgesItems' /\ NoneBegins
  BY <1>1, <1>6, ProcsStay
<1>11. WordType' /\ agedOut' = agedOut /\ resent' = resent
  BY <1>1, <1>6 DEF WordType, wordVars
<1> QED BY <1>2, <1>3, <1>6, <1>7, <1>9, <1>10, <1>11, PatchMoves

LEMMA RefusedMoves ==
  ASSUME QueueInv, WaitInv, NEW i \in Items, StartRefused(i)
  PROVE  OtherTypes' /\ Moves
<1>1. RowType /\ WordType /\ OtherTypes
  BY DEF QueueInv, TypeInv, OtherTypes
<1>2. UNCHANGED <<row, employeeVars, surfaceVars, procVars, wordVars>>
  BY DEF StartRefused
<1>3. queued' \in [Items -> 0..MaxCopies]
  BY <1>1, BoundAssumption DEF RowType, StartRefused
<1>4. Settles(row)
  BY <1>1, <1>2, <1>3 DEF Settles, Settled, RowType
<1>5. ProcType' /\ JudgesItems' /\ NoneBegins
  BY <1>1, <1>2, ProcsStay
<1>6. SurfaceStays /\ CharterStays /\ agedOut' = agedOut /\ resent' = resent
  BY <1>2 DEF SurfaceStays, CharterStays, employeeVars, surfaceVars, wordVars
<1>7. Forward /\ RequeuesMet(row)
  BY <1>6, StaysForward DEF QueueInv
<1>8. \E r : Steady(r)
  BY <1>4, <1>6, <1>7, RowsKept DEF SurfaceStays
<1>9. OtherTypes'
  BY <1>1, <1>2, <1>5 DEF OtherTypes, EmployeeType, SurfaceType, WordType, CharterFits,
         employeeVars, surfaceVars, wordVars
<1> QED BY <1>5, <1>6, <1>7, <1>8, <1>9 DEF Moves

-----------------------------------------------------------------------------
(* Slots.                                                                  *)

LEMMA OpenFinite ==
  ASSUME NEW r
  PROVE  IsFiniteSet(Open(r)) /\ IsFiniteSet(InFlight(r)) /\ OpenCount(r) \in Nat
<1>1. Open(r) \subseteq Items /\ InFlight(r) \subseteq Items
  BY DEF Open, InFlight
<1>2. IsFiniteSet(Open(r)) /\ IsFiniteSet(InFlight(r))
  BY <1>1, ItemAssumption, FS_Subset
<1> QED BY <1>2, FS_CardinalityType DEF OpenCount

LEMMA OneMore ==
  ASSUME NEW S, NEW T, NEW x, IsFiniteSet(S), T \subseteq S \cup {x}
  PROVE  IsFiniteSet(T) /\ Cardinality(S) \in Nat /\ Cardinality(T) \in Nat
         /\ Cardinality(T) <= Cardinality(S) + 1
<1>1. IsFiniteSet(S \cup {x}) /\ Cardinality(S) \in Nat
      /\ Cardinality(S \cup {x}) \in {Cardinality(S), Cardinality(S) + 1}
  BY FS_AddElement, FS_CardinalityType
<1>2. IsFiniteSet(T) /\ Cardinality(T) <= Cardinality(S \cup {x})
  BY <1>1, FS_Subset
<1>3. Cardinality(T) \in Nat
  BY <1>2, FS_CardinalityType
<1> QED BY <1>1, <1>2, <1>3

\* What waking the queue leaves open is what the transition did.
LEMMA SettledOpen ==
  ASSUME NEW r, NEW x, Settled(r, x)
  PROVE  OpenCount(x) = OpenCount(r)
<1>1. Open(x) = Open(r)
  BY DEF Settled, ParkedAs, Open
<1> QED BY <1>1 DEF OpenCount

LEMMA CapNat ==
  ASSUME EmployeeType
  PROVE  cap \in Nat
BY CapAssumption DEF EmployeeType

-----------------------------------------------------------------------------
(* A verdict.                                                              *)

\* The row it writes: open only below the cap, deferred on the surface only
\* where no connection is missed.
LEMMA VerdictRow ==
  ASSUME NEW r \in Row, probed \in Probes, cap \in Nat,
         NEW d \in {"none", "outOfScope", "connection", "queue", "claim"}
  PROVE  LET v == Verdict(r, d)
         IN /\ v \in Row /\ v.claim = "none"
            /\ v.st \in {"open", "discovered", "skipped", "deferred"}
            /\ v.st = "open" => OpenCount(row) < cap
            /\ v.st = "deferred" => v.verdict # "charter" /\ (~Live \/ SurfaceKey(probed) \in v.spent)
            /\ \A k \in v.spent : k \in r.spent \/ k = SurfaceKey(probed)
<1> DEFINE e == IF d = "claim" /\ OpenCount(row) >= cap THEN "queue" ELSE d
           v == VerdictUncapped(r, e)
<1>1. e \in {"none", "outOfScope", "connection", "queue", "claim"} /\ (e = "claim" => OpenCount(row) < cap)
  BY OpenFinite
<1>2. e \in Reasons \/ e = "queue"
  BY <1>1 DEF Reasons
<1>3. /\ "open" \in States /\ "discovered" \in States /\ "skipped" \in States /\ "deferred" \in States
      /\ "claim" \in Reasons /\ "none" \in Reasons /\ "outOfScope" \in Reasons
  BY DEF States, Reasons
<1> HIDE DEF e
<1>4. /\ v \in Row /\ v.claim = "none"
      /\ v.st \in {"open", "discovered", "skipped", "deferred"}
      /\ v.st = "open" => OpenCount(row) < cap
      /\ v.st = "deferred" => v.verdict # "charter" /\ (~Live \/ SurfaceKey(probed) \in v.spent)
      /\ \A k \in v.spent : k \in r.spent \/ k = SurfaceKey(probed)
  <2>1. ASSUME NEW st \in {"open", "discovered", "skipped"}, NEW why \in Reasons, v = Judged(r, st, why),
               st = "open" => OpenCount(row) < cap
        PROVE  <1>4!:
    <3>1. st \in States
      BY <1>3
    <3>2. Judged(r, st, why) \in Row /\ Judged(r, st, why).st = st /\ Judged(r, st, why).claim = "none"
          /\ Judged(r, st, why).spent = r.spent
      BY <3>1, JudgedRow
    <3> HIDE DEF v
    <3> QED BY <2>1, <3>2
  <2>2. CASE e = "claim"
    <3>1. v = Judged(r, "open", "claim")
      BY <2>2 DEF VerdictUncapped
    <3> HIDE DEF v
    <3> QED BY <1>1, <1>3, <2>1, <2>2, <3>1
  <2>3. CASE e = "queue" \/ e = "outOfScope"
    <3>1. v = Judged(r, "discovered", "none") \/ v = Judged(r, "skipped", "outOfScope")
      BY <2>3 DEF VerdictUncapped
    <3> HIDE DEF v
    <3> QED BY <1>3, <2>1, <3>1
  <2>4. CASE e \notin {"claim", "queue", "outOfScope"} /\ WaitSatisfied(r)
    <3> DEFINE j == Judged(r, "discovered", "none")
    <3>1. v = [j EXCEPT !.spent = j.spent \cup {SurfaceKey(probed)}]
      BY <2>4 DEF VerdictUncapped
    <3>2. j \in Row /\ j.st = "discovered" /\ j.claim = "none" /\ j.spent = r.spent
      BY <1>3, JudgedRow
    <3>3. SurfaceKey(probed) \in Keys
      BY KeysApart
    <3> HIDE DEF j, v
    <3>4. v \in Row /\ v.st = "discovered" /\ v.claim = "none" /\ v.spent = r.spent \cup {SurfaceKey(probed)}
      BY <3>1, <3>2, <3>3 DEF Row
    <3> QED BY <3>4
  <2>5. CASE e \notin {"claim", "queue", "outOfScope"} /\ ~WaitSatisfied(r)
    <3>1. v = Judged(r, "deferred", e)
      BY <2>5 DEF VerdictUncapped
    <3>2. e \in Reasons
      BY <1>2, <2>5
    <3>3. v \in Row /\ v.st = "deferred" /\ v.claim = "none" /\ v.verdict = e /\ v.spent = r.spent
      <4>1. ASSUME NEW why \in Reasons
            PROVE  LET j == Judged(r, "deferred", why)
                   IN j \in Row /\ j.st = "deferred" /\ j.claim = "none" /\ j.verdict = why /\ j.spent = r.spent
        BY <1>3, JudgedRow
      <4> HIDE DEF v
      <4> QED BY <3>1, <3>2, <4>1
    <3>4. ~Live \/ SurfaceKey(probed) \in r.spent
      BY <2>5 DEF WaitSatisfied
    <3> HIDE DEF v
    <3> QED BY <1>1, <3>3, <3>4
  <2> QED BY <1>1, <2>2, <2>3, <2>4, <2>5
<1>5. Verdict(r, d) = v
  BY DEF Verdict, e
<1> HIDE DEF v
<1> QED BY <1>4, <1>5

LEMMA SetVerdictMoves ==
  ASSUME QueueInv, WaitInv, NEW p \in Procs, SetVerdict(p)
  PROVE  OtherTypes' /\ Moves
<1> DEFINE i == item[p]
           judged == Verdict(row[i], decision[p])
           r == [row EXCEPT ![i] = judged]
<1>1. RowType /\ OtherTypes /\ ProcType /\ JudgesItems /\ WordType /\ SurfaceType /\ EmployeeType
  BY DEF QueueInv, TypeInv, OtherTypes
<1>2. Ends(p) /\ pc[p] = "judged" /\ UNCHANGED <<employeeVars, surfaceVars>>
  BY DEF SetVerdict
<1>3. ProcType' /\ JudgesItems' /\ NoneBegins /\ pc'[p] = "idle"
  BY <1>1, <1>2, EndsProc
<1>4. i \in Items /\ row[i] \in Row
  BY <1>1, <1>2 DEF JudgesItems, RowType
<1>5. CASE UNCHANGED <<row, queued, wordVars>>
  BY <1>2, <1>3, <1>5, QuietMoves
<1>6. CASE /\ row[i].st = "discovered"
           /\ Wake(r, FALSE)
           /\ under' = [under EXCEPT ![i] = IF judged.st = "skipped" THEN readCharter[p] ELSE 0]
           /\ agedOut' = IF judged.st = "deferred" /\ stored = "connected" /\ ~fresh
                         THEN agedOut \cup {i} ELSE agedOut \ {i}
           /\ UNCHANGED resent
  <2>1. decision[p] \in {"none", "outOfScope", "connection", "queue", "claim"}
    BY <1>1 DEF SetVerdict, ProcType
  <2>2. cap \in Nat /\ probed \in Probes
    BY <1>1, CapNat DEF SurfaceType
  <2>3. /\ judged \in Row /\ judged.claim = "none"
        /\ judged.st \in {"open", "discovered", "skipped", "deferred"}
        /\ judged.st = "open" => OpenCount(row) < cap
        /\ judged.st = "deferred" =>
             judged.verdict # "charter" /\ (~Live \/ SurfaceKey(probed) \in judged.spent)
        /\ \A k \in judged.spent : k \in row[i].spent \/ k = SurfaceKey(probed)
    BY <1>4, <2>1, <2>2, VerdictRow
  <2> HIDE DEF judged, i
  <2>4. r \in [Items -> Row] /\ r[i] = judged /\ \A j \in Items \ {i} : r[j] = row[j]
    BY <1>1, <1>4, <2>3 DEF RowType
  <2>5. WordType'
    <3>1. 0 \in Charters /\ readCharter[p] \in Charters
      BY <1>1, BoundAssumption DEF Charters, ProcType
    <3> QED BY <1>1, <1>4, <1>6, <3>1 DEF WordType
  <2>6. Settles(r)
    BY <1>1, <1>6, <2>4, WakeSettles DEF RowType
  <2>7. RowSteady(r, i)
    <3>1. ~GoesOn(i) \/ i \in resent'
      <4>1. ASSUME i \notin resent
            PROVE  row[i].claim = p
        BY <1>2, <4>1 DEF QueueInv, OneEvaluation, i
      <4> QED BY <1>3, <1>6, <4>1 DEF GoesOn
    <3>2. ClaimSteady(r, i)
      BY <2>3, <2>4, <3>1, ProcAssumption DEF ClaimSteady
    <3>3. WaitSteady(r, i)
      <4>1. stored' = stored /\ probed' = probed
        BY <1>2 DEF surfaceVars
      <4>2. stored # "connected" \/ SurfaceKey(probed) \in judged.spent \/ i \in agedOut'
            \/ judged.st # "deferred"
        BY <1>6, <2>3 DEF Live
      <4>3. probed <= probed
        BY <2>2, BoundAssumption DEF Probes
      <4> HIDE DEF r
      <4> QED BY <2>2, <2>3, <2>4, <4>1, <4>2, <4>3 DEF WaitSteady
    <3>4. SlotSteady(r, i)
      <4>1. Open(r) \subseteq Open(row) \cup {i}
        BY <2>4 DEF Open
      <4>2. OpenCount(r) <= OpenCount(row) + 1 /\ OpenCount(r) \in Nat /\ OpenCount(row) \in Nat
        BY <4>1, OpenFinite, OneMore DEF OpenCount
      <4> HIDE DEF r
      <4> QED BY <2>2, <2>3, <2>4, <4>2 DEF SlotSteady
    <3> QED BY <3>2, <3>3, <3>4 DEF RowSteady
  <2>8. resent \subseteq resent' /\ \A j \in Items \ {i} : j \in agedOut => j \in agedOut'
    BY <1>6
  <2> QED BY <1>2, <1>3, <1>4, <2>3, <2>5, <2>6, <2>7, <2>8, PatchMoves
<1> QED BY <1>5, <1>6 DEF SetVerdict

-----------------------------------------------------------------------------
(* Work that is let go, and sent back.                                     *)

LEMMA WorkPatch ==
  ASSUME QueueInv, WaitInv, UNCHANGED <<employeeVars, surfaceVars, procVars>>, WordType',
         resent \subseteq resent', NEW i \in Items, NEW new \in Row, NEW r,
         r = [row EXCEPT ![i] = new], Settles(r),
         new.claim \in Procs => new.claim = row[i].claim /\ new.st = "withdrawn",
         new.claim = row[i].claim \/ i \in resent' \/ ~Held(i),
         new.spent = row[i].spent,
         new.st = "deferred" => new.verdict = "connection" /\ stored = "approved",
         row[i].st = "discovered" => new.st # "open",
         \A j \in Items \ {i} : j \in agedOut => j \in agedOut'
  PROVE  OtherTypes' /\ Moves
<1>1. RowType /\ OtherTypes
  BY DEF QueueInv, TypeInv
<1>2. r[i] = new
  BY <1>1, OneRow
<1>3. pc' = pc /\ item' = item /\ stored' = stored
  BY DEF procVars, surfaceVars
<1>4. ClaimSteady(r, i)
  <2>1. GoesOn(i) => Held(i)
    BY <1>3 DEF GoesOn, Held
  <2> QED BY <1>2, <2>1 DEF ClaimSteady
<1>5. WaitSteady(r, i)
  BY <1>2, <1>3 DEF WaitSteady
<1>6. SlotSteady(r, i)
  BY <1>2 DEF SlotSteady
<1>7. ProcType' /\ JudgesItems' /\ NoneBegins
  BY <1>1, ProcsStay
<1> QED BY <1>4, <1>5, <1>6, <1>7, PatchMoves DEF RowSteady

\* A row in none of the states of an evaluation holds no claim.
LEMMA Unclaimed ==
  ASSUME QueueInv, NEW i \in Items, row[i].st \notin {"discovered", "withdrawn"}
  PROVE  row[i].claim \notin Procs
BY DEF QueueInv, ClaimsOnWork

\* The words the properties keep stay as they are.
LEMMA WordsStay ==
  ASSUME QueueInv, UNCHANGED wordVars
  PROVE  WordType' /\ resent \subseteq resent' /\ agedOut' = agedOut
BY DEF QueueInv, TypeInv, OtherTypes, WordType, wordVars

LEMMA SeedMoves ==
  ASSUME QueueInv, WaitInv, NEW i \in Items, Seed(i)
  PROVE  OtherTypes' /\ Moves
<1> DEFINE new == [row[i] EXCEPT !.st = "discovered"]
<1>1. RowType /\ row[i] \in Row /\ "discovered" \in States
  BY DEF QueueInv, TypeInv, RowType, States
<1>2. new \in Row /\ new.st = "discovered" /\ new.claim = row[i].claim /\ new.spent = row[i].spent
  BY <1>1 DEF Row
<1>3. PICK r : r = [row EXCEPT ![i] = new]
  OBVIOUS
<1>4. Wake(r, FALSE) /\ row[i].st = "absent"
  BY <1>3 DEF Seed
<1> HIDE DEF new
<1>5. Settles(r)
  BY <1>1, <1>2, <1>3, <1>4, OneRow, WakeSettles DEF RowType
<1>6. row[i].claim \notin Procs
  BY <1>4, Unclaimed
<1>7. WordType' /\ resent \subseteq resent' /\ agedOut' = agedOut
  BY WordsStay DEF Seed
<1>8. UNCHANGED <<employeeVars, surfaceVars, procVars>>
  BY DEF Seed
<1> QED BY <1>2, <1>3, <1>4, <1>5, <1>6, <1>7, <1>8, WorkPatch

LEMMA RunEndsMoves ==
  ASSUME QueueInv, WaitInv, NEW i \in Items, RunEnds(i)
  PROVE  OtherTypes' /\ Moves
<1> DEFINE new == [row[i] EXCEPT !.st = "ended"]
<1>1. RowType /\ row[i] \in Row /\ "ended" \in States
  BY DEF QueueInv, TypeInv, RowType, States
<1>2. new \in Row /\ new.st = "ended" /\ new.claim = row[i].claim /\ new.spent = row[i].spent
  BY <1>1 DEF Row
<1>3. PICK r : r = [row EXCEPT ![i] = new]
  OBVIOUS
<1>4. Wake(r, FALSE) /\ row[i].st = "open"
  BY <1>3 DEF RunEnds
<1> HIDE DEF new
<1>5. Settles(r)
  BY <1>1, <1>2, <1>3, <1>4, OneRow, WakeSettles DEF RowType
<1>6. row[i].claim \notin Procs
  BY <1>4, Unclaimed
<1>7. WordType' /\ resent \subseteq resent' /\ agedOut' = agedOut
  BY WordsStay DEF RunEnds
<1>8. UNCHANGED <<employeeVars, surfaceVars, procVars>>
  BY DEF RunEnds
<1> QED BY <1>2, <1>3, <1>4, <1>5, <1>6, <1>7, <1>8, WorkPatch

LEMMA ParkMoves ==
  ASSUME QueueInv, WaitInv, NEW i \in Items, ParkOnConnection(i)
  PROVE  OtherTypes' /\ Moves
<1> DEFINE new == [row[i] EXCEPT !.st = "deferred", !.verdict = "connection"]
<1>1. RowType /\ WordType /\ row[i] \in Row /\ "deferred" \in States /\ "connection" \in Reasons
  BY DEF QueueInv, TypeInv, OtherTypes, RowType, States, Reasons
<1>2. /\ new \in Row /\ new.st = "deferred" /\ new.claim = row[i].claim /\ new.verdict = "connection"
      /\ new.spent = row[i].spent
  BY <1>1 DEF Row
<1>3. PICK r : r = [row EXCEPT ![i] = new]
  OBVIOUS
<1>4. Wake(r, FALSE) /\ row[i].st = "open" /\ stored = "approved"
  BY <1>3 DEF ParkOnConnection
<1> HIDE DEF new
<1>5. Settles(r)
  BY <1>1, <1>2, <1>3, <1>4, OneRow, WakeSettles DEF RowType
<1>6. row[i].claim \notin Procs
  BY <1>4, Unclaimed
<1>7. /\ WordType' /\ resent \subseteq resent' /\ \A j \in Items \ {i} : j \in agedOut => j \in agedOut'
      /\ UNCHANGED <<employeeVars, surfaceVars, procVars>>
  BY <1>1 DEF ParkOnConnection, WordType
<1> QED BY <1>2, <1>3, <1>4, <1>5, <1>6, <1>7, WorkPatch

LEMMA WithdrawMoves ==
  ASSUME QueueInv, WaitInv, NEW i \in Items, Withdraw(i)
  PROVE  OtherTypes' /\ Moves
<1> DEFINE new == [row[i] EXCEPT !.st = "withdrawn", !.verdict = Claimed(row[i])]
<1>1. RowType /\ row[i] \in Row /\ "withdrawn" \in States /\ Claimed(row[i]) \in Reasons
  BY DEF QueueInv, TypeInv, RowType, States, Reasons, Claimed
<1>2. new \in Row /\ new.st = "withdrawn" /\ new.claim = row[i].claim /\ new.spent = row[i].spent
  BY <1>1 DEF Row
<1>3. PICK r : r = [row EXCEPT ![i] = new]
  OBVIOUS
<1>4. Wake(r, FALSE)
  BY <1>3 DEF Withdraw
<1> HIDE DEF new
<1>5. Settles(r)
  BY <1>1, <1>2, <1>3, <1>4, OneRow, WakeSettles DEF RowType
<1>6. WordType' /\ resent \subseteq resent' /\ agedOut' = agedOut
  BY WordsStay DEF Withdraw
<1>7. UNCHANGED <<employeeVars, surfaceVars, procVars>>
  BY DEF Withdraw
<1> QED BY <1>2, <1>3, <1>5, <1>6, <1>7, WorkPatch

\* A row that is sent back while it is held counts as resent.
LEMMA ResendsWords ==
  ASSUME QueueInv, NEW i \in Items, Resends(i), UNCHANGED <<under, agedOut>>
  PROVE  /\ WordType' /\ resent \subseteq resent' /\ agedOut' = agedOut
         /\ row[i].st = "withdrawn" => i \in resent' \/ ~Held(i)
BY DEF QueueInv, TypeInv, OtherTypes, WordType, Resends

LEMMA ListedMoves ==
  ASSUME QueueInv, WaitInv, NEW i \in Items, ListedAgain(i)
  PROVE  OtherTypes' /\ Moves
<1> DEFINE new == [row[i] EXCEPT !.st = "discovered", !.claim = "none", !.unavail = FALSE]
<1>1. RowType /\ row[i] \in Row /\ "discovered" \in States /\ FALSE \in BOOLEAN
  BY DEF QueueInv, TypeInv, RowType, States
<1>2. new \in Row /\ new.st = "discovered" /\ new.claim = "none" /\ new.spent = row[i].spent
  BY <1>1 DEF Row
<1>3. PICK r : r = [row EXCEPT ![i] = new]
  OBVIOUS
<1>4. Wake(r, FALSE) /\ row[i].st = "withdrawn"
  BY <1>3 DEF ListedAgain
<1> HIDE DEF new
<1>5. Settles(r)
  BY <1>1, <1>2, <1>3, <1>4, OneRow, WakeSettles DEF RowType
<1>6. WordType' /\ resent \subseteq resent' /\ agedOut' = agedOut /\ (i \in resent' \/ ~Held(i))
  BY <1>4, ResendsWords DEF ListedAgain
<1>7. UNCHANGED <<employeeVars, surfaceVars, procVars>>
  BY DEF ListedAgain
<1> QED BY <1>2, <1>3, <1>5, <1>6, <1>7, ProcAssumption, WorkPatch

LEMMA RetriedIsRow ==
  ASSUME NEW r \in Row
  PROVE  /\ RetriedRow(r) \in Row /\ RetriedRow(r).claim = "none" /\ RetriedRow(r).spent = r.spent
         /\ RetriedRow(r).st \in {"open", "discovered"}
<1> DEFINE st == IF r.verdict = "claim" THEN "open" ELSE "discovered"
           why == Claimed(r)
<1>1. PICK j : j = Judged(r, st, why)
  OBVIOUS
<1>2. st \in States /\ why \in Reasons /\ st \in {"open", "discovered"}
  BY DEF States, Reasons, Claimed
<1>3. RetriedRow(r) = [j EXCEPT !.waived = j.waived \/ (r.st = "skipped" /\ r.verdict = "outOfScope")]
  BY <1>1 DEF RetriedRow
<1> HIDE DEF st, why
<1>4. j \in Row /\ j.st = st /\ j.claim = "none" /\ j.spent = r.spent
  BY <1>1, <1>2, JudgedRow
<1>5. (j.waived \/ (r.st = "skipped" /\ r.verdict = "outOfScope")) \in BOOLEAN
  BY <1>4, RowParts
<1> QED BY <1>2, <1>3, <1>4, <1>5 DEF Row

LEMMA RetryMoves ==
  ASSUME QueueInv, WaitInv, NEW i \in Items, RetryFailed(i)
  PROVE  OtherTypes' /\ Moves
<1> DEFINE new == RetriedRow(row[i])
<1>1. RowType /\ row[i] \in Row
  BY DEF QueueInv, TypeInv, RowType
<1>2. new \in Row /\ new.claim = "none" /\ new.spent = row[i].spent /\ new.st \in {"open", "discovered"}
  BY <1>1, RetriedIsRow
<1>3. PICK r : r = [row EXCEPT ![i] = new]
  OBVIOUS
<1>4. Wake(r, FALSE) \/ (row' = r /\ UNCHANGED queued)
  BY <1>3 DEF RetryFailed
<1>5. row[i].st \in {"ended", "skipped", "withdrawn", "deferred"}
  BY DEF RetryFailed
<1> HIDE DEF new
<1>6. r \in [Items -> Row]
  BY <1>1, <1>2, <1>3, OneRow
<1>7. Settles(r)
  BY <1>1, <1>4, <1>6, WakeSettles DEF RowType, Settles, Settled
<1>8. UNCHANGED <<employeeVars, surfaceVars, procVars>>
  BY DEF RetryFailed
<1>9. /\ WordType' /\ resent \subseteq resent' /\ agedOut' = agedOut
      /\ row[i].st = "withdrawn" => i \in resent' \/ ~Held(i)
  BY ResendsWords DEF RetryFailed
<1>10. new.claim = row[i].claim \/ i \in resent' \/ ~Held(i)
  <2>1. CASE row[i].st # "withdrawn"
    <3>1. row[i].claim \notin Procs
      BY <1>5, <2>1, Unclaimed
    <3>2. ASSUME NEW p \in Procs, pc[p] # "idle", item[p] = i, i \notin resent
          PROVE  FALSE
      BY <3>1, <3>2 DEF QueueInv, OneEvaluation
    <3> QED BY <1>9, <3>2 DEF Held
  <2> QED BY <1>9, <2>1
<1> QED BY <1>2, <1>3, <1>5, <1>7, <1>8, <1>9, <1>10, ProcAssumption, WorkPatch

-----------------------------------------------------------------------------
(* The employee, and the queue woken with no row changed.                  *)

LEMMA EmployeeMoves ==
  ASSUME QueueInv, WaitInv, UNCHANGED <<surfaceVars, procVars, wordVars>>, EmployeeType', CharterFits',
         charter <= charter', requeues \subseteq requeues', drafting => drafting', Settles(row)
  PROVE  OtherTypes' /\ Moves
<1>1. OtherTypes /\ since <= probed
  BY DEF QueueInv, TypeInv, WaitInv
<1>2. stored' = stored /\ probed' = probed /\ since' = since /\ agedOut' = agedOut /\ resent' = resent
  BY DEF surfaceVars, wordVars
<1>3. ProcType' /\ JudgesItems' /\ NoneBegins
  BY <1>1, ProcsStay
<1>4. OtherTypes'
  BY <1>1, <1>3 DEF OtherTypes, SurfaceType, WordType, surfaceVars, wordVars
<1>5. Forward
  <2>1. probed <= probed
    BY <1>1, BoundAssumption DEF OtherTypes, SurfaceType, Probes
  <2> QED BY <1>1, <1>2, <2>1 DEF Forward
<1>6. RequeuesMet(row)
  BY DEF RequeuesMet
<1>7. \E r : Steady(r)
  BY <1>2, <1>6, RowsKept
<1> QED BY <1>2, <1>3, <1>4, <1>5, <1>7 DEF Moves

LEMMA CharterNat ==
  ASSUME QueueInv
  PROVE  /\ charter \in 0..MaxCharter /\ MaxCharter \in Nat /\ requeues \subseteq 0..MaxCharter
         /\ EmployeeType /\ CharterFits /\ RowType
BY BoundAssumption DEF QueueInv, TypeInv, OtherTypes, EmployeeType, CharterFits, Charters

LEMMA SweepMoves ==
  ASSUME QueueInv, WaitInv, Sweep
  PROVE  OtherTypes' /\ Moves
<1>1. EmployeeType /\ CharterFits /\ RowType /\ charter <= charter
  BY CharterNat
<1>2. UNCHANGED <<employeeVars, surfaceVars, procVars, wordVars>> /\ Wake(row, FALSE)
  BY DEF Sweep
<1>3. Settles(row)
  BY <1>1, <1>2, WakeSettles DEF RowType
<1>4. EmployeeType' /\ CharterFits' /\ charter' = charter /\ requeues' = requeues /\ drafting' = drafting
  BY <1>1, <1>2 DEF EmployeeType, CharterFits, employeeVars
<1> QED BY <1>1, <1>2, <1>3, <1>4, EmployeeMoves

LEMMA SwitchMoves ==
  ASSUME QueueInv, WaitInv, SetAutonomousActions \/ Pause \/ Resume
  PROVE  OtherTypes' /\ Moves
<1>1. EmployeeType /\ CharterFits /\ RowType /\ charter <= charter
  BY CharterNat
<1>2. UNCHANGED <<charter, drafting, requeues, surfaceVars, procVars, wordVars>>
  BY DEF SetAutonomousActions, Pause, Resume
<1>3. cap' \in {CapLow, CapHigh} /\ paused' \in BOOLEAN
  BY <1>1 DEF EmployeeType, SetAutonomousActions, Pause, Resume
<1>4. UNCHANGED <<row, queued>> \/ Schedule(row, CapHigh, FALSE) \/ Schedule(row, cap, FALSE)
  BY DEF SetAutonomousActions, Pause, Resume
<1>5. Settles(row)
  BY <1>1, <1>4, ScheduleSettles, NothingSettles DEF RowType
<1>6. EmployeeType' /\ CharterFits'
  BY <1>1, <1>2, <1>3 DEF EmployeeType, CharterFits
<1> QED BY <1>1, <1>2, <1>5, <1>6, EmployeeMoves

LEMMA CharterMoves ==
  ASSUME QueueInv, WaitInv, AmendCharter \/ DraftCharter
  PROVE  OtherTypes' /\ Moves
<1>1. /\ charter \in 0..MaxCharter /\ MaxCharter \in Nat /\ requeues \subseteq 0..MaxCharter
      /\ EmployeeType /\ CharterFits /\ RowType
  BY CharterNat
<1>2. UNCHANGED <<row, queued, cap, paused, surfaceVars, procVars, wordVars>> /\ charter < MaxCharter /\ ~drafting
  BY DEF AmendCharter, DraftCharter
<1>3. CASE AmendCharter
  <2>1. charter' = charter + 1 /\ requeues' = requeues \cup {charter + 1} /\ drafting' = drafting
    BY <1>3 DEF AmendCharter
  <2>2. charter' \in 0..MaxCharter /\ requeues' \subseteq 0..MaxCharter /\ \A c \in requeues' : c <= charter'
    BY <1>1, <1>2, <2>1 DEF CharterFits
  <2>3. EmployeeType' /\ CharterFits'
    BY <1>1, <1>2, <2>1, <2>2 DEF EmployeeType, CharterFits, Charters
  <2>4. Settles(row)
    BY <1>1, <1>2, NothingSettles
  <2> QED BY <1>1, <1>2, <2>1, <2>3, <2>4, EmployeeMoves
<1>4. CASE DraftCharter
  <2>1. charter' = charter /\ requeues' = requeues /\ drafting' = TRUE
    BY <1>4 DEF DraftCharter
  <2>2. EmployeeType' /\ CharterFits'
    BY <1>1, <1>2, <2>1 DEF EmployeeType, CharterFits
  <2>3. Settles(row)
    BY <1>1, <1>2, NothingSettles
  <2> QED BY <1>1, <1>2, <2>1, <2>2, <2>3, EmployeeMoves
<1> QED BY <1>3, <1>4

-----------------------------------------------------------------------------
(* Rows sent back by a charter or a connection.                            *)

ReadmittedRow(r, spent) ==
  [r EXCEPT !.st = "discovered", !.verdict = "none", !.attempts = 0, !.unavail = FALSE, !.spent = spent]

LEMMA ReadmittedIsRow ==
  ASSUME NEW r \in Row, NEW spent \in SUBSET Keys
  PROVE  /\ ReadmittedRow(r, spent) \in Row /\ ReadmittedRow(r, spent).st = "discovered"
         /\ ReadmittedRow(r, spent).claim = r.claim /\ ReadmittedRow(r, spent).spent = spent
<1>1. 0 \in 0..MaxAttempts /\ "discovered" \in States /\ "none" \in Reasons
  BY AttemptAssumption DEF States, Reasons
<1> QED BY <1>1 DEF ReadmittedRow, Row

LEMMA ReadmittedRows ==
  ASSUME RowType, NEW S, NEW K, NEW key \in Keys, NEW r, r = Readmitted(S, K, key)
  PROVE  /\ r \in [Items -> Row]
         /\ \A i \in Items \ S : r[i] = row[i]
         /\ \A i \in Items \cap S : /\ r[i].st = "discovered" /\ r[i].claim = row[i].claim
                                    /\ r[i].spent \subseteq row[i].spent \cup {key}
<1> DEFINE spent(i) == IF i \in K THEN row[i].spent \cup {key} ELSE row[i].spent
<1>1. r = [i \in Items |-> IF i \in S THEN ReadmittedRow(row[i], spent(i)) ELSE row[i]]
  BY DEF Readmitted, ReadmittedRow
<1>2. ASSUME NEW i \in Items
      PROVE  /\ row[i] \in Row /\ spent(i) \in SUBSET Keys /\ spent(i) \subseteq row[i].spent \cup {key}
  BY RowParts DEF RowType
<1> HIDE DEF spent
<1>3. ASSUME NEW i \in Items
      PROVE  /\ r[i] \in Row
             /\ i \notin S => r[i] = row[i]
             /\ i \in S => /\ r[i].st = "discovered" /\ r[i].claim = row[i].claim
                           /\ r[i].spent \subseteq row[i].spent \cup {key}
  <2>1. CASE i \in S
    <3>1. r[i] = ReadmittedRow(row[i], spent(i))
      BY <1>1, <2>1
    <3> QED BY <1>2, <2>1, <3>1, ReadmittedIsRow
  <2>2. CASE i \notin S
    BY <1>1, <1>2, <2>2
  <2> QED BY <2>1, <2>2
<1>4. r \in [Items -> Row]
  BY <1>1, <1>3
<1> QED BY <1>3, <1>4

\* A parked or skipped row that a key sends back.
LEMMA ReadmittedSteady ==
  ASSUME QueueInv, NEW r, NEW i \in Items, NEW key,
         row[i].st \in {"skipped", "deferred"},
         r[i].st = "discovered", r[i].claim = row[i].claim, r[i].spent \subseteq row[i].spent \cup {key},
         \/ \E c \in Charters : c <= charter /\ key = CharterKey(c)
         \/ \E v \in Probes : v <= probed' /\ key = SurfaceKey(v)
  PROVE  RowSteady(r, i)
<1>1. row[i].claim \notin Procs
  BY Unclaimed
<1>2. ClaimSteady(r, i)
  BY <1>1 DEF ClaimSteady
<1>3. WaitSteady(r, i)
  BY DEF WaitSteady
<1>4. SlotSteady(r, i)
  BY DEF SlotSteady
<1> QED BY <1>2, <1>3, <1>4 DEF RowSteady

\* A re-evaluation, whatever sent it: the rows of S go back.
LEMMA ReadmitSettles ==
  ASSUME QueueInv, NEW S \in SUBSET Items, NEW K, NEW key \in Keys, NEW several,
         Wake(Readmitted(S, K, key), several),
         \A i \in S : row[i].st \in {"skipped", "deferred"},
         \/ \E c \in Charters : c <= charter /\ key = CharterKey(c)
         \/ \E v \in Probes : v <= probed' /\ key = SurfaceKey(v)
  PROVE  \E r : /\ Settles(r)
                /\ \A i \in Items \ S : r[i] = row[i]
                /\ \A i \in S : r[i].st = "discovered" /\ RowSteady(r, i)
<1>1. PICK r : r = Readmitted(S, K, key)
  OBVIOUS
<1>2. RowType
  BY DEF QueueInv, TypeInv
<1>3. /\ r \in [Items -> Row]
      /\ \A i \in Items \ S : r[i] = row[i]
      /\ \A i \in Items \cap S : /\ r[i].st = "discovered" /\ r[i].claim = row[i].claim
                                 /\ r[i].spent \subseteq row[i].spent \cup {key}
  BY <1>1, <1>2, ReadmittedRows
<1>4. Settles(r)
  BY <1>1, <1>2, <1>3, WakeSettles DEF RowType
<1>5. \A i \in S : RowSteady(r, i)
  BY <1>3, ReadmittedSteady
<1> QED BY <1>3, <1>4, <1>5

LEMMA ReevaluateSettles ==
  ASSUME QueueInv, NEW trigger, NEW key \in Keys, Reevaluate(trigger, key),
         \/ \E c \in Charters : c <= charter /\ key = CharterKey(c)
         \/ \E v \in Probes : v <= probed' /\ key = SurfaceKey(v)
  PROVE  \E r : /\ Settles(r)
                /\ \A i \in Items :
                     \/ r[i] = row[i] /\ ~(ReturnsOn(i, trigger) /\ key \notin row[i].spent)
                     \/ r[i].st = "discovered" /\ RowSteady(r, i)
<1> DEFINE back == {i \in Items : ReturnsOn(i, trigger) /\ key \notin row[i].spent}
<1>1. CASE back = {}
  <2>1. Settles(row)
    BY <1>1, NothingSettles DEF Reevaluate, QueueInv, TypeInv
  <2> QED BY <1>1, <2>1
<1>2. CASE back # {}
  <2>1. Wake(Readmitted(back, back, key), TRUE)
    BY <1>2 DEF Reevaluate
  <2>2. \A i \in back : row[i].st \in {"skipped", "deferred"}
    BY DEF ReturnsOn
  <2>3. back \in SUBSET Items
    OBVIOUS
  <2> HIDE DEF back
  <2>4. PICK r : /\ Settles(r)
                 /\ \A i \in Items \ back : r[i] = row[i]
                 /\ \A i \in back : r[i].st = "discovered" /\ RowSteady(r, i)
    BY <2>1, <2>2, <2>3, ReadmitSettles
  <2> QED BY <2>4 DEF back
<1> QED BY <1>1, <1>2

LEMMA ReevaluateMoves ==
  ASSUME QueueInv, WaitInv, NEW c \in Charters, ReevaluatePending(c)
  PROVE  OtherTypes' /\ Moves
<1>1. OtherTypes /\ c <= charter /\ charter <= charter /\ CharterKey(c) \in Keys
  BY CharterNat, KeysApart DEF QueueInv, TypeInv, ReevaluatePending, CharterFits
<1>2. /\ UNCHANGED <<cap, paused, charter, drafting, surfaceVars, procVars, wordVars>>
      /\ requeues' = requeues \ {c} /\ Reevaluate("charter", CharterKey(c))
  BY DEF ReevaluatePending
<1>3. /\ stored' = stored /\ probed' = probed /\ since' = since /\ agedOut' = agedOut /\ resent' = resent
      /\ charter' = charter /\ drafting' = drafting
  BY <1>2 DEF surfaceVars, wordVars
<1>4. PICK r : /\ Settles(r)
               /\ \A i \in Items :
                    \/ r[i] = row[i] /\ ~(ReturnsOn(i, "charter") /\ CharterKey(c) \notin row[i].spent)
                    \/ r[i].st = "discovered" /\ RowSteady(r, i)
  BY <1>1, <1>2, ReevaluateSettles
<1>5. ASSUME NEW i \in Items
      PROVE  /\ RowSteady(r, i)
             /\ r[i].st = "deferred" /\ r[i].verdict = "charter" => CharterKey(c) \in r[i].spent
  BY <1>3, <1>4, RowKept DEF ReturnsOn
<1>6. RequeuesMet(r)
  BY <1>2, <1>3, <1>5 DEF RequeuesMet
<1>7. OtherTypes'
  BY <1>1, <1>2, ProcsStay DEF OtherTypes, EmployeeType, SurfaceType, WordType, CharterFits, surfaceVars, wordVars
<1>8. Forward
  <2>1. probed <= probed
    BY <1>1, BoundAssumption DEF OtherTypes, SurfaceType, Probes
  <2> QED BY <1>1, <1>3, <2>1 DEF Forward, WaitInv
<1>9. NoneBegins
  BY <1>1, <1>2, ProcsStay
<1> QED BY <1>3, <1>4, <1>5, <1>6, <1>7, <1>8, <1>9 DEF Moves, Steady

LEMMA SatisfiedMoves ==
  ASSUME QueueInv, WaitInv, ReadmitSatisfied
  PROVE  OtherTypes' /\ Moves
<1> DEFINE satisfied == {i \in Items : /\ row[i].st = "deferred" /\ row[i].verdict = "connection"
                                       /\ WaitSatisfied(row[i])}
           unread == {i \in Items : row[i].st = "deferred" /\ row[i].verdict = "unavailable"}
<1>1. PICK U \in SUBSET unread :
        /\ Wake(Readmitted(satisfied \cup U, satisfied, SurfaceKey(probed)), TRUE)
        /\ UNCHANGED <<employeeVars, surfaceVars, procVars, wordVars>>
  BY DEF ReadmitSatisfied
<1>2. OtherTypes /\ probed \in Probes /\ probed <= probed /\ SurfaceKey(probed) \in Keys
  BY KeysApart, BoundAssumption DEF QueueInv, TypeInv, OtherTypes, SurfaceType, Probes
<1>3. SurfaceStays /\ CharterStays /\ agedOut' = agedOut /\ resent' = resent
  BY <1>1 DEF SurfaceStays, CharterStays, employeeVars, surfaceVars, wordVars
<1>4. satisfied \cup U \in SUBSET Items /\ \A i \in satisfied \cup U : row[i].st \in {"skipped", "deferred"}
  OBVIOUS
<1> HIDE DEF satisfied, unread
<1>5. probed' \in Probes /\ probed <= probed' /\ SurfaceKey(probed) = SurfaceKey(probed')
       /\ \E v \in Probes : v <= probed' /\ SurfaceKey(probed) = SurfaceKey(v)
  BY <1>2, <1>3 DEF SurfaceStays
<1>6. PICK r : /\ Settles(r)
               /\ \A i \in Items \ (satisfied \cup U) : r[i] = row[i]
               /\ \A i \in satisfied \cup U : r[i].st = "discovered" /\ RowSteady(r, i)
  BY <1>1, <1>2, <1>4, <1>5, ReadmitSettles
<1>7. \A i \in Items : RowSteady(r, i)
  BY <1>3, <1>6, RowKept DEF SurfaceStays
<1>8. Forward /\ RequeuesMet(r)
  BY <1>3, StaysForward DEF QueueInv
<1>9. ProcType' /\ JudgesItems' /\ NoneBegins
  BY <1>1, <1>2, ProcsStay
<1>10. OtherTypes'
  BY <1>1, <1>2, <1>9 DEF OtherTypes, EmployeeType, SurfaceType, WordType, CharterFits,
         employeeVars, surfaceVars, wordVars
<1> QED BY <1>3, <1>6, <1>7, <1>8, <1>9, <1>10 DEF Moves, Steady

-----------------------------------------------------------------------------
(* The surface.                                                            *)

LEMMA SurfaceMoves ==
  ASSUME QueueInv, WaitInv, UNCHANGED <<employeeVars, procVars, wordVars>>, SurfaceType',
         probed <= probed', since' <= probed', NEW r, Settles(r), \A i \in Items : RowSteady(r, i)
  PROVE  OtherTypes' /\ Moves
<1>1. OtherTypes /\ charter <= charter
  BY CharterNat DEF QueueInv, TypeInv
<1>2. CharterStays /\ resent' = resent
  BY DEF CharterStays, employeeVars, wordVars
<1>3. Forward /\ RequeuesMet(r)
  BY <1>1, <1>2 DEF Forward, RequeuesMet, CharterStays
<1>4. ProcType' /\ JudgesItems' /\ NoneBegins
  BY <1>1, ProcsStay
<1>5. OtherTypes'
  BY <1>1, <1>4 DEF OtherTypes, EmployeeType, WordType, CharterFits, employeeVars, wordVars
<1> QED BY <1>2, <1>3, <1>4, <1>5 DEF Moves, Steady

LEMMA ProbeFails ==
  ASSUME QueueInv, WaitInv, RecordProbeFailure \/ GoStale
  PROVE  OtherTypes' /\ Moves
<1>1. /\ UNCHANGED <<row, queued, probed, since, employeeVars, procVars, wordVars>>
      /\ fresh' = FALSE /\ (stored' = stored \/ stored' \in {"listed-dead", "approved"})
  BY DEF RecordProbeFailure, GoStale
<1>2. SurfaceType /\ RowType /\ since <= probed
  BY DEF QueueInv, TypeInv, OtherTypes, WaitInv
<1>3. SurfaceType'
  BY <1>1, <1>2 DEF SurfaceType
<1>4. Settles(row)
  BY <1>1, <1>2, NothingSettles
<1>5. \A i \in Items : RowSteady(row, i)
  BY <1>1, RowKept DEF wordVars
<1>6. probed <= probed
  BY <1>2, BoundAssumption DEF SurfaceType, Probes
<1> QED BY <1>1, <1>2, <1>3, <1>4, <1>5, <1>6, SurfaceMoves

LEMMA ConnectedMoves ==
  ASSUME QueueInv, WaitInv, RecordConnected
  PROVE  OtherTypes' /\ Moves
<1>1. /\ probed < MaxProbes /\ probed' = probed + 1 /\ stored' = "connected" /\ fresh' = TRUE
      /\ UNCHANGED <<employeeVars, procVars, wordVars>>
  BY DEF RecordConnected
<1>2. SurfaceType /\ RowType /\ since <= probed /\ SpentPast
  BY DEF QueueInv, TypeInv, OtherTypes, WaitInv
<1>3. /\ probed \in Nat /\ since \in Nat /\ MaxProbes \in Nat /\ probed' \in Probes /\ probed <= probed'
      /\ probed' <= probed' /\ ~(probed' <= probed)
  BY <1>1, <1>2, BoundAssumption DEF SurfaceType, Probes
<1>4. agedOut' = agedOut
  BY <1>1 DEF wordVars
<1>5. CASE stored = "connected"
  <2>1. UNCHANGED <<row, queued, since>>
    BY <1>5 DEF RecordConnected
  <2>2. Settles(row)
    BY <1>2, <2>1, NothingSettles
  <2>3. \A i \in Items : RowSteady(row, i)
    BY <1>1, <1>4, <1>5, <2>1, RowKept
  <2>4. SurfaceType' /\ since' <= probed'
    BY <1>1, <1>2, <1>3, <2>1 DEF SurfaceType
  <2> QED BY <1>1, <1>3, <2>2, <2>3, <2>4, SurfaceMoves
<1>6. CASE stored # "connected"
  <2>1. since' = probed' /\ Reevaluate("surface", SurfaceKey(probed'))
    BY <1>1, <1>6 DEF RecordConnected
  <2>2. SurfaceKey(probed') \in Keys /\ \A i \in Items : SurfaceKey(probed') \notin row[i].spent
    BY <1>2, <1>3, KeysApart DEF SpentPast
  <2>3. PICK r : /\ Settles(r)
                 /\ \A i \in Items :
                      \/ r[i] = row[i] /\ ~(ReturnsOn(i, "surface") /\ SurfaceKey(probed') \notin row[i].spent)
                      \/ r[i].st = "discovered" /\ RowSteady(r, i)
    BY <1>3, <2>1, <2>2, ReevaluateSettles
  <2>4. ASSUME NEW i \in Items, r[i] = row[i], ~ReturnsOn(i, "surface")
        PROVE  RowSteady(r, i)
    <3>1. ~(row[i].st = "deferred" /\ row[i].verdict = "connection")
      BY <2>4 DEF ReturnsOn
    <3>2. WaitSteady(r, i)
      BY <2>4, <3>1 DEF WaitSteady
    <3>3. ClaimSteady(r, i) /\ SlotSteady(r, i)
      BY <2>4 DEF ClaimSteady, SlotSteady, QueueInv, ClaimsOnWork
    <3> QED BY <3>2, <3>3 DEF RowSteady
  <2>5. \A i \in Items : RowSteady(r, i)
    BY <2>2, <2>3, <2>4
  <2>6. SurfaceType' /\ since' <= probed'
    BY <1>1, <1>2, <1>3, <2>1 DEF SurfaceType
  <2> QED BY <1>1, <1>3, <2>3, <2>5, <2>6, SurfaceMoves
<1> QED BY <1>5, <1>6

-----------------------------------------------------------------------------
(* The start of an evaluation, the approval of a charter, and the steps    *)
(* together.                                                               *)

StartedRow(r, p) ==
  [r EXCEPT !.claim = p, !.unavail = FALSE,
            !.attempts = IF r.attempts < MaxAttempts THEN r.attempts + 1 ELSE r.attempts]

LEMMA StartedIsRow ==
  ASSUME NEW r \in Row, NEW p \in Procs
  PROVE  /\ StartedRow(r, p) \in Row /\ StartedRow(r, p).claim = p /\ StartedRow(r, p).st = r.st
         /\ StartedRow(r, p).verdict = r.verdict /\ StartedRow(r, p).spent = r.spent
<1>1. (IF r.attempts < MaxAttempts THEN r.attempts + 1 ELSE r.attempts) \in 0..MaxAttempts
  BY RowParts, AttemptAssumption
<1> QED BY <1>1 DEF StartedRow, Row

\* A call takes a slot only where what is open and judged leaves one.
LEMMA StartKeeps ==
  ASSUME QueueInv, WaitInv, NEW p \in Procs, NEW i \in Items, StartEvaluation(p, i)
  PROVE  /\ QueueInv' /\ WaitInv'
         /\ row[i].st = "discovered" /\ row'[i].st = "discovered" /\ \A j \in Items \ {i} : row'[j] = row[j]
         /\ Cardinality(Open(row') \cup InFlight(row')) <= cap
<1>1. /\ queued[i] > 0 /\ pc[p] = "idle" /\ row[i].st = "discovered" /\ row[i].claim \notin Procs
      /\ HasSlot(row, cap, {i})
      /\ UNCHANGED <<readCharter, decision, employeeVars, surfaceVars, under, agedOut>>
  BY DEF StartEvaluation, Ready
<1>2. /\ RowType /\ OtherTypes /\ ProcType /\ JudgesItems /\ WordType /\ EmployeeType /\ SurfaceType
      /\ since <= probed
  BY DEF QueueInv, TypeInv, OtherTypes, WaitInv
<1>3. row[i] \in Row
  BY <1>2 DEF RowType
<1> DEFINE new == StartedRow(row[i], p)
<1>4. row' = [row EXCEPT ![i] = new]
  BY DEF StartEvaluation, StartedRow
<1>5. new \in Row /\ new.claim = p /\ new.st = "discovered"
  BY <1>1, <1>3, StartedIsRow
<1> HIDE DEF new
<1>6. row' \in [Items -> Row] /\ row'[i] = new /\ \A j \in Items \ {i} : row'[j] = row[j]
  BY <1>2, <1>4, <1>5 DEF RowType
<1>7. queued' \in [Items -> 0..MaxCopies]
  BY <1>1, <1>2, BoundAssumption DEF RowType, StartEvaluation
<1>8. pc' = [pc EXCEPT ![p] = "claimed"] /\ item' = [item EXCEPT ![p] = i]
  BY DEF StartEvaluation
<1>9. ProcType' /\ JudgesItems'
  BY <1>1, <1>2, <1>8 DEF ProcType, JudgesItems
<1>10. resent' = (IF Held(i) THEN resent ELSE resent \ {i})
  BY DEF StartEvaluation
<1>11. OtherTypes'
  BY <1>1, <1>2, <1>9, <1>10 DEF OtherTypes, EmployeeType, SurfaceType, WordType, CharterFits,
         employeeVars, surfaceVars
<1>12. TypeInv'
  BY <1>6, <1>7, <1>11 DEF TypeInv, RowType
<1>13. ClaimsOnWork'
  BY <1>5, <1>6 DEF QueueInv, ClaimsOnWork
<1>14. OneEvaluation'
  <2>1. ASSUME NEW q \in Procs, pc'[q] # "idle", item'[q] \notin resent'
        PROVE  row'[item'[q]].claim = q /\ row'[item'[q]].st \in {"discovered", "withdrawn"}
    <3>1. CASE q = p
      <4>1. item'[q] = i
        BY <1>2, <1>8, <3>1 DEF ProcType
      <4> QED BY <1>5, <1>6, <3>1, <4>1
    <3>2. CASE q # p
      <4>1. pc[q] # "idle" /\ item'[q] = item[q] /\ item[q] \in Items
        BY <1>2, <1>8, <2>1, <3>2 DEF ProcType, JudgesItems
      <4>2. CASE item[q] = i
        <5>1. Held(i) /\ i \notin resent
          BY <1>10, <2>1, <4>1, <4>2 DEF Held
        <5>2. row[i].claim = q
          BY <4>1, <4>2, <5>1 DEF QueueInv, OneEvaluation
        <5> QED BY <1>1, <5>2
      <4>3. CASE item[q] # i
        <5>1. item[q] \notin resent
          BY <1>10, <2>1, <4>1, <4>3
        <5>2. row[item[q]].claim = q /\ row[item[q]].st \in {"discovered", "withdrawn"}
          BY <4>1, <5>1 DEF QueueInv, OneEvaluation
        <5> QED BY <1>6, <4>1, <4>3, <5>2
      <4> QED BY <4>2, <4>3
    <3> QED BY <3>1, <3>2
  <2> QED BY <2>1 DEF OneEvaluation
<1>15. WaitInv'
  <2>1. SurfaceStays /\ CharterStays /\ agedOut' = agedOut
    BY <1>1 DEF SurfaceStays, CharterStays, employeeVars, surfaceVars
  <2>2. Settles(row')
    BY <1>6, <1>7 DEF Settles, Settled
  <2>3. Forward /\ RequeuesMet(row')
    BY <2>1, StaysForward DEF QueueInv
  <2>4. ASSUME NEW j \in Items
        PROVE  WaitSteady(row', j)
    <3>1. CASE j = i
      <4>1. row'[i].spent = row[i].spent /\ row'[i].st = "discovered"
        BY <1>3, <1>5, <1>6, StartedIsRow DEF new
      <4> QED BY <3>1, <4>1 DEF WaitSteady
    <3>2. CASE j # i
      BY <1>6, <2>1, <3>2, RowKept DEF SurfaceStays, RowSteady
    <3> QED BY <3>1, <3>2
  <2> QED BY <1>12, <2>2, <2>3, <2>4, WaitsKept DEF QueueInv, Forward
<1>16. Cardinality(Open(row') \cup InFlight(row')) <= cap
  <2> DEFINE S == Open(row) \cup (InFlight(row) \ {i})
  <2>1. Open(row') \cup InFlight(row') \subseteq S \cup {i}
    BY <1>6 DEF Open, InFlight, Evaluating
  <2>2. Cardinality(S) < cap
    BY <1>1 DEF HasSlot
  <2>3. S \subseteq Items
    BY DEF Open, InFlight
  <2>4. IsFiniteSet(S)
    BY <2>3, ItemAssumption, FS_Subset
  <2>5. cap \in Nat
    BY <1>2, CapNat
  <2> DEFINE T == Open(row') \cup InFlight(row')
  <2> HIDE DEF S, T
  <2>6. T \subseteq S \cup {i}
    BY <2>1 DEF T
  <2>7. Cardinality(S) \in Nat /\ Cardinality(T) \in Nat /\ Cardinality(T) <= Cardinality(S) + 1
    BY <2>4, <2>6, OneMore
  <2>8. Cardinality(T) <= cap
    BY <2>2, <2>5, <2>7
  <2> QED BY <2>8 DEF T
<1> QED BY <1>1, <1>5, <1>6, <1>12, <1>13, <1>14, <1>15, <1>16 DEF QueueInv

LEMMA ApproveKeeps ==
  ASSUME QueueInv, WaitInv, ApproveCharter
  PROVE  QueueInv' /\ WaitInv' /\ UNCHANGED row
<1>1. /\ charter \in 0..MaxCharter /\ MaxCharter \in Nat /\ requeues \subseteq 0..MaxCharter
      /\ EmployeeType /\ CharterFits /\ RowType
  BY CharterNat
<1>2. /\ UNCHANGED <<row, queued, cap, paused, surfaceVars, procVars, wordVars>>
      /\ drafting /\ drafting' = FALSE /\ charter' = charter + 1 /\ requeues' = requeues \cup {charter + 1}
  BY DEF ApproveCharter
<1>3. charter' \in Charters /\ requeues' \subseteq Charters /\ \A c \in requeues' : c <= charter'
  BY <1>1, <1>2 DEF CharterFits, Charters
<1>4. OtherTypes
  BY DEF QueueInv, TypeInv
<1>5. EmployeeType' /\ CharterFits'
  BY <1>1, <1>2, <1>3 DEF EmployeeType, CharterFits
<1>6. ProcType' /\ JudgesItems' /\ NoneBegins
  BY <1>2, <1>4, ProcsStay
<1>7. SurfaceType' /\ WordType' /\ RowType'
  BY <1>1, <1>2, <1>4 DEF OtherTypes, SurfaceType, WordType, RowType, surfaceVars, wordVars
<1>8. QueueInv'
  BY <1>2, <1>5, <1>6, <1>7 DEF QueueInv, TypeInv, OtherTypes, ClaimsOnWork, OneEvaluation, procVars, wordVars
<1>9. SpentPast'
  <2>1. ASSUME NEW i \in Items, NEW c \in Charters, CharterKey(c) \in row[i].spent
        PROVE  c <= charter'
    <3>1. c <= charter
      BY <2>1 DEF WaitInv, SpentPast
    <3> QED BY <1>1, <1>2, <3>1 DEF Charters
  <2> QED BY <1>2, <2>1 DEF WaitInv, SpentPast, surfaceVars
<1>10. (since <= probed)' /\ ConnectionKept'
  BY <1>2 DEF WaitInv, ConnectionKept, surfaceVars, wordVars
<1>11. CharterNotMissed'
  <2>1. ASSUME NEW i \in Items
        PROVE  CharterKey(charter') \notin row[i].spent
    <3>1. ~(charter' <= charter)
      BY <1>1, <1>2
    <3> QED BY <1>3, <3>1 DEF WaitInv, SpentPast
  <2>2. charter' \in requeues'
    BY <1>2
  <2> QED BY <1>2, <2>1, <2>2 DEF CharterNotMissed
<1> QED BY <1>2, <1>8, <1>9, <1>10, <1>11 DEF WaitInv

\* What a step keeps: the invariants, the cap for a verdict, and that only the
\* start of an evaluation makes a row evaluated.
LEMMA MovesKeep ==
  ASSUME QueueInv, WaitInv, OtherTypes', Moves
  PROVE  /\ QueueInv' /\ WaitInv'
         /\ \A i \in Items : row[i].st = "discovered" /\ row'[i].st = "open" => OpenCount(row') <= cap
         /\ \A i \in Items : Evaluating(row', i) => Evaluating(row, i)
<1>1. PICK r : Steady(r)
  BY DEF Moves
<1>2. Settles(r) /\ RequeuesMet(r)
      /\ \A i \in Items : ClaimSteady(r, i) /\ WaitSteady(r, i) /\ SlotSteady(r, i)
  BY <1>1 DEF Steady, RowSteady
<1>3. TypeInv /\ TypeInv'
  BY <1>2 DEF QueueInv, TypeInv, RowType, Settles, Settled
<1>4. ClaimsOnWork' /\ OneEvaluation'
  BY <1>2, EvaluationsKept DEF Moves
<1>5. WaitInv'
  BY <1>2, <1>3, WaitsKept DEF Moves, Forward
<1>6. \A i \in Items : row'[i] = r[i] \/ ParkedAs(r, row', i)
  BY <1>2 DEF Settles, Settled
<1>7. OpenCount(row') = OpenCount(r)
  BY <1>2, SettledOpen DEF Settles
<1>8. \A i \in Items : row[i].st = "discovered" /\ row'[i].st = "open" => OpenCount(row') <= cap
  BY <1>2, <1>6, <1>7 DEF SlotSteady, ParkedAs
<1>9. \A i \in Items : Evaluating(row', i) => Evaluating(row, i)
  BY <1>2, <1>6, ProcAssumption DEF Evaluating, ClaimSteady, ParkedAs
<1> QED BY <1>3, <1>4, <1>5, <1>8, <1>9 DEF QueueInv

LEMMA StepMoves ==
  ASSUME QueueInv, WaitInv, [Next]_vars
  PROVE  \/ OtherTypes' /\ Moves
         \/ \E p \in Procs, i \in Items : StartEvaluation(p, i)
         \/ ApproveCharter
<1>1. ASSUME NEW p \in Procs, Evaluation(p), ~\E i \in Items : StartEvaluation(p, i)
      PROVE  OtherTypes' /\ Moves
  BY <1>1, ReadCharterMoves, JudgeMoves, SetVerdictMoves, RecordMoves, CrashMoves DEF Evaluation
<1>2. ASSUME Manager, ~ApproveCharter
      PROVE  OtherTypes' /\ Moves
  BY <1>2, CharterMoves, SwitchMoves, SatisfiedMoves, RetryMoves DEF Manager
<1>3. ASSUME Surface
      PROVE  OtherTypes' /\ Moves
  BY <1>3, ConnectedMoves, ProbeFails DEF Surface
<1>4. ASSUME Scheduler
      PROVE  OtherTypes' /\ Moves
  BY <1>4, RefusedMoves, LapseMoves, SweepMoves, ReevaluateMoves DEF Scheduler
<1>5. ASSUME Work
      PROVE  OtherTypes' /\ Moves
  BY <1>5, SeedMoves, RunEndsMoves, ParkMoves, WithdrawMoves, ListedMoves DEF Work
<1>6. ASSUME UNCHANGED vars
      PROVE  OtherTypes' /\ Moves
  BY <1>6, ProcsStay, QuietMoves DEF vars, QueueInv, TypeInv
<1> QED BY <1>1, <1>2, <1>3, <1>4, <1>5, <1>6 DEF Next

LEMMA QueueInit ==
  ASSUME Init
  PROVE  QueueInv /\ WaitInv
<1>1. 0 \in 0..MaxAttempts /\ 0 \in 0..MaxCopies /\ 0 \in Charters /\ 0 \in Probes
  BY AttemptAssumption, BoundAssumption DEF Charters, Probes
<1>2. "absent" \in States /\ "none" \in Reasons
  BY DEF States, Reasons
<1>3. NewRow \in Row /\ NewRow.st = "absent" /\ NewRow.claim = "none" /\ NewRow.spent = {}
  BY <1>1, <1>2 DEF NewRow, Row
<1>4. RowType
  BY <1>1, <1>3 DEF Init, RowType
<1>5. OtherTypes
  BY <1>1 DEF Init, OtherTypes, EmployeeType, SurfaceType, ProcType, WordType, CharterFits, JudgesItems
<1>6. \A i \in Items : row[i] = NewRow
  BY DEF Init
<1>7. ClaimsOnWork
  BY <1>3, <1>6, ProcAssumption DEF ClaimsOnWork
<1>8. OneEvaluation
  BY DEF Init, OneEvaluation
<1>9. SpentPast /\ ConnectionKept /\ CharterNotMissed
  BY <1>3, <1>6 DEF SpentPast, ConnectionKept, CharterNotMissed
<1>10. since <= probed
  BY DEF Init
<1> QED BY <1>4, <1>5, <1>7, <1>8, <1>9, <1>10 DEF QueueInv, TypeInv, WaitInv

LEMMA QueueStep ==
  ASSUME QueueInv, WaitInv, [Next]_vars
  PROVE  QueueInv' /\ WaitInv'
BY StepMoves, MovesKeep, StartKeeps, ApproveKeeps

LEMMA QueueInvariant == Spec => [](QueueInv /\ WaitInv)
<1>1. Init => QueueInv /\ WaitInv
  BY QueueInit
<1>2. QueueInv /\ WaitInv /\ [Next]_vars => (QueueInv /\ WaitInv)'
  BY QueueStep
<1> QED BY <1>1, <1>2, PTL DEF Spec

-----------------------------------------------------------------------------
(* The theorems.                                                           *)

\* Every variable keeps its type, whatever the queue, the manager, the tracker
\* and the surface do.
THEOREM QueueTypes == Spec => []TypeOK
<1>1. QueueInv => TypeOK
  BY DEF QueueInv, TypeInv, OtherTypes, RowType, EmployeeType, SurfaceType, ProcType, WordType, TypeOK
<1> QED BY <1>1, QueueInvariant, PTL

\* A row has one evaluation, and that one holds its claim, however many copies
\* of it are scheduled (claimLoopStepInTransaction).
THEOREM QueueOneEvaluation == Spec => []OneEvaluation
<1>1. QueueInv => OneEvaluation
  BY DEF QueueInv
<1> QED BY <1>1, QueueInvariant, PTL

\* A row deferred on its surface has not missed the connection (applyVerdict,
\* recordConnected).
THEOREM QueueMeetsConnection == Spec => []ConnectionNotMissed
<1>1. WaitInv => ConnectionNotMissed
  BY DEF WaitInv, ConnectionKept, ConnectionNotMissed, Live
<1> QED BY <1>1, QueueInvariant, PTL

\* A row parked for its charter is sent back by the approval (parkForCharter,
\* approve).
THEOREM QueueMeetsCharter == Spec => []CharterNotMissed
<1>1. WaitInv => CharterNotMissed
  BY DEF WaitInv
<1> QED BY <1>1, QueueInvariant, PTL

\* No verdict takes a slot past the cap (applyVerdict).
THEOREM QueueVerdictsKeepCap == Spec => VerdictsKeepCap
<1>1. ASSUME QueueInv, WaitInv, [Next]_vars, NEW i \in Items, row[i].st = "discovered", row'[i].st = "open"
      PROVE  OpenCount(row') <= cap
  <2>1. CASE OtherTypes' /\ Moves
    BY <1>1, <2>1, MovesKeep
  <2>2. CASE \E p \in Procs, j \in Items : StartEvaluation(p, j)
    BY <1>1, <2>2, StartKeeps
  <2>3. CASE ApproveCharter
    BY <1>1, <2>3, ApproveKeeps
  <2> QED BY <1>1, <2>1, <2>2, <2>3, StepMoves
<1>2. QueueInv /\ WaitInv /\ [Next]_vars =>
        [\A i \in Items : row[i].st = "discovered" /\ row'[i].st = "open" => OpenCount(row') <= cap]_vars
  BY <1>1
<1> QED BY <1>2, QueueInvariant, PTL DEF Spec, VerdictsKeepCap

\* No evaluation starts for a slot another may still take: what is open and
\* what is judged fit the cap together (queueState).
THEOREM QueueCallsKeepCap == Spec => CallsKeepCap
<1>1. ASSUME QueueInv, WaitInv, [Next]_vars, NEW i \in Items, Evaluating(row', i), ~Evaluating(row, i)
      PROVE  Cardinality(Open(row') \cup InFlight(row')) <= cap
  <2>1. CASE OtherTypes' /\ Moves
    BY <1>1, <2>1, MovesKeep
  <2>2. CASE \E p \in Procs, j \in Items : StartEvaluation(p, j)
    BY <1>1, <2>2, StartKeeps
  <2>3. CASE ApproveCharter
    BY <1>1, <2>3, ApproveKeeps
  <2> QED BY <1>1, <2>1, <2>2, <2>3, StepMoves
<1>2. QueueInv /\ WaitInv /\ [Next]_vars =>
        [\A i \in Items : Evaluating(row, i)' /\ ~Evaluating(row, i)
           => Cardinality(Open(row') \cup InFlight(row')) <= cap]_vars
  BY <1>1 DEF Evaluating
<1> QED BY <1>2, QueueInvariant, PTL DEF Spec, CallsKeepCap

=============================================================================

-------------------------- MODULE RunEffects_proofs --------------------------
(***************************************************************************)
(* What an item's runs do outside: the messages they put on the provider,  *)
(* and the ticket and the field they claim among their colleagues' rows.   *)
(***************************************************************************)
EXTENDS ClosingPhase, ExternalClaims, TLAPS

-----------------------------------------------------------------------------
(***************************************************************************)
(* No message of an item is put on the provider twice by its runs, but for *)
(* what a closing set carried when it was rejected or stopped.  SaidOnce   *)
(* is not inductive: what keeps a message from being said again is that    *)
(* the row's output names it, whatever shape it is in.  The invariant says *)
(* where each shape keeps it, and that only the author of the turn can     *)
(* touch an output that awaits its closing set.                            *)
(***************************************************************************)

Shapes == {"first", "authoring", "dependent", "flat"}
Outputs ==
  [shape : Shapes, carried : SUBSET Messages, initial : SUBSET Messages, before : SUBSET Messages,
   rows : SUBSET Messages, now : SUBSET Messages, closes : BOOLEAN, whole : BOOLEAN, all : BOOLEAN,
   failed : BOOLEAN, resumed : BOOLEAN, round : BOOLEAN]
Gates == [at : {"none", "auto", "manager", "approved"}, due : SUBSET Messages, asked : SUBSET Messages]

RowTypes ==
  output \in Outputs /\ gate \in Gates /\ turn \in 0..2 /\ sent \in [Messages -> Nat]
RunTypes == runs \in 0..MaxRuns /\ runNow \in 0..runs /\ authoringJobs \subseteq 1..runs
AuthorTypes == author \in [Authors -> [run : 0..runs, turn : 0..2]]
ClosingTypes == RowTypes /\ RunTypes /\ AuthorTypes /\ preparing \in BOOLEAN

\* Where an output of each shape keeps what was said.
ShapeKeeps(o) ==
  /\ o.shape # "dependent" => o.initial = {}
  /\ o.shape = "first" => o.before = {}
  /\ o.shape = "authoring" => o.now = {}

\* Rows wait on a first phase or a closing set, none of them is done, and a
\* closing set that waits carries in its initial alone.
GateWaits ==
  gate.at # "none" =>
    /\ output.shape \in {"first", "dependent"}
    /\ output.shape = "dependent" => output.carried = {}
    /\ (gate.due \cup gate.asked) \cap output.now = {} /\ gate.due \cap gate.asked = {}

\* The author of a turn of the run finds the output as it took it, and no
\* other author is of its run.
AuthorsApart ==
  \A a, b \in Authors : author[a].run # 0 /\ author[a].run = author[b].run => a = b
AuthorHolds ==
  \A a \in Authors : /\ author[a].run = 0 => author[a] = NoTurn
                     /\ author[a].run # 0 /\ author[a].run = runNow =>
                          output.shape = "authoring" /\ turn # 0 /\ gate.at = "none"
\* An executor, and rows that wait, are of a run that has no turn under way,
\* and no author of an executor's run is queued.
OneAtATime ==
  /\ preparing \/ gate.at # "none" => runNow # 0
  /\ preparing => turn = 0 /\ gate.at = "none" /\ runNow \notin authoringJobs
  /\ gate.at # "none" => turn = 0

\* An item that no run is at work on holds nothing of one.
BareWhenIdle ==
  stage \notin {"executing", "actions-pending"} =>
    runNow = 0 /\ turn = 0 /\ gate.at = "none" /\ ~preparing

\* What was said, once, is named by the output, at its top, or in the initial of a
\* closing set that waits.
SaidKept ==
  \A m \in Messages \ forgotten :
    sent[m] # 0 => \/ m \in LandedWritesOf(output)
                   \/ gate.at # "none" /\ m \in output.initial

ClosingInv ==
  /\ ShapeKeeps(output) /\ GateWaits /\ AuthorsApart /\ AuthorHolds /\ OneAtATime
  /\ BareWhenIdle /\ SaidKept /\ SaidOnce

USE RunsAssumption

-----------------------------------------------------------------------------
(* The outputs the code builds, by the fields that tell where they keep    *)
(* what was said.                                                          *)

Fields(o, shape, carried, initial, before, now) ==
  /\ o \in Outputs /\ o.shape = shape /\ o.carried = carried /\ o.initial = initial
  /\ o.before = before /\ o.now = now

LEMMA OutputParts ==
  ASSUME NEW o \in Outputs
  PROVE  /\ o.shape \in Shapes /\ o.rows \subseteq Messages
         /\ o.carried \subseteq Messages /\ o.initial \subseteq Messages
         /\ o.before \subseteq Messages /\ o.now \subseteq Messages
         /\ o.closes \in BOOLEAN /\ o.whole \in BOOLEAN /\ o.all \in BOOLEAN
         /\ o.failed \in BOOLEAN /\ o.resumed \in BOOLEAN /\ o.round \in BOOLEAN
         /\ LandedWritesOf(o) \subseteq Messages
BY DEF Outputs, LandedWritesOf

LEMMA NewOutputFields == Fields(NewOutput, "first", {}, {}, {}, {})
BY DEF Fields, NewOutput, Outputs, Shapes

LEMMA FreshFields ==
  ASSUME NEW C \in SUBSET Messages, NEW S \in SUBSET Messages, NEW closes \in BOOLEAN
  PROVE  /\ Fields([[NewOutput EXCEPT !.carried = C] EXCEPT !.rows = S, !.closes = closes],
                   "first", C, {}, {}, {})
         /\ Fields([[NewOutput EXCEPT !.carried = C] EXCEPT !.shape = "authoring", !.closes = TRUE],
                   "authoring", C, {}, {}, {})
BY DEF Fields, NewOutput, Outputs, Shapes

LEMMA CarryFields ==
  ASSUME NEW o \in Outputs, NEW C \in SUBSET Messages
  PROVE  Fields([o EXCEPT !.carried = C], o.shape, C, o.initial, o.before, o.now)
BY DEF Fields, Outputs

LEMMA NowFields ==
  ASSUME NEW o \in Outputs, NEW N \in SUBSET Messages
  PROVE  Fields([o EXCEPT !.now = N], o.shape, o.carried, o.initial, o.before, N)
BY DEF Fields, Outputs

LEMMA ResumeFields ==
  ASSUME NEW o \in Outputs
  PROVE  Fields(ClosingResume(o), "authoring", o.carried, {}, o.before \cup o.now, {})
BY DEF Fields, ClosingResume, NewOutput, Outputs, Shapes

LEMMA FlattenedFields ==
  ASSUME NEW o \in Outputs
  PROVE  Fields(Flattened(o), "flat", o.initial, {}, o.before, o.now)
BY DEF Fields, Flattened, Outputs, Shapes

LEMMA DependentFields ==
  ASSUME NEW o \in Outputs, NEW S \in SUBSET Messages
  PROVE  Fields(DependentOutput(o, S), "dependent", {}, o.carried, o.before, {})
BY DEF Fields, DependentOutput, Outputs, Shapes

LEMMA RoundFields ==
  ASSUME NEW o \in Outputs
  PROVE  Fields(RoundPrerequisites(o), "authoring", o.initial, {}, o.before \cup o.now, {})
<1>1. /\ o.rows \subseteq Messages /\ o.before \cup o.now \subseteq Messages
      /\ (o.all /\ o.rows \subseteq o.now) \in BOOLEAN
  BY OutputParts
<1> QED BY <1>1 DEF Fields, RoundPrerequisites, Outputs, Shapes

\* The phase that a first apply leaves for its author.
LEMMA PhaseFields ==
  ASSUME NEW o \in Outputs, NEW whole \in BOOLEAN, NEW failed \in BOOLEAN
  PROVE  Fields([o EXCEPT !.shape = "authoring", !.before = o.now, !.rows = {}, !.now = {},
                          !.whole = whole, !.all = whole, !.failed = failed],
                "authoring", o.carried, o.initial, o.now, {})
BY DEF Fields, Outputs, Shapes

-----------------------------------------------------------------------------
(* Where a step leaves the item: ended, before its author, or waiting.      *)

\* What a step may leave of the authors: a turn ends.
FewerAuthors ==
  /\ author' \in [Authors -> [run : 0..runs, turn : 0..2]]
  /\ \A a \in Authors : author'[a] = author[a] \/ author'[a] = NoTurn

\* A step leaves what was said named by o alone.
NamedBy(o) ==
  /\ sent' \in [Messages -> Nat]
  /\ \A m \in Messages \ forgotten' : sent'[m] <= 1 /\ (sent'[m] # 0 => m \in LandedWritesOf(o))

LEMMA NamedNow ==
  ASSUME ClosingTypes, SaidKept, SaidOnce, NEW o, UNCHANGED sent, forgotten \subseteq forgotten',
         \A m \in Messages \ forgotten' :
           m \in LandedWritesOf(output) \/ (gate.at # "none" /\ m \in output.initial) =>
             m \in LandedWritesOf(o)
  PROVE  NamedBy(o)
BY DEF ClosingTypes, RowTypes, SaidKept, SaidOnce, NamedBy

LEMMA NoGateIsGate == NoGate \in Gates /\ NoGate.at = "none"
BY DEF NoGate, Gates

LEMMA EndedKeeps ==
  ASSUME ClosingTypes, ClosingInv, NEW end, NEW o \in Outputs, ShapeKeeps(o), RunEndsIn(end, o),
         UNCHANGED runs, FewerAuthors, NamedBy(o), authoringJobs' \subseteq authoringJobs
  PROVE  ClosingTypes' /\ ClosingInv'
<1>1. output' = o /\ runNow' = 0 /\ turn' = 0 /\ gate' = NoGate /\ preparing' = FALSE /\ runs' = runs
  BY DEF RunEndsIn
<1>2. ClosingTypes'
  <2>1. RowTypes'
    BY <1>1, NoGateIsGate DEF RowTypes, NamedBy
  <2>2. RunTypes' /\ AuthorTypes'
    BY <1>1 DEF ClosingTypes, RunTypes, AuthorTypes, FewerAuthors
  <2> QED BY <1>1, <2>1, <2>2 DEF ClosingTypes
<1>3. gate'.at = "none"
  BY <1>1, NoGateIsGate
<1>4. AuthorsApart' /\ AuthorHolds'
  BY <1>1 DEF FewerAuthors, ClosingInv, AuthorsApart, AuthorHolds, NoTurn
<1>5. ShapeKeeps(output') /\ GateWaits' /\ OneAtATime' /\ BareWhenIdle'
  BY <1>1, <1>3 DEF GateWaits, OneAtATime, BareWhenIdle
<1>6. SaidKept' /\ SaidOnce'
  BY <1>1 DEF NamedBy, SaidKept, SaidOnce, LandedWritesOf
<1> QED BY <1>2, <1>4, <1>5, <1>6 DEF ClosingInv, ShapeKeeps

\* No author is of the run.
LEMMA NobodysRun ==
  ASSUME ClosingInv, preparing \/ gate.at # "none"
  PROVE  \A a \in Authors : author[a].run # 0 => author[a].run # runNow
BY DEF ClosingInv, OneAtATime, AuthorHolds

LEMMA PreparedKeeps ==
  ASSUME ClosingTypes, ClosingInv, NEW o \in Outputs, ShapeKeeps(o), o.shape = "authoring",
         PrepareDependentPhase(o), runNow # 0, preparing \/ gate.at # "none", UNCHANGED <<runs, author>>,
         NamedBy(o)
  PROVE  ClosingTypes' /\ ClosingInv'
<1>1. /\ output' = o /\ runNow' = runNow /\ turn' = 0 /\ gate' = NoGate /\ preparing' = FALSE /\ runs' = runs
      /\ author' = author /\ authoringJobs' = authoringJobs \cup {runNow}
  BY DEF PrepareDependentPhase
<1>2. runNow \in 1..runs
  BY DEF ClosingTypes, RunTypes
<1>3. ClosingTypes'
  <2>1. RowTypes'
    BY <1>1, NoGateIsGate DEF RowTypes, NamedBy
  <2>2. RunTypes' /\ AuthorTypes'
    BY <1>1, <1>2 DEF ClosingTypes, RunTypes, AuthorTypes
  <2> QED BY <1>1, <2>1, <2>2 DEF ClosingTypes
<1>4. gate'.at = "none"
  BY <1>1, NoGateIsGate
<1>5. AuthorsApart' /\ AuthorHolds'
  BY <1>1, NobodysRun DEF ClosingInv, AuthorsApart, AuthorHolds
<1>6. GateWaits' /\ OneAtATime' /\ BareWhenIdle'
  BY <1>1, <1>4 DEF GateWaits, OneAtATime, BareWhenIdle, PrepareDependentPhase
<1>7. SaidKept' /\ SaidOnce'
  BY <1>1 DEF NamedBy, SaidKept, SaidOnce, LandedWritesOf
<1> QED BY <1>1, <1>3, <1>5, <1>6, <1>7 DEF ClosingInv, ShapeKeeps

\* A set that waits: nothing of it is done, and what was said is named by the
\* output or by its initial.
LEMMA PendingKeeps ==
  ASSUME ClosingTypes, ClosingInv, NEW o \in Outputs, ShapeKeeps(o), o.shape \in {"first", "dependent"},
         o.shape = "dependent" => o.carried = {}, o.now = {},
         NEW S \in SUBSET Messages, SetActionsPending(o, S), runNow # 0,
         UNCHANGED <<runs, sent, forgotten, authoringJobs>>, FewerAuthors,
         \A a \in Authors : author'[a].run # 0 => author'[a].run # runNow,
         \A m \in Messages \ forgotten :
           sent[m] # 0 => m \in LandedWritesOf(o) \/ m \in o.initial
  PROVE  ClosingTypes' /\ ClosingInv'
<1>1. output' = o /\ runNow' = runNow /\ turn' = 0 /\ preparing' = FALSE
  BY DEF SetActionsPending
<1>2. /\ gate' \in Gates /\ gate'.at # "none"
      /\ gate'.due \cap gate'.asked = {}
  <2>1. CASE gate' = [at |-> "manager", due |-> {}, asked |-> S]
    BY <2>1 DEF Gates
  <2>2. ASSUME NEW due \in SUBSET S, gate' = [at |-> "auto", due |-> due, asked |-> S \ due]
        PROVE  gate' \in Gates /\ gate'.at # "none" /\ gate'.due \cap gate'.asked = {}
    BY <2>2 DEF Gates
  <2> QED BY <2>1, <2>2 DEF SetActionsPending
<1>3. ClosingTypes'
  <2>1. RowTypes'
    BY <1>1, <1>2 DEF ClosingTypes, RowTypes
  <2>2. RunTypes' /\ AuthorTypes'
    BY <1>1 DEF ClosingTypes, RunTypes, AuthorTypes, FewerAuthors
  <2> QED BY <1>1, <2>1, <2>2 DEF ClosingTypes
<1>4. AuthorsApart' /\ AuthorHolds'
  BY <1>1 DEF FewerAuthors, ClosingInv, AuthorsApart, AuthorHolds, NoTurn
<1>5. GateWaits' /\ OneAtATime'
  BY <1>1, <1>2 DEF GateWaits, OneAtATime
<1>7. BareWhenIdle'
  BY DEF SetActionsPending, ClosingInv, BareWhenIdle
<1>6. SaidKept' /\ SaidOnce'
  BY <1>1, <1>2 DEF ClosingInv, SaidKept, SaidOnce, LandedWritesOf
<1> QED BY <1>1, <1>3, <1>4, <1>5, <1>6, <1>7 DEF ClosingInv, ShapeKeeps

-----------------------------------------------------------------------------
(* The executor.                                                           *)

\* A step that leaves the item alone.
LEMMA KeptClosing ==
  ASSUME ClosingTypes, ClosingInv, FewerAuthors, authoringJobs' \subseteq authoringJobs,
         UNCHANGED <<stage, runNow, output, turn, gate, preparing, sent, runs, forgotten>>
  PROVE  ClosingTypes' /\ ClosingInv'
<1>1. ClosingTypes'
  <2>1. RowTypes' /\ RunTypes' /\ AuthorTypes'
    BY DEF ClosingTypes, RowTypes, RunTypes, AuthorTypes, FewerAuthors
  <2> QED BY <2>1 DEF ClosingTypes
<1>2. AuthorsApart' /\ AuthorHolds'
  BY DEF ClosingInv, AuthorsApart, AuthorHolds, FewerAuthors, NoTurn
<1>3. GateWaits' /\ OneAtATime' /\ BareWhenIdle'
  BY DEF ClosingInv, GateWaits, OneAtATime, BareWhenIdle
<1>4. SaidKept' /\ SaidOnce' /\ ShapeKeeps(output')
  BY DEF ClosingInv, SaidKept, SaidOnce
<1> QED BY <1>1, <1>2, <1>3, <1>4 DEF ClosingInv, ShapeKeeps

LEMMA SameAuthors ==
  ASSUME ClosingTypes, author' = author
  PROVE  FewerAuthors
BY DEF ClosingTypes, AuthorTypes, FewerAuthors

LEMMA ClaimKeeps ==
  ASSUME ClosingTypes, ClosingInv, ClaimForExecution
  PROVE  ClosingTypes' /\ ClosingInv'
<1>1. /\ runs' = runs + 1 /\ runNow' = runs + 1 /\ stage' = "executing" /\ preparing' = TRUE /\ runs < MaxRuns
      /\ UNCHANGED <<output, turn, gate, authoringJobs, author, sent, forgotten>>
      /\ stage = "plan-approved"
  BY DEF ClaimForExecution
<1>2. turn = 0 /\ gate.at = "none"
  BY <1>1 DEF ClosingInv, BareWhenIdle
<1>3. ClosingTypes'
  <2>1. RowTypes' /\ RunTypes'
    BY <1>1 DEF ClosingTypes, RowTypes, RunTypes
  <2>2. AuthorTypes'
    <3>1. 0..runs \subseteq 0..runs'
      BY <1>1 DEF ClosingTypes, RunTypes
    <3> QED BY <1>1, <3>1 DEF ClosingTypes, AuthorTypes
  <2> QED BY <1>1, <2>1, <2>2 DEF ClosingTypes
<1>4. AuthorsApart' /\ AuthorHolds'
  <2>1. \A a \in Authors : author[a].run # runNow'
    BY <1>1 DEF ClosingTypes, RunTypes, AuthorTypes
  <2> QED BY <1>1, <2>1 DEF ClosingInv, AuthorsApart, AuthorHolds
<1>5. GateWaits' /\ OneAtATime' /\ BareWhenIdle'
  <2>1. runNow' # 0 /\ runNow' \notin authoringJobs
    BY <1>1 DEF ClosingTypes, RunTypes
  <2> QED BY <1>1, <1>2, <2>1 DEF GateWaits, OneAtATime, BareWhenIdle
<1>6. SaidKept' /\ SaidOnce' /\ ShapeKeeps(output')
  BY <1>1 DEF ClosingInv, SaidKept, SaidOnce
<1> QED BY <1>1, <1>3, <1>4, <1>5, <1>6 DEF ClosingInv, ShapeKeeps

LEMMA HoldKeeps ==
  ASSUME ClosingTypes, ClosingInv, HoldDay0Actions
  PROVE  ClosingTypes' /\ ClosingInv'
<1> DEFINE C == LandedWritesOf(output)
           fresh == [NewOutput EXCEPT !.carried = C]
<1>1. /\ preparing /\ UNCHANGED <<author, sent, runs, forgotten>>
      /\ output \in Outputs /\ runNow # 0 /\ gate.at = "none" /\ turn = 0
  BY DEF HoldDay0Actions, ClosingTypes, RowTypes, ClosingInv, OneAtATime
<1>2. C \in SUBSET Messages /\ FewerAuthors
  BY <1>1, OutputParts, SameAuthors
<1>3. \A m \in Messages \ forgotten : sent[m] # 0 => m \in C
  BY <1>1 DEF ClosingInv, SaidKept
<1>4. \A a \in Authors : author'[a].run # 0 => author'[a].run # runNow
  BY <1>1, NobodysRun
<1>5. ASSUME NEW S \in SUBSET Messages, NEW closes \in BOOLEAN,
             SetActionsPending([fresh EXCEPT !.rows = S, !.closes = closes], S), UNCHANGED authoringJobs
      PROVE  ClosingTypes' /\ ClosingInv'
  <2> DEFINE o == [fresh EXCEPT !.rows = S, !.closes = closes]
  <2>1. Fields(o, "first", C, {}, {}, {})
    BY <1>2, FreshFields
  <2> HIDE DEF o, C
  <2>2. o \in Outputs /\ ShapeKeeps(o) /\ o.shape = "first" /\ o.now = {}
    BY <2>1 DEF Fields, ShapeKeeps
  <2>3. \A m \in Messages \ forgotten : sent[m] # 0 => m \in LandedWritesOf(o)
    BY <1>3, <2>1 DEF Fields, LandedWritesOf
  <2> QED BY <1>1, <1>2, <1>4, <1>5, <2>2, <2>3, PendingKeeps DEF o
<1>6. ASSUME PrepareDependentPhase([fresh EXCEPT !.shape = "authoring", !.closes = TRUE])
      PROVE  ClosingTypes' /\ ClosingInv'
  <2> DEFINE o == [fresh EXCEPT !.shape = "authoring", !.closes = TRUE]
  <2>1. Fields(o, "authoring", C, {}, {}, {})
    BY <1>2, FreshFields
  <2> HIDE DEF o, C
  <2>2. o \in Outputs /\ ShapeKeeps(o) /\ o.shape = "authoring"
    BY <2>1 DEF Fields, ShapeKeeps
  <2>3. NamedBy(o)
    BY <1>1, <1>3, <2>1 DEF Fields, LandedWritesOf, NamedBy, ClosingTypes, RowTypes, ClosingInv, SaidOnce
  <2> QED BY <1>1, <1>6, <2>2, <2>3, PreparedKeeps DEF o
<1> QED BY <1>5, <1>6 DEF HoldDay0Actions

LEMMA ResumeKeeps ==
  ASSUME ClosingTypes, ClosingInv, ResumeClosing
  PROVE  ClosingTypes' /\ ClosingInv'
<1> DEFINE o == [output EXCEPT !.carried = LandedWritesOf(output)]
<1>1. /\ preparing /\ UNCHANGED <<author, sent, runs, forgotten>> /\ output.shape = "authoring"
      /\ output \in Outputs /\ runNow # 0 /\ gate.at = "none"
  BY DEF ResumeClosing, ResumesClosing, ClosingTypes, RowTypes, ClosingInv, OneAtATime
<1>2. LandedWritesOf(output) \in SUBSET Messages /\ FewerAuthors
  BY <1>1, OutputParts, SameAuthors
<1>3. Fields(o, "authoring", LandedWritesOf(output), output.initial, output.before, output.now)
  BY <1>1, <1>2, CarryFields
<1>4. CASE PrepareDependentPhase(o)
  <2> HIDE DEF o
  <2>1. o \in Outputs /\ ShapeKeeps(o) /\ o.shape = "authoring"
    BY <1>1, <1>3 DEF Fields, ShapeKeeps, ClosingInv
  <2>2. LandedWritesOf(output) \subseteq LandedWritesOf(o)
    BY <1>3 DEF Fields, LandedWritesOf
  <2>3. NamedBy(o)
    BY <1>1, <2>2, NamedNow DEF ClosingInv
  <2> QED BY <1>1, <1>4, <2>1, <2>3, PreparedKeeps
<1>5. CASE Fail(output) /\ UNCHANGED authoringJobs
  <2>1. NamedBy(output)
    BY <1>1, NamedNow DEF ClosingInv
  <2> QED BY <1>1, <1>2, <1>5, <2>1, EndedKeeps DEF Fail, ClosingInv
<1> QED BY <1>4, <1>5 DEF ResumeClosing

-----------------------------------------------------------------------------
(* The apply and the end of its run.                                       *)

\* What an apply did: it sent what nobody had sent, and records it.
Applied(o) ==
  \E went \in SUBSET (gate.due \ ReusedRows(output)) :
    /\ o = [output EXCEPT !.now = @ \cup went \cup (gate.due \cap ReusedRows(output))]
    /\ sent' = [m \in Messages |-> IF m \in went THEN sent[m] + 1 ELSE sent[m]]

LEMMA AppliedSays ==
  ASSUME ClosingTypes, ClosingInv, NEW o, gate.at # "none", Applied(o), UNCHANGED forgotten
  PROVE  /\ \E N \in SUBSET Messages :
              /\ Fields(o, output.shape, output.carried, output.initial, output.before, N)
              /\ output.now \subseteq N /\ N \subseteq output.now \cup gate.due
         /\ sent' \in [Messages -> Nat]
         /\ \A m \in Messages \ forgotten :
              sent'[m] <= 1 /\ (sent'[m] # 0 => m \in LandedWritesOf(o) \cup o.initial)
<1>1. PICK went \in SUBSET (gate.due \ ReusedRows(output)) :
        /\ o = [output EXCEPT !.now = @ \cup went \cup (gate.due \cap ReusedRows(output))]
        /\ sent' = [m \in Messages |-> IF m \in went THEN sent[m] + 1 ELSE sent[m]]
  BY DEF Applied
<1>2. output \in Outputs /\ gate.due \subseteq Messages /\ sent \in [Messages -> Nat]
  BY DEF ClosingTypes, RowTypes, Gates
<1> DEFINE N == output.now \cup went \cup (gate.due \cap ReusedRows(output))
<1>3. N \in SUBSET Messages
  BY <1>1, <1>2, OutputParts
<1>4. o = [output EXCEPT !.now = N]
  BY <1>1
<1>5. Fields(o, output.shape, output.carried, output.initial, output.before, N)
  BY <1>2, <1>3, <1>4, NowFields
<1>6. sent' \in [Messages -> Nat]
  BY <1>1, <1>2
<1>7. ASSUME NEW m \in Messages \ forgotten
      PROVE  sent'[m] <= 1 /\ (sent'[m] # 0 => m \in LandedWritesOf(o) \cup o.initial)
  <2>1. CASE m \in went
    <3>1. m \notin LandedWritesOf(output) /\ m \notin output.initial
      BY <2>1 DEF ClosingInv, GateWaits, ReusedRows, LandedWritesOf
    <3>2. sent[m] = 0
      BY <3>1 DEF ClosingInv, SaidKept
    <3> QED BY <1>1, <1>5, <2>1, <3>2 DEF Fields, LandedWritesOf
  <2>2. CASE m \notin went
    <3>1. sent'[m] = sent[m]
      BY <1>1, <2>2
    <3> QED BY <1>5, <3>1 DEF Fields, LandedWritesOf, ClosingInv, SaidKept, SaidOnce
  <2> QED BY <2>1, <2>2
<1>8. output.now \subseteq N /\ N \subseteq output.now \cup gate.due
  BY <1>1
<1> QED BY <1>3, <1>5, <1>6, <1>7, <1>8

\* The rest of the set waits on the manager.
LEMMA ParkKeeps ==
  ASSUME ClosingTypes, ClosingInv, NEW o, gate.at # "none", Applied(o), ParkForManager(o),
         UNCHANGED <<author, runs, forgotten>>
  PROVE  ClosingTypes' /\ ClosingInv'
<1>1. PICK N \in SUBSET Messages :
        /\ Fields(o, output.shape, output.carried, output.initial, output.before, N)
        /\ output.now \subseteq N /\ N \subseteq output.now \cup gate.due
  BY AppliedSays
<1>2. /\ stage' = "actions-pending" /\ output' = o
      /\ gate' = [at |-> "manager", due |-> {}, asked |-> gate.asked]
      /\ UNCHANGED <<runNow, turn, preparing, authoringJobs>>
  BY DEF ParkForManager
<1>3. gate' \in Gates /\ gate'.at # "none" /\ gate'.due = {} /\ gate'.asked = gate.asked
  BY <1>2 DEF ClosingTypes, RowTypes, Gates
<1>4. ClosingTypes'
  <2>1. RowTypes'
    BY <1>1, <1>2, <1>3, AppliedSays DEF Fields, ClosingTypes, RowTypes
  <2>2. RunTypes' /\ AuthorTypes'
    BY <1>2 DEF ClosingTypes, RunTypes, AuthorTypes
  <2> QED BY <1>2, <2>1, <2>2 DEF ClosingTypes
<1>5. AuthorsApart' /\ AuthorHolds'
  BY <1>2, NobodysRun DEF ClosingInv, AuthorsApart, AuthorHolds
<1>6. GateWaits' /\ OneAtATime' /\ BareWhenIdle'
  <2>1. (gate'.due \cup gate'.asked) \cap output'.now = {}
    BY <1>1, <1>2, <1>3 DEF ClosingInv, GateWaits, Fields
  <2>2. /\ output'.shape = output.shape /\ output'.carried = output.carried
    BY <1>1, <1>2 DEF Fields
  <2> QED BY <1>2, <1>3, <2>1, <2>2 DEF ClosingInv, GateWaits, OneAtATime, BareWhenIdle
<1>7. SaidKept' /\ SaidOnce'
  BY <1>2, <1>3, AppliedSays DEF SaidKept, SaidOnce, LandedWritesOf
<1>8. ShapeKeeps(output')
  BY <1>1, <1>2 DEF Fields, ShapeKeeps, ClosingInv, GateWaits
<1> QED BY <1>4, <1>5, <1>6, <1>7, <1>8 DEF ClosingInv, ShapeKeeps

LEMMA FirstKeeps ==
  ASSUME ClosingTypes, ClosingInv, NEW o, gate.at # "none", output.shape # "dependent", Applied(o),
         NEW clean \in BOOLEAN, FinishFirst(o, clean), UNCHANGED <<author, runs, forgotten>>
  PROVE  ClosingTypes' /\ ClosingInv'
<1>1. PICK N \in SUBSET Messages :
        Fields(o, output.shape, output.carried, output.initial, output.before, N)
  BY AppliedSays
<1>2. /\ o \in Outputs /\ o.shape = "first" /\ o.initial = {} /\ o.before = {} /\ runNow # 0
      /\ LandedWritesOf(o) = o.carried \cup o.now
  BY <1>1 DEF Fields, ClosingInv, GateWaits, ShapeKeeps, OneAtATime, LandedWritesOf
<1>3. NamedBy(o)
  BY <1>2, AppliedSays DEF NamedBy
<1>4. CASE ParkForManager(o)
  BY <1>4, ParkKeeps
<1>5. ASSUME NEW end, RunEndsIn(end, o), UNCHANGED authoringJobs
      PROVE  ClosingTypes' /\ ClosingInv'
  BY <1>2, <1>3, <1>5, SameAuthors, EndedKeeps DEF ShapeKeeps
<1> DEFINE whole == clean /\ o.rows \subseteq o.now
           phase == [o EXCEPT !.shape = "authoring", !.before = o.now, !.rows = {}, !.now = {},
                              !.whole = whole, !.all = whole, !.failed = ~clean]
<1>6. CASE PrepareDependentPhase(phase)
  <2>1. whole \in BOOLEAN /\ (~clean) \in BOOLEAN
    <3>1. whole = TRUE \/ whole = FALSE
      OBVIOUS
    <3>2. (~clean) = TRUE \/ (~clean) = FALSE
      OBVIOUS
    <3> HIDE DEF whole
    <3> QED BY <3>1, <3>2
  <2>2. Fields(phase, "authoring", o.carried, o.initial, o.now, {})
    BY <1>2, <2>1, PhaseFields
  <2> HIDE DEF phase
  <2>3. phase \in Outputs /\ ShapeKeeps(phase) /\ phase.shape = "authoring" /\ LandedWritesOf(phase) = LandedWritesOf(o)
    BY <1>2, <2>2 DEF Fields, ShapeKeeps, LandedWritesOf
  <2>4. NamedBy(phase)
    BY <1>3, <2>3 DEF NamedBy
  <2> QED BY <1>2, <1>6, <2>3, <2>4, PreparedKeeps
<1> QED BY <1>4, <1>5, <1>6 DEF FinishFirst, Fail

LEMMA ClosedKeeps ==
  ASSUME ClosingTypes, ClosingInv, NEW o, gate.at # "none", output.shape = "dependent", Applied(o),
         NEW clean \in BOOLEAN, FinishClosing(o, clean), UNCHANGED <<author, runs, forgotten>>
  PROVE  ClosingTypes' /\ ClosingInv'
<1>1. PICK N \in SUBSET Messages :
        Fields(o, output.shape, output.carried, output.initial, output.before, N)
  BY AppliedSays
<1>2. /\ o \in Outputs /\ o.carried = {} /\ runNow # 0
      /\ LandedWritesOf(o) \cup o.initial = o.initial \cup o.before \cup o.now
  BY <1>1 DEF Fields, ClosingInv, GateWaits, OneAtATime, LandedWritesOf
<1>3. CASE ParkForManager(o)
  BY <1>3, ParkKeeps
<1>4. ASSUME NEW end, RunEndsIn(end, Flattened(o)), UNCHANGED authoringJobs
      PROVE  ClosingTypes' /\ ClosingInv'
  <2>1. Fields(Flattened(o), "flat", o.initial, {}, o.before, o.now)
    BY <1>2, FlattenedFields
  <2>2. /\ Flattened(o) \in Outputs /\ ShapeKeeps(Flattened(o))
        /\ LandedWritesOf(Flattened(o)) = LandedWritesOf(o) \cup o.initial
    BY <1>2, <2>1 DEF Fields, ShapeKeeps, LandedWritesOf
  <2>3. NamedBy(Flattened(o))
    BY <2>2, AppliedSays DEF NamedBy
  <2> QED BY <1>4, <2>2, <2>3, SameAuthors, EndedKeeps
<1>5. CASE PrepareDependentPhase(RoundPrerequisites(o))
  <2>1. Fields(RoundPrerequisites(o), "authoring", o.initial, {}, o.before \cup o.now, {})
    BY <1>2, RoundFields
  <2>2. /\ RoundPrerequisites(o) \in Outputs /\ ShapeKeeps(RoundPrerequisites(o))
        /\ RoundPrerequisites(o).shape = "authoring"
        /\ LandedWritesOf(RoundPrerequisites(o)) = LandedWritesOf(o) \cup o.initial
    BY <1>2, <2>1 DEF Fields, ShapeKeeps, LandedWritesOf
  <2>3. NamedBy(RoundPrerequisites(o))
    BY <2>2, AppliedSays DEF NamedBy
  <2> QED BY <1>2, <1>5, <2>2, <2>3, PreparedKeeps
<1> QED BY <1>3, <1>4, <1>5 DEF FinishClosing, Fail

LEMMA ApplyKeeps ==
  ASSUME ClosingTypes, ClosingInv, ApplyHeld
  PROVE  ClosingTypes' /\ ClosingInv'
<1>1. gate.at # "none" /\ UNCHANGED <<author, runs, forgotten>>
  BY DEF ApplyHeld
<1>2. PICK went \in SUBSET (gate.due \ ReusedRows(output)), clean \in BOOLEAN :
        LET o == [output EXCEPT !.now = @ \cup went \cup (gate.due \cap ReusedRows(output))]
        IN /\ sent' = [m \in Messages |-> IF m \in went THEN sent[m] + 1 ELSE sent[m]]
           /\ IF output.shape = "dependent" THEN FinishClosing(o, clean) ELSE FinishFirst(o, clean)
  BY DEF ApplyHeld
<1> DEFINE o == [output EXCEPT !.now = @ \cup went \cup (gate.due \cap ReusedRows(output))]
<1>3. Applied(o)
  BY <1>2 DEF Applied
<1>4. IF output.shape = "dependent" THEN FinishClosing(o, clean) ELSE FinishFirst(o, clean)
  BY <1>2
<1> HIDE DEF o
<1> QED BY <1>1, <1>3, <1>4, FirstKeeps, ClosedKeeps

-----------------------------------------------------------------------------
(* The authoring turn.                                                     *)

LEMMA TurnsKeep ==
  ASSUME ClosingTypes, ClosingInv, NEW a \in Authors, NEW r \in authoringJobs, ClaimDependentAuthoring(a, r)
  PROVE  ClosingTypes' /\ ClosingInv'
<1>1. /\ runNow = r /\ stage = "executing" /\ output.shape = "authoring" /\ turn = 0 /\ author[a] = NoTurn
      /\ authoringJobs' = authoringJobs \ {r} /\ turn' = TurnOf(output)
      /\ author' = [author EXCEPT ![a] = [run |-> r, turn |-> TurnOf(output)]]
      /\ UNCHANGED <<stage, runNow, output, gate, preparing, sent, runs, forgotten>>
  BY DEF ClaimDependentAuthoring, Awaiting
<1>2. TurnOf(output) \in {1, 2}
  BY DEF TurnOf
<1>3. gate.at = "none" /\ ~preparing
  BY <1>1 DEF ClosingInv, GateWaits, OneAtATime
<1>4. r \in 1..runs /\ \A b \in Authors : author[b].run # runNow
  BY <1>1 DEF ClosingTypes, RunTypes, ClosingInv, AuthorHolds
<1> DEFINE mine == [run |-> r, turn |-> TurnOf(output)]
<1>5. mine \in [run : 0..runs, turn : 0..2] /\ mine.run = r /\ r # 0
  <2>1. runs \in Nat
    BY DEF ClosingTypes, RunTypes
  <2>2. r \in 0..runs /\ r # 0
    BY <1>4, <2>1
  <2>3. TurnOf(output) \in 0..2
    BY <1>2
  <2> QED BY <2>2, <2>3
<1>6. ClosingTypes'
  <2>1. RowTypes'
    <3>1. turn' \in 0..2
      BY <1>1, <1>2
    <3> QED BY <1>1, <3>1 DEF ClosingTypes, RowTypes
  <2>2. RunTypes'
    BY <1>1 DEF ClosingTypes, RunTypes
  <2>3. AuthorTypes'
    BY <1>1, <1>5 DEF ClosingTypes, AuthorTypes
  <2> QED BY <1>1, <2>1, <2>2, <2>3 DEF ClosingTypes
<1>7. author'[a] = mine /\ \A b \in Authors \ {a} : author'[b] = author[b]
  BY <1>1 DEF ClosingTypes, AuthorTypes
<1> HIDE DEF mine
<1>8. AuthorsApart'
  BY <1>1, <1>4, <1>5, <1>7 DEF ClosingInv, AuthorsApart
<1>9. AuthorHolds'
  BY <1>1, <1>2, <1>3, <1>4, <1>5, <1>7 DEF ClosingInv, AuthorHolds
<1>10. GateWaits' /\ OneAtATime' /\ BareWhenIdle'
  BY <1>1, <1>3 DEF ClosingInv, GateWaits, OneAtATime, BareWhenIdle
<1>11. SaidKept' /\ SaidOnce' /\ ShapeKeeps(output')
  BY <1>1 DEF ClosingInv, SaidKept, SaidOnce
<1> QED BY <1>1, <1>6, <1>8, <1>9, <1>10, <1>11 DEF ClosingInv, ShapeKeeps

LEMMA AuthorKeeps ==
  ASSUME ClosingTypes, ClosingInv, NEW a \in Authors, AuthorEnds(a)
  PROVE  ClosingTypes' /\ ClosingInv'
<1>1. /\ author[a] # NoTurn /\ author' = [author EXCEPT ![a] = NoTurn]
      /\ UNCHANGED <<sent, runs, forgotten>>
  BY DEF AuthorEnds
<1>2. NoTurn \in [run : 0..runs, turn : 0..2] /\ NoTurn.run = 0
  BY DEF ClosingTypes, RunTypes, NoTurn
<1>3. FewerAuthors
  BY <1>1, <1>2 DEF ClosingTypes, AuthorTypes, FewerAuthors
<1>4. output \in Outputs /\ sent \in [Messages -> Nat]
  BY DEF ClosingTypes, RowTypes
<1>5. ASSUME Mine(a)
      PROVE  /\ output.shape = "authoring" /\ gate.at = "none" /\ runNow # 0
             /\ output.initial = {} /\ output.now = {}
             /\ \A b \in Authors : author'[b].run # 0 => author'[b].run # runNow
  <2>1. author[a].run # 0 /\ author[a].run = runNow
    BY <1>1, <1>5 DEF Mine, ClosingInv, AuthorHolds
  <2>2. output.shape = "authoring" /\ gate.at = "none"
    BY <2>1 DEF ClosingInv, AuthorHolds
  <2>3. \A b \in Authors : author'[b].run # 0 => author'[b].run # runNow
    BY <1>1, <1>2, <2>1 DEF ClosingTypes, AuthorTypes, ClosingInv, AuthorsApart
  <2> QED BY <2>1, <2>2, <2>3 DEF ClosingInv, ShapeKeeps
\* What was said is named by a set the author hands over, and by its flat form.
<1>6. ASSUME Mine(a), NEW S \in SUBSET Messages
      PROVE  /\ Fields(DependentOutput(output, S), "dependent", {}, output.carried, output.before, {})
             /\ Fields(Flattened(DependentOutput(output, S)), "flat", output.carried, {}, output.before, {})
             /\ \A m \in Messages \ forgotten :
                  sent[m] # 0 => m \in output.carried \cup output.before
  <2>1. Fields(DependentOutput(output, S), "dependent", {}, output.carried, output.before, {})
    BY <1>4, DependentFields
  <2>2. Fields(Flattened(DependentOutput(output, S)), "flat", output.carried, {}, output.before, {})
    BY <2>1, FlattenedFields DEF Fields
  <2>3. LandedWritesOf(output) = output.carried \cup output.before
    BY <1>5, <1>6 DEF LandedWritesOf
  <2> QED BY <1>5, <1>6, <2>1, <2>2, <2>3 DEF ClosingInv, SaidKept
<1>7. CASE HandOver(a)
  <2>1. Mine(a) /\ UNCHANGED authoringJobs
    BY <1>7 DEF HandOver
  <2>2. PICK S \in SUBSET Messages : SetActionsPending(DependentOutput(output, S), S)
    BY <1>7 DEF HandOver
  <2> DEFINE o == DependentOutput(output, S)
  <2>3. Fields(o, "dependent", {}, output.carried, output.before, {})
    BY <1>6, <2>1
  <2> HIDE DEF o
  <2>4. o \in Outputs /\ ShapeKeeps(o) /\ o.shape = "dependent" /\ o.carried = {} /\ o.now = {}
    BY <2>3 DEF Fields, ShapeKeeps
  <2>5. \A m \in Messages \ forgotten : sent[m] # 0 => m \in LandedWritesOf(o) \/ m \in o.initial
    BY <1>6, <2>1, <2>3 DEF Fields, LandedWritesOf
  <2> QED BY <1>1, <1>3, <1>5, <2>1, <2>2, <2>4, <2>5, PendingKeeps DEF o
<1>8. CASE EndWithNone(a)
  <2>1. Mine(a) /\ UNCHANGED authoringJobs
    BY <1>8 DEF EndWithNone
  <2>2. PICK S \in SUBSET Messages :
          \E end \in {"failed", "completed"} : RunEndsIn(end, Flattened(DependentOutput(output, S)))
    BY <1>8 DEF EndWithNone, Fail
  <2> DEFINE o == Flattened(DependentOutput(output, S))
  <2>3. Fields(o, "flat", output.carried, {}, output.before, {})
    BY <1>6, <2>1
  <2>4. PICK end \in {"failed", "completed"} : RunEndsIn(end, o)
    BY <2>2
  <2> HIDE DEF o
  <2>5. o \in Outputs /\ ShapeKeeps(o)
    BY <2>3 DEF Fields, ShapeKeeps
  <2>6. NamedBy(o)
    BY <1>1, <1>4, <1>6, <2>1, <2>3 DEF NamedBy, Fields, LandedWritesOf, ClosingInv, SaidOnce
  <2> QED BY <1>1, <1>3, <2>1, <2>4, <2>5, <2>6, EndedKeeps
<1>9. CASE Mine(a) /\ Fail(output) /\ UNCHANGED authoringJobs
  <2>1. NamedBy(output)
    BY <1>1, <1>5, <1>9, NamedNow DEF ClosingInv
  <2> QED BY <1>1, <1>3, <1>4, <1>9, <2>1, EndedKeeps DEF Fail, ClosingInv
<1>10. CASE UNCHANGED <<stage, runNow, output, turn, gate, authoringJobs, preparing>>
  BY <1>1, <1>3, <1>10, KeptClosing
<1> QED BY <1>7, <1>8, <1>9, <1>10 DEF AuthorEnds

\* A run that is failed with its output as it is: nothing waits on it, or what
\* it drops is counted as forgotten.
LEMMA FailKeeps ==
  ASSUME ClosingTypes, ClosingInv, Fail(output), UNCHANGED <<authoringJobs, author, sent, runs>>,
         forgotten \subseteq forgotten',
         gate.at = "none" \/ output.shape # "dependent" \/ output.initial \subseteq forgotten'
  PROVE  ClosingTypes' /\ ClosingInv'
<1>1. \A m \in Messages \ forgotten' : ~(gate.at # "none" /\ m \in output.initial)
  BY DEF ClosingInv, ShapeKeeps
<1>2. NamedBy(output)
  BY <1>1, NamedNow DEF ClosingInv
<1> QED BY <1>2, SameAuthors, EndedKeeps DEF Fail, ClosingInv, ClosingTypes, RowTypes

LEMMA AuthoringKeeps ==
  ASSUME ClosingTypes, ClosingInv, Authoring
  PROVE  ClosingTypes' /\ ClosingInv'
<1>1. ASSUME NEW r \in authoringJobs, AuthoringLost(r)
      PROVE  ClosingTypes' /\ ClosingInv'
  <2>1. /\ authoringJobs' \subseteq authoringJobs
        /\ UNCHANGED <<stage, runNow, output, turn, gate, preparing, author, sent, runs, forgotten>>
    BY <1>1 DEF AuthoringLost
  <2> QED BY <2>1, SameAuthors, KeptClosing
<1>2. ASSUME NEW s \in switches, RecoverFires(s)
      PROVE  ClosingTypes' /\ ClosingInv'
  <2>1. UNCHANGED <<authoringJobs, author, sent, runs, forgotten>>
    BY <1>2 DEF RecoverFires
  <2>2. CASE Awaiting(s[1]) /\ turn = s[2]
    <3>1. Fail(output) /\ output.shape # "dependent"
      BY <1>2, <2>2 DEF RecoverFires, Awaiting
    <3> QED BY <2>1, <3>1, FailKeeps
  <2>3. CASE UNCHANGED <<stage, runNow, output, turn, gate, preparing>>
    BY <2>1, <2>3, SameAuthors, KeptClosing
  <2> QED BY <1>2, <2>2, <2>3 DEF RecoverFires
<1> QED BY <1>1, <1>2, TurnsKeep, AuthorKeeps DEF Authoring

-----------------------------------------------------------------------------
(* The sweep and the manager.                                              *)

LEMMA ApproveKeeps ==
  ASSUME ClosingTypes, ClosingInv, ApproveActions
  PROVE  ClosingTypes' /\ ClosingInv'
<1>1. PICK due \in SUBSET gate.asked : gate' = [at |-> "approved", due |-> due, asked |-> {}]
  BY DEF ApproveActions
<1>2. /\ gate.at # "none"
      /\ UNCHANGED <<stage, runNow, output, turn, authoringJobs, preparing, author, sent, runs, forgotten>>
  BY DEF ApproveActions
<1>3. gate' \in Gates /\ gate'.at # "none" /\ gate'.due \subseteq gate.asked /\ gate'.asked = {}
  BY <1>1 DEF ClosingTypes, RowTypes, Gates
<1>4. ClosingTypes'
  <2>1. RowTypes' /\ RunTypes' /\ AuthorTypes'
    BY <1>2, <1>3 DEF ClosingTypes, RowTypes, RunTypes, AuthorTypes
  <2> QED BY <1>2, <2>1 DEF ClosingTypes
<1>5. AuthorsApart' /\ AuthorHolds'
  BY <1>2, NobodysRun DEF ClosingInv, AuthorsApart, AuthorHolds
<1>6. GateWaits' /\ OneAtATime' /\ BareWhenIdle'
  BY <1>2, <1>3 DEF ClosingInv, GateWaits, OneAtATime, BareWhenIdle
<1>7. SaidKept' /\ SaidOnce' /\ ShapeKeeps(output')
  BY <1>2, <1>3 DEF ClosingInv, SaidKept, SaidOnce, LandedWritesOf
<1> QED BY <1>2, <1>4, <1>5, <1>6, <1>7 DEF ClosingInv, ShapeKeeps

LEMMA RetryKeeps ==
  ASSUME ClosingTypes, ClosingInv, RetryItem
  PROVE  ClosingTypes' /\ ClosingInv'
<1>1. /\ stage = "failed" /\ stage' = "plan-approved"
      /\ UNCHANGED <<runNow, turn, gate, authoringJobs, preparing, author, sent, runs, forgotten>>
  BY DEF RetryItem
<1>2. PICK o \in {output, ClosingResume(output)} :
        /\ o # output => MayResume(output)
        /\ output' = [o EXCEPT !.carried = LandedWritesOf(output)]
  BY DEF RetryItem
<1>3. output \in Outputs /\ LandedWritesOf(output) \in SUBSET Messages /\ gate.at = "none" /\ runNow = 0
  BY <1>1, OutputParts DEF ClosingTypes, RowTypes, ClosingInv, BareWhenIdle
<1>4. output' \in Outputs /\ ShapeKeeps(output') /\ LandedWritesOf(output) \subseteq LandedWritesOf(output')
  <2>1. CASE o = output
    <3>1. Fields(output', output.shape, LandedWritesOf(output), output.initial, output.before, output.now)
      BY <1>2, <1>3, <2>1, CarryFields
    <3> QED BY <3>1 DEF Fields, LandedWritesOf, ShapeKeeps, ClosingInv
  <2>2. CASE o = ClosingResume(output)
    <3>1. Fields(ClosingResume(output), "authoring", output.carried, {}, output.before \cup output.now, {})
      BY <1>3, ResumeFields
    <3>2. Fields(output', "authoring", LandedWritesOf(output), {}, output.before \cup output.now, {})
      BY <1>2, <1>3, <2>2, <3>1, CarryFields DEF Fields
    <3> QED BY <3>2 DEF Fields, LandedWritesOf, ShapeKeeps
  <2> QED BY <2>1, <2>2
<1>5. ClosingTypes'
  <2>1. RowTypes' /\ RunTypes' /\ AuthorTypes'
    BY <1>1, <1>4 DEF ClosingTypes, RowTypes, RunTypes, AuthorTypes
  <2> QED BY <1>1, <2>1 DEF ClosingTypes
<1>6. AuthorsApart' /\ AuthorHolds'
  BY <1>1, <1>3 DEF ClosingInv, AuthorsApart, AuthorHolds
<1>7. GateWaits' /\ OneAtATime' /\ BareWhenIdle'
  BY <1>1, <1>3 DEF ClosingInv, GateWaits, OneAtATime, BareWhenIdle
<1>8. SaidKept' /\ SaidOnce'
  BY <1>1, <1>3, <1>4 DEF ClosingInv, SaidKept, SaidOnce
<1> QED BY <1>4, <1>5, <1>6, <1>7, <1>8 DEF ClosingInv, ShapeKeeps

LEMMA ClosingKept ==
  ASSUME ClosingTypes, ClosingInv, [ClosingNext]_closingVars
  PROVE  ClosingTypes' /\ ClosingInv'
<1>1. CASE SweepStalled
  BY <1>1, FailKeeps DEF SweepStalled
<1>2. CASE RejectHeld \/ StopRun
  <2>1. StopAsItIs
    BY <1>2 DEF RejectHeld, StopRun
  <2> QED BY <2>1, FailKeeps DEF StopAsItIs
<1>3. CASE UNCHANGED closingVars
  BY <1>3, SameAuthors, KeptClosing DEF closingVars
<1> QED BY <1>1, <1>2, <1>3, ClaimKeeps, HoldKeeps, ResumeKeeps, ApplyKeeps, AuthoringKeeps, ApproveKeeps,
           RetryKeeps DEF ClosingNext

LEMMA ClosingStart == ClosingInit => ClosingTypes /\ ClosingInv
<1> SUFFICES ASSUME ClosingInit PROVE ClosingTypes /\ ClosingInv
  OBVIOUS
<1>1. Fields(output, "first", {}, {}, {}, {}) /\ gate \in Gates /\ gate.at = "none"
  BY NewOutputFields, NoGateIsGate DEF ClosingInit
<1>2. NoTurn \in [run : 0..0, turn : 0..2] /\ NoTurn.run = 0
  BY DEF NoTurn
<1>3. ClosingTypes
  <2>1. RowTypes
    BY <1>1 DEF ClosingInit, RowTypes, Fields
  <2>2. RunTypes /\ AuthorTypes
    BY <1>2 DEF ClosingInit, RunTypes, AuthorTypes
  <2> QED BY <2>1, <2>2 DEF ClosingInit, ClosingTypes
<1>4. ShapeKeeps(output) /\ GateWaits /\ OneAtATime /\ BareWhenIdle
  BY <1>1 DEF ClosingInit, ShapeKeeps, GateWaits, OneAtATime, BareWhenIdle, Fields
<1>5. AuthorsApart /\ AuthorHolds
  BY <1>2 DEF ClosingInit, AuthorsApart, AuthorHolds
<1>6. SaidKept /\ SaidOnce
  BY DEF ClosingInit, SaidKept, SaidOnce
<1> QED BY <1>3, <1>4, <1>5, <1>6 DEF ClosingInv

\* No message is put on the provider twice, across the first phase, the closing
\* set, its round and every retry, but for what a closing set carried when it
\* was rejected or stopped (reusedRows, closingResume, landedWritesOf).
THEOREM NothingSaidTwice == ClosingSpec => []SaidOnce
<1> DEFINE Inv == ClosingTypes /\ ClosingInv
<1>1. Inv => SaidOnce
  BY DEF ClosingInv
<1>2. Inv /\ [ClosingNext]_closingVars => Inv'
  BY ClosingKept
<1>3. ClosingInit => Inv
  BY ClosingStart
<1> HIDE DEF Inv
<1> QED BY <1>1, <1>2, <1>3, PTL DEF ClosingSpec

-----------------------------------------------------------------------------
(* The rest of the types.  What an output's newest set landed is of that   *)
(* set, because what waits at the gate is.                                  *)

Stages == {"plan-approved", "executing", "actions-pending", "failed", "completed"}
RestTypes == stage \in Stages /\ switches \subseteq (1..MaxRuns) \X {1, 2} /\ forgotten \subseteq Messages
\* What landed of a set, and what waits of it, is of it; with no gate nothing waits.
OfItsSet(o, g) == o.now \cup g.due \cup g.asked \subseteq o.rows /\ (g.at = "none" => g = NoGate)
Landed(o) == o.now \subseteq o.rows

LEMMA EmptyGate == \A o : OfItsSet(o, NoGate) <=> Landed(o)
BY DEF OfItsSet, Landed, NoGate

LEMMA BuiltSets ==
  ASSUME NEW o \in Outputs, NEW S \in SUBSET Messages, NEW C \in SUBSET Messages, NEW closes \in BOOLEAN
  PROVE  /\ LET n == [[NewOutput EXCEPT !.carried = C] EXCEPT !.rows = S, !.closes = closes] IN n.now = {} /\ n.rows = S
         /\ Landed([[NewOutput EXCEPT !.carried = C] EXCEPT !.shape = "authoring", !.closes = TRUE])
         /\ Landed(ClosingResume(o)) /\ Landed(RoundPrerequisites(o))
         /\ LET n == DependentOutput(o, S) IN n.now = {} /\ n.rows = S
         /\ Landed(o) => Landed(Flattened(o)) /\ Landed([o EXCEPT !.carried = C])
BY DEF Landed, NewOutput, ClosingResume, RoundPrerequisites, DependentOutput, Flattened, Outputs

LEMMA PendingOfSet ==
  ASSUME NEW o, NEW S, SetActionsPending(o, S), o.now = {}, o.rows = S
  PROVE  OfItsSet(output', gate')
BY DEF SetActionsPending, OfItsSet

LEMMA EndedOfSet ==
  ASSUME NEW o, NEW end, RunEndsIn(end, o), Landed(o)
  PROVE  OfItsSet(output', gate')
BY EmptyGate DEF RunEndsIn

LEMMA PreparedOfSet ==
  ASSUME NEW o, PrepareDependentPhase(o), Landed(o)
  PROVE  OfItsSet(output', gate')
BY EmptyGate DEF PrepareDependentPhase

LEMMA AppliedOfSet ==
  ASSUME output \in Outputs, gate \in Gates, OfItsSet(output, gate), ApplyHeld
  PROVE  OfItsSet(output', gate')
<1>1. PICK went \in SUBSET (gate.due \ ReusedRows(output)), clean \in BOOLEAN :
        LET o == [output EXCEPT !.now = @ \cup went \cup (gate.due \cap ReusedRows(output))]
        IN IF output.shape = "dependent" THEN FinishClosing(o, clean) ELSE FinishFirst(o, clean)
  BY DEF ApplyHeld
<1> DEFINE o == [output EXCEPT !.now = @ \cup went \cup (gate.due \cap ReusedRows(output))]
<1>2. o \in Outputs /\ o.rows = output.rows /\ o.now \subseteq output.now \cup gate.due
  BY DEF Outputs, Gates
<1>3. IF output.shape = "dependent" THEN FinishClosing(o, clean) ELSE FinishFirst(o, clean)
  BY <1>1
<1> HIDE DEF o
<1>4. Landed(o) /\ Landed(Flattened(o)) /\ Landed(RoundPrerequisites(o))
  <2>1. Landed(o)
    BY <1>2 DEF OfItsSet, Landed
  <2> QED BY <1>2, <2>1, BuiltSets
<1>5. CASE ParkForManager(o)
  BY <1>2, <1>5 DEF ParkForManager, OfItsSet
<1>6. ASSUME NEW end, RunEndsIn(end, o) \/ RunEndsIn(end, Flattened(o)) PROVE OfItsSet(output', gate')
  BY <1>4, <1>6, EndedOfSet
<1>7. CASE PrepareDependentPhase(RoundPrerequisites(o))
  BY <1>4, <1>7, PreparedOfSet
<1>8. ASSUME NEW whole, NEW failed,
             PrepareDependentPhase([o EXCEPT !.shape = "authoring", !.before = o.now, !.rows = {}, !.now = {},
                                             !.whole = whole, !.all = whole, !.failed = failed])
      PROVE  OfItsSet(output', gate')
  <2>1. Landed([o EXCEPT !.shape = "authoring", !.before = o.now, !.rows = {}, !.now = {},
                         !.whole = whole, !.all = whole, !.failed = failed])
    BY <1>2 DEF Landed, Outputs
  <2> QED BY <1>8, <2>1, PreparedOfSet
<1> QED BY <1>3, <1>5, <1>6, <1>7, <1>8 DEF FinishClosing, FinishFirst, Fail

LEMMA SetStep ==
  ASSUME ClosingTypes, BareWhenIdle, OfItsSet(output, gate), [ClosingNext]_closingVars
  PROVE  OfItsSet(output', gate')
<1>1. output \in Outputs /\ gate \in Gates /\ Landed(output) /\ LandedWritesOf(output) \in SUBSET Messages
  <2>1. output \in Outputs /\ gate \in Gates
    BY DEF ClosingTypes, RowTypes
  <2> QED BY <2>1, OutputParts DEF OfItsSet, Landed
<1>2. CASE UNCHANGED <<output, gate>>
  BY <1>2
<1>3. CASE HoldDay0Actions
  <2> DEFINE fresh == [NewOutput EXCEPT !.carried = LandedWritesOf(output)]
  <2>1. ASSUME NEW S \in SUBSET Messages, NEW closes \in BOOLEAN,
               SetActionsPending([fresh EXCEPT !.rows = S, !.closes = closes], S)
        PROVE  OfItsSet(output', gate')
    BY <1>1, <2>1, BuiltSets, PendingOfSet
  <2>2. CASE PrepareDependentPhase([fresh EXCEPT !.shape = "authoring", !.closes = TRUE])
    BY <1>1, <2>2, BuiltSets, PreparedOfSet
  <2> QED BY <1>3, <2>1, <2>2 DEF HoldDay0Actions
<1>4. CASE ResumeClosing
  <2>1. Landed([output EXCEPT !.carried = LandedWritesOf(output)])
    BY <1>1, BuiltSets
  <2> QED BY <1>1, <1>4, <2>1, PreparedOfSet, EndedOfSet DEF ResumeClosing, Fail
<1>5. CASE ApplyHeld
  BY <1>1, <1>5, AppliedOfSet
<1>6. ASSUME NEW a \in Authors, AuthorEnds(a)
      PROVE  OfItsSet(output', gate')
  <2>1. CASE HandOver(a)
    BY <1>1, <2>1, BuiltSets, PendingOfSet DEF HandOver
  <2>2. CASE EndWithNone(a)
    <3>1. \A S \in SUBSET Messages : Landed(Flattened(DependentOutput(output, S)))
      <4> SUFFICES ASSUME NEW S \in SUBSET Messages PROVE Landed(Flattened(DependentOutput(output, S)))
        OBVIOUS
      <4>1. DependentOutput(output, S) \in Outputs
        BY <1>1, DependentFields DEF Fields
      <4>2. Landed(DependentOutput(output, S))
        BY <1>1, BuiltSets DEF Landed
      <4> QED BY <4>1, <4>2, BuiltSets
    <3>2. PICK S \in SUBSET Messages, end \in {"failed", "completed"} :
            RunEndsIn(end, Flattened(DependentOutput(output, S)))
      BY <2>2 DEF EndWithNone, Fail
    <3> QED BY <3>1, <3>2, EndedOfSet
  <2>3. CASE Fail(output)
    BY <1>1, <2>3, EndedOfSet DEF Fail
  <2> QED BY <1>2, <1>6, <2>1, <2>2, <2>3 DEF AuthorEnds
<1>7. CASE Fail(output)
  BY <1>1, <1>7, EndedOfSet DEF Fail
<1>8. CASE ApproveActions
  BY <1>8 DEF ApproveActions, OfItsSet
<1>9. CASE RetryItem
  <2>1. PICK o \in {output, ClosingResume(output)} : output' = [o EXCEPT !.carried = LandedWritesOf(output)]
    BY <1>9 DEF RetryItem
  <2>2. o \in Outputs
    BY <1>1, <2>1, ResumeFields DEF Fields
  <2>3. gate' = gate
    BY <1>9 DEF RetryItem
  <2>4. CASE o = output
    BY <1>1, <2>1, <2>3, <2>4 DEF OfItsSet, Outputs
  <2>5. CASE o = ClosingResume(output)
    <3>1. gate = NoGate
      BY <1>9 DEF RetryItem, BareWhenIdle, OfItsSet
    <3>2. Landed(output')
      BY <1>1, <2>1, <2>2, <2>5, BuiltSets
    <3> QED BY <2>3, <3>1, <3>2, EmptyGate
  <2> QED BY <2>1, <2>4, <2>5
<1> QED BY <1>2, <1>3, <1>4, <1>5, <1>6, <1>7, <1>8, <1>9 DEF ClosingNext, Authoring, ClaimForExecution,
        AuthoringLost, ClaimDependentAuthoring, RecoverFires, SweepStalled, RejectHeld, StopRun, StopAsItIs, closingVars

LEMMA RestStep ==
  ASSUME ClosingTypes, RestTypes, [ClosingNext]_closingVars
  PROVE  RestTypes'
<1>1. output \in Outputs
  BY DEF ClosingTypes, RowTypes
<1>2. stage' \in Stages
  BY DEF RestTypes, Stages, ClosingNext, closingVars, ClaimForExecution, HoldDay0Actions, SetActionsPending,
         PrepareDependentPhase, ResumeClosing, Fail, RunEndsIn, ApplyHeld, FinishClosing, FinishFirst,
         ParkForManager, Authoring, AuthoringLost, ClaimDependentAuthoring, AuthorEnds, HandOver, EndWithNone,
         RecoverFires, SweepStalled, ApproveActions, RejectHeld, StopRun, StopAsItIs, RetryItem
<1>3. switches' \subseteq (1..MaxRuns) \X {1, 2}
  <2>1. ASSUME NEW r \in authoringJobs, NEW a \in Authors, ClaimDependentAuthoring(a, r)
        PROVE  switches' \subseteq (1..MaxRuns) \X {1, 2}
    <3>1. r \in 1..MaxRuns
      BY DEF ClosingTypes, RunTypes
    <3>2. TurnOf(output) \in {1, 2}
      BY DEF TurnOf
    <3> QED BY <2>1, <3>1, <3>2 DEF ClaimDependentAuthoring, RestTypes
  <2>2. ASSUME switches' \subseteq switches
        PROVE  switches' \subseteq (1..MaxRuns) \X {1, 2}
    BY <2>2 DEF RestTypes
  <2> QED BY <2>1, <2>2 DEF ClosingNext, closingVars, ClaimForExecution, HoldDay0Actions, ResumeClosing,
         ApplyHeld, Authoring, AuthoringLost, AuthorEnds, RecoverFires, SweepStalled, ApproveActions,
         RejectHeld, StopRun, StopAsItIs, RetryItem
<1>4. forgotten' \subseteq Messages
  <2>1. CASE StopAsItIs
    BY <1>1, <2>1 DEF StopAsItIs, RestTypes, Outputs
  <2>2. CASE UNCHANGED forgotten
    BY <2>2 DEF RestTypes
  <2> QED BY <2>1, <2>2 DEF ClosingNext, closingVars, ClaimForExecution, HoldDay0Actions, ResumeClosing,
         ApplyHeld, Authoring, AuthoringLost, ClaimDependentAuthoring, AuthorEnds, RecoverFires, SweepStalled,
         ApproveActions, RejectHeld, StopRun, RetryItem
<1> QED BY <1>2, <1>3, <1>4 DEF RestTypes

LEMMA TypesSay == ClosingTypes /\ RestTypes /\ OfItsSet(output, gate) => ClosingTypeOK
<1> SUFFICES ASSUME ClosingTypes, RestTypes, OfItsSet(output, gate) PROVE ClosingTypeOK
  OBVIOUS
<1>1. /\ output \in Outputs /\ gate \in Gates /\ turn \in 0..2 /\ sent \in [Messages -> Nat] /\ preparing \in BOOLEAN
      /\ runs \in 0..MaxRuns /\ runNow \in 0..runs /\ authoringJobs \subseteq 1..runs
      /\ author \in [Authors -> [run : 0..runs, turn : 0..2]]
  BY DEF ClosingTypes, RowTypes, RunTypes, AuthorTypes
<1>2. 0..runs \subseteq 0..MaxRuns /\ 1..runs \subseteq 1..MaxRuns
  BY <1>1
<1>3. author \in [Authors -> [run : 0..MaxRuns, turn : 0..2]]
  BY <1>1, <1>2
<1>4. /\ output.shape \in Shapes /\ output.now \subseteq output.rows
      /\ output.carried \cup output.initial \cup output.before \cup output.rows \subseteq Messages
  BY <1>1 DEF Outputs, OfItsSet
<1>5. stage \in Stages /\ switches \subseteq (1..MaxRuns) \X {1, 2} /\ forgotten \subseteq Messages
  BY DEF RestTypes
<1> QED BY <1>1, <1>2, <1>3, <1>4, <1>5 DEF ClosingTypeOK, Stages, Shapes, Gates

\* The closing phase keeps its types: what landed of a set is of that set, a
\* switch is of one of the two turns of a run the item began, and no author
\* holds a run that was never claimed (claimDependentAuthoring, setActionsPending,
\* finishRun).
THEOREM ClosingTyped == ClosingSpec => []ClosingTypeOK
<1> DEFINE Inv == ClosingTypes /\ ClosingInv /\ RestTypes /\ OfItsSet(output, gate)
<1>1. Inv => ClosingTypeOK
  BY TypesSay
<1>2. Inv /\ [ClosingNext]_closingVars => Inv'
  <2> SUFFICES ASSUME Inv, [ClosingNext]_closingVars PROVE Inv'
    OBVIOUS
  <2>1. OfItsSet(output', gate')
    BY SetStep DEF ClosingInv
  <2>2. OfItsSet(output, gate)'
    BY <2>1 DEF OfItsSet, NoGate
  <2> QED BY <2>2, ClosingKept, RestStep
<1>3. ClosingInit => Inv
  <2> SUFFICES ASSUME ClosingInit PROVE Inv
    OBVIOUS
  <2>1. RestTypes /\ OfItsSet(output, gate)
    BY DEF ClosingInit, RestTypes, Stages, OfItsSet, NewOutput, NoGate
  <2> QED BY <2>1, ClosingStart
<1> HIDE DEF Inv
<1> QED BY <1>1, <1>2, <1>3, PTL DEF ClosingSpec

-----------------------------------------------------------------------------
(***************************************************************************)
(* One ticket and one field among any number of employees' rows: no two    *)
(* hold either, whoever is refused is behind a claim that stands, and a    *)
(* run keeps the field it took.  The claims on the ticket are an asker's   *)
(* and a finder's at most, in that order, which is what makes the first    *)
(* claim a reader stops at the one that matters.                           *)
(***************************************************************************)

USE WorkRowAssumption DEF WorkRows, ClaimKeys

-----------------------------------------------------------------------------
(* The inductive invariant. *)

\* An order is of rows that hold, and of the ticket's holders an asker's claim
\* is older than a finder's.
HoldersMeet == \A k \in ClaimKeys : \A p \in claimsOn[k] : HeldBy(p[1], k) /\ HeldBy(p[2], k)
TicketShape ==
  /\ \A g, h \in Holders("ticket") : g \in Finders /\ h \in Finders => g = h
  /\ \A g, h \in Holders("ticket") : g \in Askers /\ h \in Askers => g = h
  /\ \A a, f \in Holders("ticket") : a \in Askers /\ f \in Finders =>
       <<a, f>> \in claimsOn["ticket"] /\ <<f, a>> \notin claimsOn["ticket"]
FieldShape == \A g, h \in Holders("field") : g = h
ClaimsShape == HoldersMeet /\ TicketShape /\ FieldShape

\* A run that holds the field is executing, and its claim is open.
RunsHold ==
  \A r \in WorkRows : run[r] = "holding" =>
    work[r] = "executing" /\ settled["field"][r] = {} /\ HeldBy(r, "field")

ClaimInv == ClaimTypeOK /\ ClaimsShape /\ RunsHold /\ RefusedByALiveClaim

-----------------------------------------------------------------------------
(* What a release leaves.                                                  *)

Refusals == {NoRefusal} \cup WorkRows \X ClaimKeys

LEMMA ReleaseTypes ==
  ASSUME ClaimTypeOK, NEW cs
  PROVE  /\ SentBackWith(cs) \in [WorkRows -> ItemStates] /\ Unrefused(cs) \in [WorkRows -> Refusals]
         /\ Without(cs) \in [ClaimKeys -> SUBSET (WorkRows \X WorkRows)]
<1>1. work \in [WorkRows -> ItemStates] /\ refusedBy \in [WorkRows -> Refusals]
      /\ claimsOn \in [ClaimKeys -> SUBSET (WorkRows \X WorkRows)]
  BY DEF ClaimTypeOK, Refusals
<1>2. "discovered" \in ItemStates
  BY DEF ItemStates
<1>3. SentBackWith(cs) \in [WorkRows -> ItemStates]
  BY <1>1, <1>2 DEF SentBackWith
<1>4. Unrefused(cs) \in [WorkRows -> Refusals]
  BY <1>1 DEF Unrefused, Refusals
<1>5. Without(cs) \in [ClaimKeys -> SUBSET (WorkRows \X WorkRows)]
  BY <1>1 DEF Without
<1> QED BY <1>3, <1>4, <1>5

LEMMA ReleaseRows ==
  ASSUME NEW cs, NEW x \in WorkRows
  PROVE  /\ Unrefused(cs)[x] = IF refusedBy[x] \in cs THEN NoRefusal ELSE refusedBy[x]
         /\ SentBackWith(cs)[x] = IF refusedBy[x] # NoRefusal /\ refusedBy[x] \in cs THEN "discovered" ELSE work[x]
BY DEF Unrefused, SentBackWith

LEMMA ReleaseClaims ==
  ASSUME ClaimTypeOK, NEW cs, NEW k \in ClaimKeys, NEW g \in WorkRows, NEW h \in WorkRows
  PROVE  <<g, h>> \in Without(cs)[k] <=> <<g, h>> \in claimsOn[k] /\ <<g, k>> \notin cs /\ <<h, k>> \notin cs
BY DEF Without

LEMMA NothingReleased ==
  ASSUME ClaimTypeOK
  PROVE  Without({}) = claimsOn /\ Unrefused({}) = refusedBy /\ SentBackWith({}) = work
<1>1. Without({}) = claimsOn
  BY DEF Without, ClaimTypeOK
<1>2. Unrefused({}) = refusedBy
  BY DEF Unrefused, ClaimTypeOK
<1>3. SentBackWith({}) = work
  BY <1>2 DEF SentBackWith, ClaimTypeOK
<1> QED BY <1>1, <1>2, <1>3

\* Claims that go leave the order of the others.
LEMMA ShapeWithout ==
  ASSUME ClaimTypeOK, ClaimsShape, NEW cs, claimsOn' = Without(cs)
  PROVE  ClaimsShape'
<1>1. \A k \in ClaimKeys : \A g, h \in WorkRows :
        <<g, h>> \in claimsOn'[k] <=> <<g, h>> \in claimsOn[k] /\ <<g, k>> \notin cs /\ <<h, k>> \notin cs
  BY ReleaseClaims
<1>2. claimsOn \in [ClaimKeys -> SUBSET (WorkRows \X WorkRows)] /\ claimsOn' \in [ClaimKeys -> SUBSET (WorkRows \X WorkRows)]
  BY ReleaseTypes DEF ClaimTypeOK
<1>3. HoldersMeet'
  <2>1. ASSUME NEW k \in ClaimKeys, NEW p \in claimsOn'[k]
        PROVE  <<p[1], p[1]>> \in claimsOn'[k] /\ <<p[2], p[2]>> \in claimsOn'[k]
    <3>1. p[1] \in WorkRows /\ p[2] \in WorkRows /\ p = <<p[1], p[2]>>
      BY <1>2
    <3>2. p \in claimsOn[k] /\ <<p[1], k>> \notin cs /\ <<p[2], k>> \notin cs
      BY <1>1, <3>1
    <3>3. <<p[1], p[1]>> \in claimsOn[k] /\ <<p[2], p[2]>> \in claimsOn[k]
      BY <3>2 DEF ClaimsShape, HoldersMeet, HeldBy
    <3> QED BY <1>1, <3>1, <3>2, <3>3
  <2> QED BY <2>1 DEF HoldersMeet, HeldBy
<1>4. \A k \in ClaimKeys : \A r \in Holders(k)' : r \in WorkRows /\ r \in Holders(k) /\ <<r, k>> \notin cs
  BY <1>1 DEF Holders, HeldBy
<1>5. TicketShape'
  <2>1. \A r \in Holders("ticket")' : r \in WorkRows /\ r \in Holders("ticket") /\ <<r, "ticket">> \notin cs
    BY <1>4
  <2> QED BY <1>1, <2>1 DEF ClaimsShape, TicketShape
<1>6. FieldShape'
  <2>1. \A r \in Holders("field")' : r \in Holders("field")
    BY <1>4
  <2> QED BY <2>1 DEF ClaimsShape, FieldShape
<1> QED BY <1>3, <1>5, <1>6 DEF ClaimsShape

\* Who stays refused is behind a claim that was not released.
LEMMA RefusedKept ==
  ASSUME ClaimTypeOK, RefusedByALiveClaim, NEW cs, NEW r \in WorkRows,
         \A x \in WorkRows \ {r} : work'[x] = SentBackWith(cs)[x] /\ refusedBy'[x] = Unrefused(cs)[x],
         \A k \in ClaimKeys : Without(cs)[k] \subseteq claimsOn'[k],
         refusedBy'[r] # NoRefusal =>
           work'[r] = "skipped" /\ <<refusedBy'[r][1], refusedBy'[r][1]>> \in claimsOn'[refusedBy'[r][2]]
  PROVE  RefusedByALiveClaim'
<1>1. ASSUME NEW x \in WorkRows \ {r}, refusedBy'[x] # NoRefusal
      PROVE  work'[x] = "skipped" /\ <<refusedBy'[x][1], refusedBy'[x][1]>> \in claimsOn'[refusedBy'[x][2]]
  <2>1. refusedBy[x] \notin cs /\ refusedBy'[x] = refusedBy[x] /\ work'[x] = work[x]
    BY <1>1, ReleaseRows
  <2>2. PICK h \in WorkRows, k \in ClaimKeys : refusedBy[x] = <<h, k>>
    BY <1>1, <2>1 DEF ClaimTypeOK
  <2>3. work[x] = "skipped" /\ <<h, h>> \in claimsOn[k]
    BY <1>1, <2>1, <2>2 DEF RefusedByALiveClaim, HeldBy
  <2>4. <<h, h>> \in Without(cs)[k]
    BY <2>1, <2>2, <2>3, ReleaseClaims
  <2>5. <<h, h>> \in claimsOn'[k]
    BY <2>4
  <2> QED BY <2>1, <2>2, <2>3, <2>5
<1> QED BY <1>1 DEF RefusedByALiveClaim, HeldBy

\* A run keeps the field while no step releases it.
LEMMA RunsKept ==
  ASSUME ClaimInv, NEW cs, NEW r \in WorkRows,
         \A x \in WorkRows : run[x] = "holding" => <<x, "field">> \notin cs,
         \A x \in WorkRows \ {r} :
           work'[x] = SentBackWith(cs)[x] /\ run'[x] = run[x] /\ settled'["field"][x] = settled["field"][x],
         Without(cs)["field"] \subseteq claimsOn'["field"],
         run'[r] = "holding" =>
           work'[r] = "executing" /\ settled'["field"][r] = {} /\ <<r, r>> \in claimsOn'["field"]
  PROVE  RunsHold'
<1>1. ASSUME NEW x \in WorkRows \ {r}, run'[x] = "holding"
      PROVE  work'[x] = "executing" /\ settled'["field"][x] = {} /\ <<x, x>> \in claimsOn'["field"]
  <2>1. work[x] = "executing" /\ settled["field"][x] = {} /\ <<x, x>> \in claimsOn["field"]
    BY <1>1 DEF ClaimInv, RunsHold, HeldBy
  <2>2. refusedBy[x] = NoRefusal
    BY <2>1 DEF ClaimInv, RefusedByALiveClaim
  <2>3. work'[x] = "executing"
    BY <2>1, <2>2, ReleaseRows
  <2>4. ClaimTypeOK /\ <<x, "field">> \notin cs /\ "field" \in ClaimKeys
    BY <1>1 DEF ClaimInv
  <2>5. <<x, x>> \in Without(cs)["field"]
    BY <2>1, <2>4, ReleaseClaims
  <2> QED BY <1>1, <2>1, <2>3, <2>5
<1> QED BY <1>1 DEF RunsHold, HeldBy

\* A row that was not skipped was not refused.
LEMMA NotRefused ==
  ASSUME ClaimInv, NEW r \in WorkRows, work[r] # "skipped"
  PROVE  refusedBy[r] = NoRefusal
BY DEF ClaimInv, RefusedByALiveClaim

\* A step that releases nothing, and changes no claim and no refusal.
LEMMA QuietStep ==
  ASSUME ClaimInv, NEW r \in WorkRows, UNCHANGED <<refusedBy, claimsOn, settled>>,
         waived' \subseteq WorkRows, sendBacks' \in 0..MaxSendBacks,
         NEW st \in ItemStates, work' = [work EXCEPT ![r] = st],
         NEW at \in {"none", "begun", "plain", "holding", "told", "cleared", "applied"},
         run' = [run EXCEPT ![r] = at],
         at = "holding" => run[r] = "holding" /\ st = work[r],
         work[r] # "skipped" \/ st = "skipped"
  PROVE  ClaimInv'
<1>1. ClaimTypeOK
  BY DEF ClaimInv
<1>2. ClaimTypeOK'
  BY <1>1 DEF ClaimTypeOK
<1>3. ClaimsShape'
  BY DEF ClaimInv, ClaimsShape, HoldersMeet, TicketShape, FieldShape, Holders, HeldBy
<1>4. work \in [WorkRows -> ItemStates]
      /\ run \in [WorkRows -> {"none", "begun", "plain", "holding", "told", "cleared", "applied"}]
  BY <1>1 DEF ClaimTypeOK
<1>5. RunsHold'
  BY <1>4 DEF ClaimInv, RunsHold, HeldBy
<1>6. RefusedByALiveClaim'
  BY <1>4 DEF ClaimInv, RefusedByALiveClaim, HeldBy
<1> QED BY <1>2, <1>3, <1>5, <1>6 DEF ClaimInv

-----------------------------------------------------------------------------
(* The steps that release. *)

\* A row's step that releases the claims in cs and takes none: no run of
\* another that holds the field is among them, and the row itself is not
\* left refused by a claim that went.
LEMMA ReleaseStep ==
  ASSUME ClaimInv, ClaimTypeOK', NEW cs, NEW r \in WorkRows, claimsOn' = Without(cs),
         \A x \in WorkRows : run[x] = "holding" => <<x, "field">> \notin cs,
         \A x \in WorkRows \ {r} :
           /\ work'[x] = SentBackWith(cs)[x] /\ refusedBy'[x] = Unrefused(cs)[x]
           /\ run'[x] = run[x] /\ settled'["field"][x] = settled["field"][x],
         refusedBy'[r] # NoRefusal =>
           work'[r] = "skipped" /\ <<refusedBy'[r][1], refusedBy'[r][1]>> \in claimsOn'[refusedBy'[r][2]],
         run'[r] # "holding"
  PROVE  ClaimInv'
<1>1. ClaimTypeOK /\ ClaimsShape /\ RefusedByALiveClaim
  BY DEF ClaimInv
<1>2. ClaimsShape'
  BY <1>1, ShapeWithout
<1>3. \A k \in ClaimKeys : Without(cs)[k] \subseteq claimsOn'[k]
  OBVIOUS
<1>4. RefusedByALiveClaim'
  BY <1>1, <1>3, RefusedKept
<1>5. Without(cs)["field"] \subseteq claimsOn'["field"]
  OBVIOUS
<1>6. RunsHold'
  BY <1>5, RunsKept
<1> QED BY <1>2, <1>4, <1>6 DEF ClaimInv

\* The claims a read releases are of rows that let go: no run holds one.
LEMMA LapsedLetGo ==
  ASSUME NEW r \in WorkRows, NEW h \in WorkRows, NEW k \in ClaimKeys, <<h, k>> \in LapsedFor(r)
  PROVE  r \in Finders /\ k = "ticket" /\ LetGo(h)
BY DEF LapsedFor, Lapsed, Holders

\* A row that is not executing runs nothing that holds the field.
LEMMA NoRunHeld ==
  ASSUME ClaimInv, NEW r \in WorkRows, work[r] # "executing"
  PROVE  run[r] # "holding"
BY DEF ClaimInv, RunsHold

\* Whoever refuses a row holds what it refused, and is not released by it.
LEMMA RefusingHolds ==
  ASSUME ClaimTypeOK, NEW r \in WorkRows, NEW c \in ItemHolder(r) \cup SettledFor(r)
  PROVE  \E h \in WorkRows : c = <<h, "ticket">> /\ <<h, h>> \in claimsOn["ticket"] /\ c \notin LapsedFor(r)
<1>1. CASE c \in ItemHolder(r)
  <2>1. PICK h \in StopsAt(r, "ticket") \ {r} : c = <<h, "ticket">>
    BY <1>1 DEF ItemHolder, HolderFor
  <2>2. h \in WorkRows /\ <<h, h>> \in claimsOn["ticket"] /\ ~LetGo(h)
    BY <2>1 DEF StopsAt, Holders, HeldBy
  <2>3. c \notin LapsedFor(r)
    BY <2>1, <2>2, LapsedLetGo
  <2> QED BY <2>1, <2>2, <2>3
<1>2. CASE c \in SettledFor(r)
  <2>1. r \in Askers
    BY <1>2 DEF SettledFor
  <2>2. PICK h \in Holders("ticket") : c = <<h, "ticket">>
    BY <1>2, <2>1 DEF SettledFor
  <2>3. h \in WorkRows /\ <<h, h>> \in claimsOn["ticket"]
    BY <2>2 DEF Holders, HeldBy
  <2>4. LapsedFor(r) = {}
    BY <2>1 DEF LapsedFor
  <2> QED BY <2>2, <2>3, <2>4
<1> QED BY <1>1, <1>2

\* A row refused its item is behind the claim it was refused by.
LEMMA RefuseKeeps ==
  ASSUME ClaimInv, NEW r \in WorkRows, NEW c \in ItemHolder(r) \cup SettledFor(r),
         Refuse(r, c, LapsedFor(r)), UNCHANGED <<settled, waived, run, sendBacks>>,
         work[r] # "executing"
  PROVE  ClaimInv'
<1>1. ClaimTypeOK
  BY DEF ClaimInv
<1>2. PICK h \in WorkRows : c = <<h, "ticket">> /\ <<h, h>> \in claimsOn["ticket"] /\ c \notin LapsedFor(r)
  BY <1>1, RefusingHolds
<1>3. PICK cs : cs = LapsedFor(r)
  OBVIOUS
<1>4. /\ SentBackWith(cs) \in [WorkRows -> ItemStates] /\ Unrefused(cs) \in [WorkRows -> Refusals]
      /\ Without(cs) \in [ClaimKeys -> SUBSET (WorkRows \X WorkRows)]
  BY <1>1, ReleaseTypes
<1>5. /\ work' = [SentBackWith(cs) EXCEPT ![r] = "skipped"] /\ claimsOn' = Without(cs)
      /\ refusedBy' = [Unrefused(cs) EXCEPT ![r] = c]
  BY <1>3 DEF Refuse
<1>6. "skipped" \in ItemStates /\ c \in Refusals
  BY <1>2 DEF ItemStates, Refusals
<1>7. /\ work' \in [WorkRows -> ItemStates] /\ refusedBy' \in [WorkRows -> Refusals]
      /\ work'[r] = "skipped" /\ refusedBy'[r] = c
      /\ \A x \in WorkRows \ {r} : work'[x] = SentBackWith(cs)[x] /\ refusedBy'[x] = Unrefused(cs)[x]
  BY <1>4, <1>5, <1>6
<1>8. ClaimTypeOK'
  BY <1>1, <1>4, <1>5, <1>7 DEF ClaimTypeOK, Refusals
<1>9. \A x \in WorkRows : run[x] = "holding" => <<x, "field">> \notin cs
  BY <1>3, LapsedLetGo
<1>10. <<h, h>> \in claimsOn'["ticket"]
  BY <1>1, <1>2, <1>3, <1>5, ReleaseClaims
<1>11. work'[r] = "skipped" /\ <<refusedBy'[r][1], refusedBy'[r][1]>> \in claimsOn'[refusedBy'[r][2]]
  BY <1>2, <1>7, <1>10
<1>12. run'[r] # "holding"
  BY NoRunHeld
<1>13. \A x \in WorkRows \ {r} :
         /\ work'[x] = SentBackWith(cs)[x] /\ refusedBy'[x] = Unrefused(cs)[x]
         /\ run'[x] = run[x] /\ settled'["field"][x] = settled["field"][x]
  BY <1>7
<1> QED BY <1>5, <1>8, <1>9, <1>11, <1>12, <1>13, ReleaseStep

\* A row moves to st, and the claims in cs go.
LEMMA MoveKeeps ==
  ASSUME ClaimInv, NEW r \in WorkRows, NEW cs, NEW st \in ItemStates, work[r] # "skipped",
         \A x \in WorkRows : run[x] = "holding" => <<x, "field">> \notin cs,
         work' = [SentBackWith(cs) EXCEPT ![r] = st],
         refusedBy' = Unrefused(cs), claimsOn' = Without(cs),
         waived' \subseteq WorkRows, sendBacks' \in 0..MaxSendBacks,
         settled' \in [ClaimKeys -> [WorkRows -> SUBSET WorkRows]],
         \A x \in WorkRows \ {r} : settled'["field"][x] = settled["field"][x],
         NEW at \in {"none", "begun", "plain", "told", "cleared", "applied"},
         run' = run \/ run' = [run EXCEPT ![r] = at],
         run'[r] # "holding"
  PROVE  ClaimInv'
<1>1. ClaimTypeOK
  BY DEF ClaimInv
<1>2. /\ SentBackWith(cs) \in [WorkRows -> ItemStates] /\ Unrefused(cs) \in [WorkRows -> Refusals]
      /\ Without(cs) \in [ClaimKeys -> SUBSET (WorkRows \X WorkRows)]
  BY <1>1, ReleaseTypes
<1>3. run \in [WorkRows -> {"none", "begun", "plain", "holding", "told", "cleared", "applied"}]
  BY <1>1 DEF ClaimTypeOK
<1>4. /\ run' \in [WorkRows -> {"none", "begun", "plain", "holding", "told", "cleared", "applied"}]
      /\ \A x \in WorkRows \ {r} : run'[x] = run[x]
  BY <1>3
<1>5. /\ work' \in [WorkRows -> ItemStates]
      /\ \A x \in WorkRows \ {r} : work'[x] = SentBackWith(cs)[x]
  BY <1>2
<1>6. ClaimTypeOK'
  BY <1>2, <1>4, <1>5 DEF ClaimTypeOK, Refusals
<1>7. refusedBy'[r] = NoRefusal
  <2>1. refusedBy[r] = NoRefusal
    BY NotRefused
  <2> QED BY <2>1, ReleaseRows
<1>8. \A x \in WorkRows \ {r} :
         /\ work'[x] = SentBackWith(cs)[x] /\ refusedBy'[x] = Unrefused(cs)[x]
         /\ run'[x] = run[x] /\ settled'["field"][x] = settled["field"][x]
  BY <1>4, <1>5
<1> QED BY <1>6, <1>7, <1>8, ReleaseStep

-----------------------------------------------------------------------------
(* The steps that take. *)

\* A finder that nobody's claim stops finds every other finder's claim let
\* go, and releases it.
LEMMA UnheldIsFree ==
  ASSUME ClaimInv, NEW r \in Finders, Unheld(r), ~HeldBy(r, "ticket"),
         NEW h \in Finders, HeldBy(h, "ticket")
  PROVE  <<h, "ticket">> \in LapsedFor(r)
<1> DEFINE stops == {x \in Holders("ticket") : x = r \/ (~LetGo(x) /\ HoldsAgainst(x, "ticket", r))}
<1>1. TicketShape /\ h \in WorkRows /\ r \in WorkRows /\ h \in Holders("ticket")
  BY DEF ClaimInv, ClaimsShape, Holders
<1>2. StopsAt(r, "ticket") = {x \in stops : \A g \in stops : <<x, g>> \in claimsOn["ticket"]}
  BY DEF StopsAt
<1>3. StopsAt(r, "ticket") = {}
  <2>1. StopsAt(r, "ticket") \ {r} = {}
    BY DEF Unheld, ItemHolder, HolderFor
  <2>2. r \notin StopsAt(r, "ticket")
    BY DEF StopsAt, Holders
  <2> QED BY <2>1, <2>2
<1>4. \A x \in stops : x \in WorkRows /\ x \in Holders("ticket") /\ <<x, x>> \in claimsOn["ticket"]
  BY DEF Holders, HeldBy
<1>5. \A a \in stops : a \notin Askers
  <2>1. ASSUME NEW a \in stops, a \in Askers
        PROVE  FALSE
    <3>1. \A g \in stops : <<a, g>> \in claimsOn["ticket"]
      <4>1. ASSUME NEW g \in stops PROVE <<a, g>> \in claimsOn["ticket"]
        <5>1. CASE g \in Askers
          BY <1>1, <1>4, <2>1, <4>1, <5>1 DEF TicketShape
        <5>2. CASE g \in Finders
          BY <1>1, <1>4, <2>1, <4>1, <5>2 DEF TicketShape
        <5> QED BY <1>4, <4>1, <5>1, <5>2
      <4> QED BY <4>1
    <3> QED BY <1>2, <1>3, <2>1, <3>1
  <2> QED BY <2>1
<1>6. h \notin stops
  <2>1. ASSUME h \in stops PROVE FALSE
    <3>1. \A g \in stops : <<h, g>> \in claimsOn["ticket"]
      BY <1>1, <1>4, <1>5, <2>1 DEF TicketShape
    <3> QED BY <1>2, <1>3, <2>1, <3>1
  <2> QED BY <2>1
<1>7. LetGo(h)
  BY <1>1, <1>6 DEF HoldsAgainst, IsItemClaim
<1> HIDE DEF stops
<1> QED BY <1>1, <1>3, <1>7 DEF LapsedFor, Lapsed

\* What a claim that joins adds.
LEMMA JoinedHas ==
  ASSUME NEW r \in WorkRows, NEW k \in ClaimKeys, NEW c, c \in [ClaimKeys -> SUBSET (WorkRows \X WorkRows)],
         claimsOn' = Joined(c, k, r)
  PROVE  /\ claimsOn' \in [ClaimKeys -> SUBSET (WorkRows \X WorkRows)]
         /\ \A j \in ClaimKeys : j # k => claimsOn'[j] = c[j]
         /\ \A j \in ClaimKeys : c[j] \subseteq claimsOn'[j]
         /\ \A g, h \in WorkRows : <<g, h>> \in claimsOn'[k] <=>
              <<g, h>> \in c[k] \/ (h = r /\ (g = r \/ <<g, g>> \in c[k]))
<1>1. PICK new : new = c[k] \cup ({h \in WorkRows : h = r \/ <<h, h>> \in c[k]} \X {r})
  OBVIOUS
<1>2. claimsOn' = [c EXCEPT ![k] = new]
  BY <1>1 DEF Joined
<1>3. new \subseteq WorkRows \X WorkRows /\ c[k] \subseteq new
  BY <1>1
<1>4. \A g, h \in WorkRows : <<g, h>> \in new <=> <<g, h>> \in c[k] \/ (h = r /\ (g = r \/ <<g, g>> \in c[k]))
  BY <1>1
<1> QED BY <1>2, <1>3, <1>4

\* The shape of the claims c, as of claimsOn.
Shaped(c) ==
  /\ c \in [ClaimKeys -> SUBSET (WorkRows \X WorkRows)]
  /\ \A j \in ClaimKeys : \A g, h \in WorkRows : <<g, h>> \in c[j] => <<g, g>> \in c[j] /\ <<h, h>> \in c[j]
  /\ \A g, h \in WorkRows : <<g, g>> \in c["field"] /\ <<h, h>> \in c["field"] => g = h
  /\ \A g, h \in Finders : <<g, g>> \in c["ticket"] /\ <<h, h>> \in c["ticket"] => g = h
  /\ \A g, h \in Askers : <<g, g>> \in c["ticket"] /\ <<h, h>> \in c["ticket"] => g = h
  /\ \A a \in Askers, f \in Finders : <<a, a>> \in c["ticket"] /\ <<f, f>> \in c["ticket"] =>
       <<a, f>> \in c["ticket"] /\ <<f, a>> \notin c["ticket"]

LEMMA WithoutShaped ==
  ASSUME ClaimTypeOK, ClaimsShape, NEW cs
  PROVE  Shaped(Without(cs))
<1>1. PICK c : c = Without(cs)
  OBVIOUS
<1>2. \A k \in ClaimKeys : \A g, h \in WorkRows :
        <<g, h>> \in c[k] <=> <<g, h>> \in claimsOn[k] /\ <<g, k>> \notin cs /\ <<h, k>> \notin cs
  BY <1>1, ReleaseClaims
<1>3. c \in [ClaimKeys -> SUBSET (WorkRows \X WorkRows)]
  BY <1>1, ReleaseTypes
<1>4. \A k \in ClaimKeys : \A x : x \in Holders(k) <=> x \in WorkRows /\ <<x, x>> \in claimsOn[k]
  BY DEF Holders, HeldBy
<1>5. \A j \in ClaimKeys : \A g, h \in WorkRows : <<g, h>> \in claimsOn[j] => <<g, g>> \in claimsOn[j] /\ <<h, h>> \in claimsOn[j]
  BY DEF ClaimsShape, HoldersMeet, HeldBy
<1>6. \A j \in ClaimKeys : \A g, h \in WorkRows : <<g, h>> \in c[j] => <<g, g>> \in c[j] /\ <<h, h>> \in c[j]
  BY <1>2, <1>5
<1>7. \A g, h \in WorkRows : <<g, g>> \in c["field"] /\ <<h, h>> \in c["field"] => g = h
  BY <1>2, <1>4 DEF ClaimsShape, FieldShape
<1>8. \A g, h \in WorkRows : <<g, g>> \in c["ticket"] /\ <<h, h>> \in c["ticket"] =>
        g \in Holders("ticket") /\ h \in Holders("ticket")
  BY <1>2, <1>4
<1>9. \A g, h \in Finders : <<g, g>> \in c["ticket"] /\ <<h, h>> \in c["ticket"] => g = h
  BY <1>8 DEF ClaimsShape, TicketShape
<1>10. \A g, h \in Askers : <<g, g>> \in c["ticket"] /\ <<h, h>> \in c["ticket"] => g = h
  BY <1>8 DEF ClaimsShape, TicketShape
<1>11. \A a \in Askers, f \in Finders : <<a, a>> \in c["ticket"] /\ <<f, f>> \in c["ticket"] =>
         <<a, f>> \in c["ticket"] /\ <<f, a>> \notin c["ticket"]
  <2>1. ASSUME NEW a \in Askers, NEW f \in Finders, <<a, a>> \in c["ticket"], <<f, f>> \in c["ticket"]
        PROVE  <<a, f>> \in c["ticket"] /\ <<f, a>> \notin c["ticket"]
    <3>1. <<a, "ticket">> \notin cs /\ <<f, "ticket">> \notin cs
      BY <1>2, <2>1
    <3>2. <<a, f>> \in claimsOn["ticket"] /\ <<f, a>> \notin claimsOn["ticket"]
      BY <1>8, <2>1 DEF ClaimsShape, TicketShape
    <3> QED BY <1>2, <2>1, <3>1, <3>2
  <2> QED BY <2>1
<1> QED BY <1>1, <1>3, <1>6, <1>7, <1>9, <1>10, <1>11 DEF Shaped

\* A claim may join a key when, of the claims that are left on it, none is of
\* its row, and none of a finder, for a finder's on the ticket, and none at
\* all otherwise.
LEMMA ShapeJoined ==
  ASSUME NEW r \in WorkRows, NEW k \in ClaimKeys, NEW c, Shaped(c),
         <<r, r>> \notin c[k],
         \A h \in WorkRows : <<h, h>> \in c[k] => k = "ticket" /\ h \in Askers /\ r \in Finders,
         claimsOn' = Joined(c, k, r)
  PROVE  ClaimsShape'
<1>1. /\ claimsOn' \in [ClaimKeys -> SUBSET (WorkRows \X WorkRows)]
      /\ \A j \in ClaimKeys : j # k => claimsOn'[j] = c[j]
      /\ \A g, h \in WorkRows : <<g, h>> \in claimsOn'[k] <=>
           <<g, h>> \in c[k] \/ (h = r /\ (g = r \/ <<g, g>> \in c[k]))
  <2>1. c \in [ClaimKeys -> SUBSET (WorkRows \X WorkRows)]
    BY DEF Shaped
  <2> QED BY <2>1, JoinedHas
<1>2. HoldersMeet'
  <2>1. ASSUME NEW j \in ClaimKeys, NEW p \in claimsOn'[j]
        PROVE  <<p[1], p[1]>> \in claimsOn'[j] /\ <<p[2], p[2]>> \in claimsOn'[j]
    <3>1. p[1] \in WorkRows /\ p[2] \in WorkRows /\ p = <<p[1], p[2]>>
      BY <1>1
    <3>2. PICK g \in WorkRows, h \in WorkRows : p = <<g, h>>
      BY <3>1
    <3>3. <<g, g>> \in claimsOn'[j] /\ <<h, h>> \in claimsOn'[j]
      <4>1. CASE j = k
        BY <1>1, <3>2, <4>1 DEF Shaped
      <4>2. CASE j # k
        BY <1>1, <3>2, <4>2 DEF Shaped
      <4> QED BY <4>1, <4>2
    <3> QED BY <3>2, <3>3
  <2> QED BY <2>1 DEF HoldersMeet, HeldBy
<1>3. \A j \in ClaimKeys : \A x : x \in Holders(j)' <=> x \in WorkRows /\ <<x, x>> \in claimsOn'[j]
  BY DEF Holders, HeldBy
<1>4. CASE k = "ticket"
  <2>1. FieldShape'
    BY <1>1, <1>3, <1>4 DEF FieldShape, Shaped
  <2>2. \A x \in WorkRows : <<x, x>> \in claimsOn'["ticket"] <=> x = r \/ <<x, x>> \in c["ticket"]
    BY <1>1, <1>4
  <2>3. TicketShape'
    <3>1. \A g, h \in Holders("ticket")' : g \in Finders /\ h \in Finders => g = h
      BY <1>3, <1>4, <2>2 DEF Shaped
    <3>2. \A g, h \in Holders("ticket")' : g \in Askers /\ h \in Askers => g = h
      <4>1. ASSUME NEW g \in Askers, NEW h \in Askers, g \in WorkRows, h \in WorkRows,
                   <<g, g>> \in claimsOn'["ticket"], <<h, h>> \in claimsOn'["ticket"]
            PROVE  g = h
        <5>1. (g = r \/ <<g, g>> \in c["ticket"]) /\ (h = r \/ <<h, h>> \in c["ticket"])
          BY <2>2, <4>1
        <5>2. r \in Askers => g = r /\ h = r
          BY <1>4, <4>1, <5>1
        <5>3. r \notin Askers => <<g, g>> \in c["ticket"] /\ <<h, h>> \in c["ticket"]
          BY <5>1
        <5> QED BY <4>1, <5>2, <5>3 DEF Shaped
      <4> QED BY <1>3, <4>1
    <3>3. \A a, f \in Holders("ticket")' : a \in Askers /\ f \in Finders =>
            <<a, f>> \in claimsOn'["ticket"] /\ <<f, a>> \notin claimsOn'["ticket"]
      <4>1. ASSUME NEW a \in Askers, NEW f \in Finders, a \in WorkRows, f \in WorkRows,
                   <<a, a>> \in claimsOn'["ticket"], <<f, f>> \in claimsOn'["ticket"]
            PROVE  <<a, f>> \in claimsOn'["ticket"] /\ <<f, a>> \notin claimsOn'["ticket"]
        <5>1. f = r /\ a # r
          BY <1>4, <2>2, <4>1
        <5>2. <<a, a>> \in c["ticket"] /\ <<f, a>> \notin c["ticket"]
          BY <1>4, <2>2, <4>1, <5>1 DEF Shaped
        <5> QED BY <1>1, <1>4, <4>1, <5>1, <5>2
      <4> QED BY <1>3, <4>1
    <3> QED BY <3>1, <3>2, <3>3 DEF TicketShape
  <2> QED BY <1>2, <2>1, <2>3 DEF ClaimsShape
<1>5. CASE k = "field"
  <2>1. \A x \in WorkRows : <<x, x>> \in claimsOn'["field"] => x = r
    BY <1>1, <1>5
  <2>2. FieldShape'
    <3>1. \A x \in Holders("field")' : x = r
      BY <1>3, <2>1
    <3> QED BY <3>1 DEF FieldShape
  <2>3. claimsOn'["ticket"] = c["ticket"]
    BY <1>1, <1>5
  <2>4. TicketShape'
    BY <1>3, <2>3 DEF TicketShape, Shaped
  <2> QED BY <1>2, <2>2, <2>4 DEF ClaimsShape
<1> QED BY <1>4, <1>5

\* A row that takes its item takes it from nobody.
LEMMA TakeKeeps ==
  ASSUME ClaimInv, NEW r \in WorkRows, NEW st \in ItemStates, TakeItem(r, st),
         work[r] \notin {"skipped", "executing"}, UNCHANGED <<settled, run>>,
         waived' \subseteq WorkRows, sendBacks' \in 0..MaxSendBacks
  PROVE  ClaimInv'
<1>1. PICK cs : cs = LapsedFor(r)
  OBVIOUS
<1>2. ClaimTypeOK /\ ClaimsShape /\ RefusedByALiveClaim
  BY DEF ClaimInv
<1>3. run'[r] # "holding" /\ \A x \in WorkRows : run[x] = "holding" => <<x, "field">> \notin cs
  BY <1>1, LapsedLetGo, NoRunHeld
<1>4. /\ work' = [SentBackWith(cs) EXCEPT ![r] = st] /\ refusedBy' = Unrefused(cs)
      /\ claimsOn' = IF r \in Askers \/ HeldBy(r, "ticket") THEN Without(cs)
                     ELSE Joined(Without(cs), "ticket", r)
  BY <1>1 DEF TakeItem
<1>5. CASE r \in Askers \/ HeldBy(r, "ticket")
  <2>1. claimsOn' = Without(cs)
    BY <1>4, <1>5
  <2>2. /\ settled' \in [ClaimKeys -> [WorkRows -> SUBSET WorkRows]]
        /\ \A x \in WorkRows \ {r} : settled'["field"][x] = settled["field"][x]
    BY <1>2 DEF ClaimTypeOK
  <2> QED BY <1>3, <1>4, <2>1, <2>2, MoveKeeps
<1>6. CASE ~(r \in Askers \/ HeldBy(r, "ticket"))
  <2>1. PICK left : left = Without(cs)
    OBVIOUS
  <2>2. claimsOn' = Joined(left, "ticket", r) /\ r \in Finders /\ ~HeldBy(r, "ticket")
    BY <1>4, <1>6, <2>1
  <2>3. Shaped(left)
    BY <1>2, <2>1, WithoutShaped
  <2>4. left \in [ClaimKeys -> SUBSET (WorkRows \X WorkRows)]
    BY <2>3 DEF Shaped
  <2>5. /\ claimsOn' \in [ClaimKeys -> SUBSET (WorkRows \X WorkRows)]
        /\ \A j \in ClaimKeys : left[j] \subseteq claimsOn'[j]
    BY <2>2, <2>4, JoinedHas
  <2>6. \A h \in WorkRows : <<h, h>> \in left["ticket"] => h \in Askers
    <3>1. ASSUME NEW h \in Finders, <<h, h>> \in left["ticket"]
          PROVE  FALSE
      <4>1. HeldBy(h, "ticket") /\ <<h, "ticket">> \notin cs
        BY <1>2, <2>1, <3>1, ReleaseClaims DEF HeldBy
      <4>2. Unheld(r)
        BY DEF TakeItem
      <4> QED BY <1>1, <2>2, <4>1, <4>2, UnheldIsFree
    <3> QED BY <3>1
  <2>7. <<r, r>> \notin left["ticket"]
    BY <2>2, <2>6
  <2>8. ClaimsShape'
    BY <2>2, <2>3, <2>6, <2>7, ShapeJoined
  <2>9. /\ SentBackWith(cs) \in [WorkRows -> ItemStates] /\ Unrefused(cs) \in [WorkRows -> Refusals]
    BY <1>2, ReleaseTypes
  <2>10. /\ work' \in [WorkRows -> ItemStates]
         /\ \A x \in WorkRows \ {r} : work'[x] = SentBackWith(cs)[x]
    BY <1>4, <2>9
  <2>11. ClaimTypeOK'
    BY <1>2, <1>4, <2>5, <2>9, <2>10 DEF ClaimTypeOK, Refusals
  <2>12. refusedBy'[r] = NoRefusal
    <3>1. refusedBy[r] = NoRefusal
      BY NotRefused
    <3> QED BY <1>4, <3>1, ReleaseRows
  <2>13. \A k \in ClaimKeys : Without(cs)[k] \subseteq claimsOn'[k]
    BY <2>1, <2>5
  <2>14. \A x \in WorkRows \ {r} : work'[x] = SentBackWith(cs)[x] /\ refusedBy'[x] = Unrefused(cs)[x]
    BY <1>4, <2>10
  <2>15. RefusedByALiveClaim'
    BY <1>2, <2>12, <2>13, <2>14, RefusedKept
  <2>16. Without(cs)["field"] \subseteq claimsOn'["field"]
    BY <2>13
  <2>17. RunsHold'
    BY <1>3, <2>14, <2>16, RunsKept
  <2> QED BY <2>8, <2>11, <2>15, <2>17 DEF ClaimInv
<1> QED BY <1>5, <1>6

\* A row that goes for the field takes it from nobody whose run holds it.
LEMMA FieldTaken ==
  ASSUME ClaimInv, NEW r \in WorkRows, TakeField(r)
  PROVE  ClaimInv'
<1>1. PICK cs : cs = GivesWay(r)
  OBVIOUS
<1>2. PICK left : left = Without(cs)
  OBVIOUS
<1>3. ClaimTypeOK /\ ClaimsShape /\ RefusedByALiveClaim /\ RunsHold
  BY DEF ClaimInv
<1>4. work[r] = "executing" /\ refusedBy[r] = NoRefusal
  BY NotRefused DEF TakeField
<1>5. /\ claimsOn' = IF left["field"] = {} THEN Joined(left, "field", r) ELSE left
      /\ run' = [run EXCEPT ![r] = IF left["field"] \in {{}, {<<r, r>>}} THEN "holding" ELSE "told"]
      /\ work' = SentBackWith(cs) /\ refusedBy' = Unrefused(cs)
      /\ settled' = [settled EXCEPT !["field"][r] = {}]
      /\ UNCHANGED <<waived, sendBacks>>
  BY <1>1, <1>2 DEF TakeField, Reopened
<1>6. \A x \in WorkRows : run[x] = "holding" => <<x, "field">> \notin cs
  <2>1. ASSUME NEW x \in WorkRows, run[x] = "holding", <<x, "field">> \in cs
        PROVE  FALSE
    <3>1. LetGo(x) \/ ~HoldsAgainst(x, "field", r)
      BY <1>1, <2>1 DEF GivesWay
    <3>2. work[x] = "executing" /\ settled["field"][x] = {}
      BY <1>3, <2>1 DEF RunsHold
    <3> QED BY <3>1, <3>2 DEF LetGo, HoldsAgainst
  <2> QED BY <2>1
<1>7. Shaped(left)
  BY <1>2, <1>3, WithoutShaped
<1>8. left \in [ClaimKeys -> SUBSET (WorkRows \X WorkRows)]
  BY <1>7 DEF Shaped
<1>9. /\ ClaimsShape'
      /\ claimsOn' \in [ClaimKeys -> SUBSET (WorkRows \X WorkRows)]
      /\ \A j \in ClaimKeys : left[j] \subseteq claimsOn'[j]
      /\ left["field"] \in {{}, {<<r, r>>}} => <<r, r>> \in claimsOn'["field"]
  <2>1. CASE left["field"] = {}
    <3>1. claimsOn' = Joined(left, "field", r)
      BY <1>5, <2>1
    <3>2. /\ claimsOn' \in [ClaimKeys -> SUBSET (WorkRows \X WorkRows)]
          /\ \A j \in ClaimKeys : left[j] \subseteq claimsOn'[j]
          /\ <<r, r>> \in claimsOn'["field"]
      BY <1>8, <3>1, JoinedHas
    <3>3. ClaimsShape'
      BY <1>7, <2>1, <3>1, ShapeJoined
    <3> QED BY <3>2, <3>3
  <2>2. CASE left["field"] # {}
    <3>1. claimsOn' = Without(cs)
      BY <1>2, <1>5, <2>2
    <3>2. ClaimsShape'
      BY <1>3, <3>1, ShapeWithout
    <3> QED BY <1>2, <1>8, <2>2, <3>1, <3>2
  <2> QED BY <2>1, <2>2
<1>10. SentBackWith(cs) \in [WorkRows -> ItemStates] /\ Unrefused(cs) \in [WorkRows -> Refusals]
  BY <1>3, ReleaseTypes
<1>11. /\ run \in [WorkRows -> {"none", "begun", "plain", "holding", "told", "cleared", "applied"}]
       /\ settled \in [ClaimKeys -> [WorkRows -> SUBSET WorkRows]]
  BY <1>3 DEF ClaimTypeOK
<1>12. /\ run' \in [WorkRows -> {"none", "begun", "plain", "holding", "told", "cleared", "applied"}]
       /\ run'[r] = "holding" => left["field"] \in {{}, {<<r, r>>}}
       /\ \A x \in WorkRows \ {r} : run'[x] = run[x]
  BY <1>5, <1>11
<1>13. /\ settled' \in [ClaimKeys -> [WorkRows -> SUBSET WorkRows]] /\ settled'["field"][r] = {}
       /\ \A x \in WorkRows \ {r} : settled'["field"][x] = settled["field"][x]
  BY <1>5, <1>11
<1>14. ClaimTypeOK'
  BY <1>3, <1>5, <1>9, <1>10, <1>12, <1>13 DEF ClaimTypeOK, Refusals
<1>15. refusedBy'[r] = NoRefusal /\ work'[r] = "executing"
  BY <1>4, <1>5, ReleaseRows
<1>16. \A k \in ClaimKeys : Without(cs)[k] \subseteq claimsOn'[k]
  BY <1>2, <1>9
<1>17. RefusedByALiveClaim'
  BY <1>3, <1>5, <1>15, <1>16, RefusedKept
<1>18. Without(cs)["field"] \subseteq claimsOn'["field"]
  BY <1>16
<1>19. RunsHold'
  BY <1>5, <1>6, <1>9, <1>12, <1>13, <1>15, <1>18, RunsKept
<1> QED BY <1>9, <1>14, <1>17, <1>19 DEF ClaimInv

\* A run that wrote the ticket claims it of nobody.
LEMMA LandedClaimed ==
  ASSUME ClaimInv, NEW r \in WorkRows, ClaimLanded(r)
  PROVE  ClaimInv'
<1>1. ClaimTypeOK /\ ClaimsShape /\ RefusedByALiveClaim
  BY DEF ClaimInv
<1>2. Without({}) = claimsOn /\ Unrefused({}) = refusedBy /\ SentBackWith({}) = work
  BY <1>1, NothingReleased
<1>3. /\ run' = [run EXCEPT ![r] = "applied"] /\ UNCHANGED <<work, refusedBy, waived, sendBacks>>
      /\ claimsOn' = IF r \in Askers /\ claimsOn["ticket"] = {} THEN Joined(claimsOn, "ticket", r) ELSE claimsOn
      /\ settled' = IF claimsOn' = claimsOn THEN settled ELSE [settled EXCEPT !["ticket"][r] = {}]
  BY DEF ClaimLanded
<1>4. Shaped(claimsOn)
  BY <1>1, <1>2, WithoutShaped
<1>5. claimsOn \in [ClaimKeys -> SUBSET (WorkRows \X WorkRows)]
  BY <1>1 DEF ClaimTypeOK
<1>6. /\ ClaimsShape'
      /\ claimsOn' \in [ClaimKeys -> SUBSET (WorkRows \X WorkRows)]
      /\ \A j \in ClaimKeys : claimsOn[j] \subseteq claimsOn'[j]
  <2>1. CASE r \in Askers /\ claimsOn["ticket"] = {}
    <3>1. claimsOn' = Joined(claimsOn, "ticket", r)
      BY <1>3, <2>1
    <3>2. /\ claimsOn' \in [ClaimKeys -> SUBSET (WorkRows \X WorkRows)]
          /\ \A j \in ClaimKeys : claimsOn[j] \subseteq claimsOn'[j]
      BY <1>5, <3>1, JoinedHas
    <3>3. ClaimsShape'
      BY <1>4, <2>1, <3>1, ShapeJoined
    <3> QED BY <3>2, <3>3
  <2>2. CASE ~(r \in Askers /\ claimsOn["ticket"] = {})
    <3>1. claimsOn' = Without({})
      BY <1>2, <1>3, <2>2
    <3>2. ClaimsShape'
      BY <1>1, <3>1, ShapeWithout
    <3> QED BY <1>2, <1>5, <3>1, <3>2
  <2> QED BY <2>1, <2>2
<1>7. /\ run \in [WorkRows -> {"none", "begun", "plain", "holding", "told", "cleared", "applied"}]
      /\ settled \in [ClaimKeys -> [WorkRows -> SUBSET WorkRows]]
  BY <1>1 DEF ClaimTypeOK
<1>8. /\ run' \in [WorkRows -> {"none", "begun", "plain", "holding", "told", "cleared", "applied"}]
      /\ run'[r] # "holding" /\ \A x \in WorkRows \ {r} : run'[x] = run[x]
  BY <1>3, <1>7
<1>9. settled' \in [ClaimKeys -> [WorkRows -> SUBSET WorkRows]] /\ settled'["field"] = settled["field"]
  BY <1>3, <1>7
<1>10. ClaimTypeOK'
  BY <1>1, <1>3, <1>6, <1>8, <1>9 DEF ClaimTypeOK
<1>11. /\ \A k \in ClaimKeys : Without({})[k] \subseteq claimsOn'[k]
       /\ Without({})["field"] \subseteq claimsOn'["field"]
  BY <1>2, <1>6
<1>12. refusedBy'[r] = NoRefusal
  BY <1>3, NotRefused DEF ClaimLanded
<1>13. RefusedByALiveClaim'
  BY <1>1, <1>2, <1>3, <1>11, <1>12, RefusedKept
<1>14. RunsHold'
  BY <1>2, <1>3, <1>8, <1>9, <1>11, RunsKept
<1> QED BY <1>6, <1>10, <1>13, <1>14 DEF ClaimInv

-----------------------------------------------------------------------------
(* The steps, one by one. *)

\* A row moves, its run where it was or further on, and nothing else.
LEMMA JustMoves ==
  ASSUME ClaimInv, NEW r \in WorkRows, NEW st \in ItemStates, work[r] # "skipped" \/ st = "skipped",
         work' = [work EXCEPT ![r] = st], UNCHANGED <<refusedBy, claimsOn, settled, waived, run>>,
         sendBacks' \in 0..MaxSendBacks, work[r] # "executing"
  PROVE  ClaimInv'
<1>1. waived' \subseteq WorkRows /\ run[r] # "holding"
      /\ run[r] \in {"none", "begun", "plain", "holding", "told", "cleared", "applied"}
      /\ run' = [run EXCEPT ![r] = run[r]]
  BY NoRunHeld DEF ClaimInv, ClaimTypeOK
<1> QED BY <1>1, QuietStep

LEMMA RunMoves ==
  ASSUME ClaimInv, NEW r \in WorkRows, NEW at \in {"plain", "cleared", "applied"},
         run' = [run EXCEPT ![r] = at],
         UNCHANGED <<work, refusedBy, claimsOn, settled, waived, sendBacks>>
  PROVE  ClaimInv'
<1>1. /\ waived' \subseteq WorkRows /\ sendBacks' \in 0..MaxSendBacks
      /\ work[r] \in ItemStates /\ work' = [work EXCEPT ![r] = work[r]]
  BY DEF ClaimInv, ClaimTypeOK
<1>2. at \in {"none", "begun", "plain", "holding", "told", "cleared", "applied"} /\ at # "holding"
  OBVIOUS
<1>3. work[r] # "skipped" \/ work[r] = "skipped"
  OBVIOUS
<1> QED BY <1>1, <1>2, <1>3, QuietStep

LEMMA Judged ==
  ASSUME ClaimInv, NEW r \in WorkRows, BeginEvaluation(r) \/ VerdictClaims(r) \/ VerdictParks(r)
  PROVE  ClaimInv'
<1>1. PICK cs : cs = LapsedFor(r)
  OBVIOUS
<1>2. ClaimTypeOK /\ work[r] \in {"discovered", "needsSkill"} /\ work[r] # "skipped" /\ work[r] # "executing"
  BY DEF ClaimInv, BeginEvaluation, VerdictClaims, VerdictParks, MayTakeClaims
<1>3. UNCHANGED <<settled, waived, run, sendBacks>>
  BY DEF BeginEvaluation, VerdictClaims, VerdictParks
<1>4. CASE \E c \in ItemHolder(r) \cup SettledFor(r) : Refuse(r, c, LapsedFor(r))
  BY <1>2, <1>3, <1>4, RefuseKeeps
<1>5. CASE TakeItem(r, "claimed")
  BY <1>2, <1>3, <1>5, TakeKeeps DEF ClaimTypeOK, ItemStates
<1>6. CASE /\ \E st \in ItemStates : work' = [SentBackWith(cs) EXCEPT ![r] = st]
           /\ refusedBy' = Unrefused(cs) /\ claimsOn' = Without(cs)
  <2>1. PICK st \in ItemStates : work' = [SentBackWith(cs) EXCEPT ![r] = st]
    BY <1>6
  <2>2. run'[r] # "holding" /\ \A x \in WorkRows : run[x] = "holding" => <<x, "field">> \notin cs
    BY <1>1, <1>2, <1>3, LapsedLetGo, NoRunHeld
  <2>3. /\ waived' \subseteq WorkRows /\ sendBacks' \in 0..MaxSendBacks
        /\ settled' \in [ClaimKeys -> [WorkRows -> SUBSET WorkRows]]
        /\ \A x \in WorkRows \ {r} : settled'["field"][x] = settled["field"][x]
    BY <1>2, <1>3 DEF ClaimTypeOK
  <2> QED BY <1>2, <1>3, <1>6, <2>1, <2>2, <2>3, MoveKeeps
<1>7. CASE BeginEvaluation(r)
  <2>1. CASE work' = SentBackWith(cs) /\ refusedBy' = Unrefused(cs) /\ claimsOn' = Without(cs)
    <3>1. SentBackWith(cs) \in [WorkRows -> ItemStates]
      BY <1>2, ReleaseTypes
    <3>2. work' = [SentBackWith(cs) EXCEPT ![r] = SentBackWith(cs)[r]] /\ SentBackWith(cs)[r] \in ItemStates
      BY <2>1, <3>1
    <3> QED BY <1>6, <2>1, <3>2
  <2> QED BY <1>1, <1>4, <1>7, <2>1 DEF BeginEvaluation
<1>8. CASE VerdictClaims(r)
  BY <1>4, <1>5, <1>8 DEF VerdictClaims
<1>9. CASE VerdictParks(r)
  <2>1. "needsSkill" \in ItemStates
    BY DEF ItemStates
  <2> QED BY <1>1, <1>4, <1>6, <1>9, <2>1 DEF VerdictParks
<1> QED BY <1>7, <1>8, <1>9

\* A run that ends releases nothing of the field, and opens no settled claim.
LEMMA Ended ==
  ASSUME ClaimInv, NEW r \in WorkRows, CompleteRun(r) \/ FailRun(r) \/ RejectActions(r)
  PROVE  ClaimInv'
<1>1. PICK st \in ItemStates, cs \in {{}, {c \in ClaimsOf(r) : IsItemClaim(c[1], c[2])}} : EndRun(r, st, cs)
  BY DEF CompleteRun, FailRun, RejectActions, ItemStates
<1>2. work[r] = "executing" /\ work[r] # "skipped"
  BY DEF CompleteRun, FailRun, RejectActions
<1>3. ClaimTypeOK
  BY DEF ClaimInv
<1>4. /\ work' = [SentBackWith(cs) EXCEPT ![r] = st] /\ refusedBy' = Unrefused(cs)
      /\ claimsOn' = Without(cs) /\ settled' = Settled(r) /\ run' = [run EXCEPT ![r] = "none"]
      /\ UNCHANGED <<waived, sendBacks>>
  BY <1>1 DEF EndRun
<1>5. \A x \in WorkRows : <<x, "field">> \notin cs
  BY <1>1 DEF IsItemClaim
<1>6. settled \in [ClaimKeys -> [WorkRows -> SUBSET WorkRows]]
  BY <1>3 DEF ClaimTypeOK
<1>7. /\ Settled(r) \in [ClaimKeys -> [WorkRows -> SUBSET WorkRows]]
      /\ \A x \in WorkRows \ {r} : Settled(r)["field"][x] = settled["field"][x]
  <2>1. PICK existing : existing = {x \in WorkRows : work[x] # "absent"}
    OBVIOUS
  <2>2. Settled(r) = [k \in ClaimKeys |-> IF HeldBy(r, k) /\ ~IsItemClaim(r, k)
                                          THEN [settled[k] EXCEPT ![r] = existing] ELSE settled[k]]
    BY <2>1 DEF Settled
  <2>3. existing \in SUBSET WorkRows
    BY <2>1
  <2>4. \A k \in ClaimKeys : [settled[k] EXCEPT ![r] = existing] \in [WorkRows -> SUBSET WorkRows]
    BY <1>6, <2>3
  <2>5. \A x \in WorkRows \ {r} : [settled["field"] EXCEPT ![r] = existing][x] = settled["field"][x]
    BY <1>6
  <2> QED BY <1>6, <2>2, <2>4, <2>5
<1>8. run'[r] = "none" /\ waived' \subseteq WorkRows /\ sendBacks' \in 0..MaxSendBacks
  BY <1>3, <1>4 DEF ClaimTypeOK
<1>9. /\ settled' \in [ClaimKeys -> [WorkRows -> SUBSET WorkRows]]
      /\ \A x \in WorkRows \ {r} : settled'["field"][x] = settled["field"][x]
  BY <1>4, <1>7
<1> QED BY <1>2, <1>4, <1>5, <1>8, <1>9, MoveKeeps

LEMMA LetGone ==
  ASSUME ClaimInv, NEW r \in WorkRows, Cancel(r) \/ WithdrawTicket(r)
  PROVE  ClaimInv'
<1>1. PICK st \in ItemStates : LetGoOf(r, st)
  BY DEF Cancel, WithdrawTicket, ItemStates
<1>2. PICK cs : cs = ClaimsOf(r)
  OBVIOUS
<1>3. work[r] # "executing" /\ work[r] # "skipped"
  BY DEF Cancel, WithdrawTicket
<1>4. /\ work' = [SentBackWith(cs) EXCEPT ![r] = st] /\ refusedBy' = Unrefused(cs)
      /\ claimsOn' = Without(cs) /\ UNCHANGED <<settled, waived, run, sendBacks>>
  BY <1>1, <1>2 DEF LetGoOf
<1>5. \A x \in WorkRows : run[x] = "holding" => <<x, "field">> \notin cs
  BY <1>2, <1>3, NoRunHeld DEF ClaimsOf
<1>6. /\ waived' \subseteq WorkRows /\ sendBacks' \in 0..MaxSendBacks /\ run'[r] # "holding"
      /\ settled' \in [ClaimKeys -> [WorkRows -> SUBSET WorkRows]]
      /\ \A x \in WorkRows \ {r} : settled'["field"][x] = settled["field"][x]
  BY <1>3, <1>4, NoRunHeld DEF ClaimInv, ClaimTypeOK
<1> QED BY <1>3, <1>4, <1>5, <1>6, MoveKeeps

LEMMA RowRetried ==
  ASSUME ClaimInv, NEW r \in WorkRows, RetryRow(r)
  PROVE  ClaimInv'
<1>1. ClaimTypeOK
  BY DEF ClaimInv
<1>2. sendBacks' \in 0..MaxSendBacks /\ UNCHANGED <<settled, run>>
  BY <1>1, SendBackAssumption DEF RetryRow, ClaimTypeOK
<1>3. CASE /\ work[r] = "skipped" /\ work' = [work EXCEPT ![r] = "discovered"]
           /\ refusedBy' = [refusedBy EXCEPT ![r] = NoRefusal]
           /\ waived' = (IF refusedBy[r] = NoRefusal THEN waived ELSE waived \cup {r})
           /\ UNCHANGED claimsOn
  <2>1. Without({}) = claimsOn /\ Unrefused({}) = refusedBy /\ SentBackWith({}) = work
    BY <1>1, NothingReleased
  <2>2. "discovered" \in ItemStates /\ waived' \subseteq WorkRows
    BY <1>1, <1>3 DEF ItemStates, ClaimTypeOK
  <2>3. work \in [WorkRows -> ItemStates] /\ refusedBy \in [WorkRows -> Refusals]
    BY <1>1 DEF ClaimTypeOK, Refusals
  <2>4. /\ work' \in [WorkRows -> ItemStates] /\ refusedBy' \in [WorkRows -> Refusals]
        /\ refusedBy'[r] = NoRefusal
        /\ \A x \in WorkRows \ {r} : work'[x] = work[x] /\ refusedBy'[x] = refusedBy[x]
    BY <1>3, <2>2, <2>3 DEF Refusals
  <2>5. ClaimTypeOK'
    BY <1>1, <1>2, <1>3, <2>2, <2>4 DEF ClaimTypeOK, Refusals
  <2>6. run'[r] # "holding" /\ \A x \in WorkRows : run[x] = "holding" => <<x, "field">> \notin {}
    BY <1>2, <1>3, NoRunHeld
  <2>7. \A x \in WorkRows \ {r} :
          /\ work'[x] = SentBackWith({})[x] /\ refusedBy'[x] = Unrefused({})[x]
          /\ run'[x] = run[x] /\ settled'["field"][x] = settled["field"][x]
    BY <1>2, <2>1, <2>4
  <2>8. claimsOn' = Without({})
    BY <1>3, <2>1
  <2> QED BY <2>4, <2>5, <2>6, <2>7, <2>8, ReleaseStep
<1>4. CASE /\ work[r] \in {"completed", "failed", "cancelled", "withdrawn"} /\ UNCHANGED waived
           /\ \E st \in {"claimed", "planned"} : TakeItem(r, st)
  <2>1. PICK st \in {"claimed", "planned"} : TakeItem(r, st)
    BY <1>4
  <2>2. st \in ItemStates /\ waived' \subseteq WorkRows
    BY <1>1, <1>4 DEF ItemStates, ClaimTypeOK
  <2> QED BY <1>2, <1>4, <2>1, <2>2, TakeKeeps
<1>5. CASE /\ work[r] \in {"cancelled", "withdrawn"} /\ work' = [work EXCEPT ![r] = "discovered"]
           /\ UNCHANGED <<refusedBy, claimsOn, waived>>
  BY <1>2, <1>5, JustMoves DEF ItemStates
<1> QED BY <1>3, <1>4, <1>5 DEF RetryRow

LEMMA Begun ==
  ASSUME ClaimInv, NEW r \in WorkRows, BeginRun(r)
  PROVE  ClaimInv'
<1>1. "executing" \in ItemStates
  BY DEF ItemStates
<1>2. waived' \subseteq WorkRows /\ sendBacks' \in 0..MaxSendBacks
  BY DEF BeginRun, ClaimInv, ClaimTypeOK
<1> QED BY <1>1, <1>2, QuietStep DEF BeginRun

LEMMA ClaimStep ==
  ASSUME ClaimInv, [ClaimNext]_claimVars
  PROVE  ClaimInv'
<1>1. CASE UNCHANGED claimVars
  BY <1>1 DEF claimVars, ClaimInv, ClaimTypeOK, ClaimsShape, HoldersMeet, TicketShape, FieldShape,
              Holders, HeldBy, RunsHold, RefusedByALiveClaim
<1>2. ASSUME NEW r \in WorkRows,
             \/ Discover(r) \/ VerdictSkips(r) \/ SkillRegisters(r) \/ DraftPlan(r) \/ ParkForSkill(r)
             \/ ListAgain(r)
      PROVE  ClaimInv'
  <2>1. UNCHANGED <<refusedBy, claimsOn, settled, waived, run>> /\ sendBacks' \in 0..MaxSendBacks
    <3>1. sendBacks \in 0..MaxSendBacks
      BY DEF ClaimInv, ClaimTypeOK
    <3> QED BY <1>2, <3>1, SendBackAssumption
            DEF Discover, VerdictSkips, SkillRegisters, DraftPlan, ParkForSkill, ListAgain
  <2>2. PICK st \in ItemStates : work' = [work EXCEPT ![r] = st] /\ (work[r] # "skipped" \/ st = "skipped")
    BY <1>2 DEF Discover, VerdictSkips, SkillRegisters, DraftPlan, ParkForSkill, ListAgain, MayTakeClaims, ItemStates
  <2>3. work[r] # "executing"
    BY <1>2 DEF Discover, VerdictSkips, SkillRegisters, DraftPlan, ParkForSkill, ListAgain, MayTakeClaims
  <2> QED BY <2>1, <2>2, <2>3, JustMoves
<1>3. ASSUME NEW r \in WorkRows, AuthorPlain(r) \/ AskTheGuard(r) \/ FillField(r)
      PROVE  ClaimInv'
  BY <1>3, RunMoves DEF AuthorPlain, AskTheGuard, FillField
<1> QED BY <1>1, <1>2, <1>3, Judged, Begun, FieldTaken, LandedClaimed, Ended, LetGone, RowRetried DEF ClaimNext

LEMMA ClaimStart == ClaimInit => ClaimInv
<1> SUFFICES ASSUME ClaimInit PROVE ClaimInv
  OBVIOUS
<1>1. ClaimTypeOK
  BY SendBackAssumption DEF ClaimInit, ClaimTypeOK, ItemStates
<1>2. \A k \in ClaimKeys : claimsOn[k] = {}
  BY DEF ClaimInit
<1>3. ClaimsShape
  BY <1>2 DEF ClaimsShape, HoldersMeet, TicketShape, FieldShape, Holders, HeldBy
<1>4. RunsHold /\ RefusedByALiveClaim
  BY DEF ClaimInit, RunsHold, RefusedByALiveClaim
<1> QED BY <1>1, <1>3, <1>4 DEF ClaimInv

LEMMA ClaimInvariant == ClaimSpec => []ClaimInv
BY ClaimStart, ClaimStep, PTL DEF ClaimSpec

-----------------------------------------------------------------------------
\* Of any number of employees' rows, no two that have not let go hold the
\* ticket they were found from, and no two hold the field.
THEOREM ClaimsOneHolder == ClaimSpec => []OneHolder
<1>1. ClaimInv => OneHolder
  BY DEF ClaimInv, ClaimsShape, TicketShape, FieldShape, OneHolder
<1> QED BY <1>1, ClaimInvariant, PTL

\* Whoever was refused for a colleague's claim is behind a claim that stands:
\* every path that releases one sends back whom it refused.
THEOREM ClaimsRefuseWhileHeld == ClaimSpec => []RefusedByALiveClaim
BY ClaimInvariant, PTL DEF ClaimInv

\* A run that took the field holds it until it asks to fill it.
THEOREM ClaimsKeepTheField == ClaimSpec => []FieldKept
<1>1. ClaimInv => FieldKept
  BY DEF ClaimInv, RunsHold, FieldKept
<1> QED BY <1>1, ClaimInvariant, PTL
-----------------------------------------------------------------------------
(***************************************************************************)
(* The claims keep ClaimBook's promise: what a step lets go and takes is   *)
(* what the book says it may.  A field's claim gives way only once it is   *)
(* settled, and it is open while its run has the field.                    *)
(***************************************************************************)

RunsOpen ==
  \A x \in WorkRows : run[x] \in {"holding", "told", "cleared"} =>
    work[x] = "executing" /\ settled["field"][x] = {}

\* A row at work stays where it is when others are sent back.
LEMMA AtWorkStays ==
  ASSUME ClaimInv, NEW cs, NEW x \in WorkRows, work[x] = "executing"
  PROVE  SentBackWith(cs)[x] = "executing"
BY NotRefused, ReleaseRows

\* A step in which only row r moves, and sends others back.
LEMMA OthersOpen ==
  ASSUME ClaimInv, RunsOpen, NEW r \in WorkRows, NEW cs,
         \A x \in WorkRows \ {r} : /\ work'[x] \in {work[x], SentBackWith(cs)[x]} /\ run'[x] = run[x]
                                   /\ settled'["field"][x] = settled["field"][x],
         run'[r] \in {"holding", "told", "cleared"} => work'[r] = "executing" /\ settled'["field"][r] = {}
  PROVE  RunsOpen'
<1>1. \A x \in WorkRows \ {r} : run'[x] \in {"holding", "told", "cleared"} =>
        work'[x] = "executing" /\ settled'["field"][x] = {}
  BY AtWorkStays DEF RunsOpen
<1> QED BY <1>1 DEF RunsOpen

\* A row that is not executing is judged, moved, let go or sent back.
Judging(r) ==
  \/ Discover(r) \/ BeginEvaluation(r) \/ VerdictClaims(r) \/ VerdictParks(r) \/ VerdictSkips(r)
  \/ SkillRegisters(r) \/ DraftPlan(r) \/ ParkForSkill(r) \/ Cancel(r) \/ WithdrawTicket(r)
  \/ ListAgain(r) \/ RetryRow(r)

LEMMA JudgingOpen ==
  ASSUME ClaimInv, RunsOpen, NEW r \in WorkRows, Judging(r)
  PROVE  RunsOpen'
<1>1. work \in [WorkRows -> ItemStates] /\ \A cs : SentBackWith(cs) \in [WorkRows -> ItemStates]
  BY ReleaseTypes DEF ClaimInv, ClaimTypeOK
<1>2. work[r] # "executing" /\ UNCHANGED <<run, settled>>
  BY DEF Judging, Discover, BeginEvaluation, VerdictClaims, VerdictParks, VerdictSkips, SkillRegisters,
         DraftPlan, ParkForSkill, Cancel, WithdrawTicket, LetGoOf, ListAgain, RetryRow, MayTakeClaims
<1>3. \E cs : \/ work' = SentBackWith(cs)
              \/ \E st : work' = [work EXCEPT ![r] = st] \/ work' = [SentBackWith(cs) EXCEPT ![r] = st]
  BY DEF Judging, Discover, BeginEvaluation, VerdictClaims, VerdictParks, VerdictSkips, SkillRegisters,
         DraftPlan, ParkForSkill, Cancel, WithdrawTicket, LetGoOf, ListAgain, RetryRow, TakeItem, Refuse
<1>4. PICK cs : \A x \in WorkRows \ {r} : work'[x] \in {work[x], SentBackWith(cs)[x]}
  BY <1>1, <1>3
<1>5. run'[r] \notin {"holding", "told", "cleared"}
  BY <1>2 DEF RunsOpen
<1> QED BY <1>2, <1>4, <1>5, OthersOpen

LEMMA RunOpen ==
  ASSUME ClaimInv, RunsOpen, NEW r \in WorkRows,
         BeginRun(r) \/ AuthorPlain(r) \/ AskTheGuard(r) \/ FillField(r) \/ ClaimLanded(r)
  PROVE  RunsOpen'
<1>1. /\ work \in [WorkRows -> ItemStates] /\ settled \in [ClaimKeys -> [WorkRows -> SUBSET WorkRows]]
      /\ run \in [WorkRows -> {"none", "begun", "plain", "holding", "told", "cleared", "applied"}]
  BY DEF ClaimInv, ClaimTypeOK
<1>2. settled'["field"] = settled["field"]
  BY <1>1 DEF BeginRun, AuthorPlain, AskTheGuard, FillField, ClaimLanded
<1>3. work' = work \/ work' = [work EXCEPT ![r] = "executing"]
  BY DEF BeginRun, AuthorPlain, AskTheGuard, FillField, ClaimLanded
<1>4. \E at \in {"begun", "plain", "applied", "cleared"} :
        run' = [run EXCEPT ![r] = at] /\ (at = "cleared" => run[r] \in {"holding", "told"} /\ work' = work)
  BY DEF BeginRun, AuthorPlain, AskTheGuard, FillField, ClaimLanded
<1>5. \A x \in WorkRows \ {r} : /\ work'[x] \in {work[x], SentBackWith({})[x]} /\ run'[x] = run[x]
                                 /\ settled'["field"][x] = settled["field"][x]
  BY <1>1, <1>2, <1>3, <1>4
<1>6. run'[r] \in {"holding", "told", "cleared"} => work'[r] = "executing" /\ settled'["field"][r] = {}
  BY <1>1, <1>2, <1>4 DEF RunsOpen
<1> QED BY <1>5, <1>6, OthersOpen

LEMMA FieldOpen ==
  ASSUME ClaimInv, RunsOpen, NEW r \in WorkRows, TakeField(r)
  PROVE  RunsOpen'
<1>1. PICK cs : cs = GivesWay(r)
  OBVIOUS
<1>2. /\ settled \in [ClaimKeys -> [WorkRows -> SUBSET WorkRows]]
      /\ run \in [WorkRows -> {"none", "begun", "plain", "holding", "told", "cleared", "applied"}]
  BY DEF ClaimInv, ClaimTypeOK
<1>3. work[r] = "executing" /\ work' = SentBackWith(cs) /\ settled' = [settled EXCEPT !["field"][r] = {}]
  BY <1>1 DEF TakeField, Reopened
<1>4. \A x \in WorkRows \ {r} : run'[x] = run[x] /\ settled'["field"][x] = settled["field"][x]
  BY <1>2, <1>3 DEF TakeField
<1>5. work'[r] = "executing" /\ settled'["field"][r] = {}
  BY <1>2, <1>3, AtWorkStays
<1> QED BY <1>3, <1>4, <1>5, OthersOpen

LEMMA EndOpen ==
  ASSUME ClaimInv, RunsOpen, NEW r \in WorkRows, CompleteRun(r) \/ FailRun(r) \/ RejectActions(r)
  PROVE  RunsOpen'
<1>1. PICK st, cs : EndRun(r, st, cs)
  BY DEF CompleteRun, FailRun, RejectActions
<1>2. /\ settled \in [ClaimKeys -> [WorkRows -> SUBSET WorkRows]]
      /\ run \in [WorkRows -> {"none", "begun", "plain", "holding", "told", "cleared", "applied"}]
      /\ SentBackWith(cs) \in [WorkRows -> ItemStates]
  BY ReleaseTypes DEF ClaimInv, ClaimTypeOK
<1>3. work' = [SentBackWith(cs) EXCEPT ![r] = st] /\ settled' = Settled(r) /\ run' = [run EXCEPT ![r] = "none"]
  BY <1>1 DEF EndRun
<1>4. \A x \in WorkRows \ {r} : settled'["field"][x] = settled["field"][x]
  BY <1>2, <1>3 DEF Settled
<1>5. \A x \in WorkRows \ {r} : work'[x] = SentBackWith(cs)[x] /\ run'[x] = run[x]
  BY <1>2, <1>3
<1>6. run'[r] = "none"
  BY <1>2, <1>3
<1> QED BY <1>4, <1>5, <1>6, OthersOpen

LEMMA OpenStep ==
  ASSUME ClaimInv, RunsOpen, [ClaimNext]_claimVars
  PROVE  RunsOpen'
<1>1. CASE UNCHANGED claimVars
  BY <1>1 DEF claimVars, RunsOpen
<1> QED BY <1>1, JudgingOpen, RunOpen, FieldOpen, EndOpen DEF ClaimNext, Judging

-----------------------------------------------------------------------------
(* What a release and a claim are in the book. *)

LEMMA BookPairs ==
  ASSUME NEW h \in WorkRows, NEW k \in ClaimKeys
  PROVE  /\ <<h, k>> \in BookHeld <=> HeldBy(h, k)
         /\ <<h, "ticket">> \in BookNeeded <=> ~LetGo(h)
         /\ \A g \in WorkRows, j \in ClaimKeys : <<<<g, j>>, <<h, k>>>> \in BookClash =>
              /\ j = k /\ <<g, j>> # <<h, k>>
              /\ k = "field" \/ (g \in Finders <=> h \in Finders)
<1>1. <<h, k>> \in BookHeld <=> HeldBy(h, k)
  BY DEF BookHeld, BookClaims
<1>2. <<h, "ticket">> \in BookNeeded <=> ~LetGo(h)
  BY DEF BookNeeded, BookClaims
<1>3. ASSUME NEW g \in WorkRows, NEW j \in ClaimKeys, <<<<g, j>>, <<h, k>>>> \in BookClash
      PROVE  /\ j = k /\ <<g, j>> # <<h, k>>
             /\ k = "field" \/ (g \in Finders <=> h \in Finders)
  BY <1>3 DEF BookClash
<1> QED BY <1>1, <1>2, <1>3

LEMMA BookEntry ==
  ASSUME NEW c \in BookHeld
  PROVE  \E h \in WorkRows, k \in ClaimKeys : c = <<h, k>> /\ HeldBy(h, k)
<1>1. PICK h \in WorkRows, k \in ClaimKeys : c = <<h, k>>
  BY DEF BookHeld, BookClaims
<1> QED BY <1>1, BookPairs

LEMMA BookWithout ==
  ASSUME ClaimTypeOK, NEW cs
  PROVE  {c \in BookClaims : <<c[1], c[1]>> \in Without(cs)[c[2]]} = BookHeld \ (BookHeld \cap cs)
<1>1. ASSUME NEW c \in BookClaims
      PROVE  <<c[1], c[1]>> \in Without(cs)[c[2]] <=> c \in BookHeld /\ c \notin cs
  <2>1. PICK h \in WorkRows, k \in ClaimKeys : c = <<h, k>>
    BY DEF BookClaims
  <2>2. <<h, h>> \in Without(cs)[k] <=> HeldBy(h, k) /\ <<h, k>> \notin cs
    BY ReleaseClaims DEF HeldBy
  <2> QED BY <2>1, <2>2, BookPairs
<1> QED BY <1>1 DEF BookHeld

LEMMA BookFreed ==
  ASSUME ClaimInv, NEW cs
  PROVE  Unrefused(cs) = Book!Freed(BookHeld \cap cs)
<1>1. ASSUME NEW x \in WorkRows
      PROVE  (IF refusedBy[x] \in cs THEN NoRefusal ELSE refusedBy[x]) =
             (IF refusedBy[x] \in BookHeld \cap cs THEN NoRefusal ELSE refusedBy[x])
  <2>1. refusedBy[x] # NoRefusal => refusedBy[x] \in BookHeld
    BY DEF ClaimInv, ClaimTypeOK, RefusedByALiveClaim, BookHeld, BookClaims
  <2> QED BY <2>1
<1> QED BY <1>1 DEF Unrefused, Book!Freed

\* Claims go that nobody needs, or with their row.
LEMMA ReleaseBooked ==
  ASSUME ClaimInv, NEW cs, claimsOn' = Without(cs), refusedBy' = Unrefused(cs),
         \A c \in BookHeld \cap cs : c \notin BookNeeded \/ c[1] \in BookActive \ BookActive'
  PROVE  Book!Next
<1>1. BookHeld' = BookHeld \ (BookHeld \cap cs)
  BY BookWithout DEF ClaimInv, BookHeld, HeldBy
<1>2. refusedBy' = Book!Freed(BookHeld \cap cs)
  BY BookFreed
<1>3. Book!LetGo
  BY <1>1, <1>2 DEF Book!LetGo
<1> QED BY <1>3 DEF Book!Next

\* A claim joins the book.
LEMMA TakeBooked ==
  ASSUME ClaimInv, NEW cs, NEW r \in WorkRows, NEW k \in ClaimKeys,
         claimsOn' = Joined(Without(cs), k, r), refusedBy' = Unrefused(cs),
         \A c \in BookHeld \cap cs : c \notin BookNeeded,
         \A c \in BookHeld \ (BookHeld \cap cs) : <<c, <<r, k>>>> \notin BookClash
  PROVE  Book!Next
<1>1. ClaimTypeOK
  BY DEF ClaimInv
<1>2. PICK left : left = Without(cs)
  OBVIOUS
<1>3. left \in [ClaimKeys -> SUBSET (WorkRows \X WorkRows)]
  BY <1>1, <1>2, ReleaseTypes
<1>4. /\ \A j \in ClaimKeys : j # k => claimsOn'[j] = left[j]
      /\ \A g, h \in WorkRows : <<g, h>> \in claimsOn'[k] <=>
           <<g, h>> \in left[k] \/ (h = r /\ (g = r \/ <<g, g>> \in left[k]))
  BY <1>2, <1>3, JoinedHas
<1>5. \A h \in WorkRows, j \in ClaimKeys :
        <<h, h>> \in claimsOn'[j] <=> <<h, h>> \in left[j] \/ (h = r /\ j = k)
  BY <1>4
<1>6. BookHeld' = {c \in BookClaims : <<c[1], c[1]>> \in left[c[2]]} \cup {<<r, k>>}
  BY <1>5 DEF BookHeld, BookClaims, HeldBy
<1>7. BookHeld' = (BookHeld \ (BookHeld \cap cs)) \cup {<<r, k>>}
  BY <1>1, <1>2, <1>6, BookWithout
<1>8. refusedBy' = Book!Freed(BookHeld \cap cs)
  BY BookFreed
<1>9. Book!Take(r)
  BY <1>7, <1>8 DEF Book!Take, Book!Unneeded
<1> QED BY <1>9 DEF Book!Next

\* A step that touches no claim.
LEMMA QuietBooked ==
  ASSUME UNCHANGED <<claimsOn, refusedBy>>
  PROVE  Book!Next
BY DEF Book!Next, BookHeld, HeldBy

LEMMA LapsedUnneeded ==
  ASSUME NEW r \in WorkRows
  PROVE  \A c \in BookHeld \cap LapsedFor(r) : c \notin BookNeeded
<1>1. ASSUME NEW c \in BookHeld \cap LapsedFor(r)
      PROVE  c \notin BookNeeded
  <2>1. PICK h \in WorkRows, k \in ClaimKeys : c = <<h, k>>
    BY <1>1, BookEntry
  <2>2. k = "ticket" /\ LetGo(h)
    BY <1>1, <2>1, LapsedLetGo
  <2> QED BY <2>1, <2>2, BookPairs
<1> QED BY <1>1

-----------------------------------------------------------------------------
(* The steps, in the book. *)

LEMMA RefuseBooked ==
  ASSUME ClaimInv, NEW r \in WorkRows, NEW c \in ItemHolder(r) \cup SettledFor(r),
         Refuse(r, c, LapsedFor(r))
  PROVE  Book!Next
<1>1. PICK cs : cs = LapsedFor(r)
  OBVIOUS
<1>2. ClaimTypeOK
  BY DEF ClaimInv
<1>3. c \in BookHeld /\ c \notin cs
  <2>1. PICK h \in WorkRows : c = <<h, "ticket">> /\ <<h, h>> \in claimsOn["ticket"] /\ c \notin LapsedFor(r)
    BY <1>2, RefusingHolds
  <2> QED BY <1>1, <2>1, BookPairs DEF HeldBy
<1>4. \E h \in WorkRows : c = <<h, "ticket">> /\ h # r /\ ~LetGo(h)
  <2>1. CASE c \in ItemHolder(r)
    BY <2>1 DEF ItemHolder, HolderFor, StopsAt, Holders
  <2>2. CASE c \in SettledFor(r)
    <3>1. r \in Askers
      BY <2>2 DEF SettledFor
    <3>2. PICK h \in Holders("ticket") \cap Finders : c = <<h, "ticket">> /\ work[h] = "completed"
      BY <2>2, <3>1 DEF SettledFor
    <3>3. h # r /\ ~LetGo(h)
      BY <3>1, <3>2 DEF LetGo
    <3> QED BY <3>2, <3>3
  <2> QED BY <2>1, <2>2
<1>5. c \in BookNeeded /\ c[1] # r
  <2>1. PICK h \in WorkRows : c = <<h, "ticket">> /\ h # r /\ ~LetGo(h)
    BY <1>4
  <2>2. c \in BookNeeded
    BY <2>1, BookPairs
  <2> QED BY <2>1, <2>2
<1>6. claimsOn' = Without(cs) /\ refusedBy' = [Unrefused(cs) EXCEPT ![r] = c]
  BY <1>1 DEF Refuse
<1>7. BookHeld' = BookHeld \ (BookHeld \cap cs)
  BY <1>2, <1>6, BookWithout DEF BookHeld, HeldBy
<1>8. refusedBy' = [Book!Freed(BookHeld \cap cs) EXCEPT ![r] = c]
  BY <1>6, BookFreed
<1>9. Book!Refuse(r)
  <2>1. Book!Unneeded(BookHeld \cap cs)
    BY <1>1, LapsedUnneeded DEF Book!Unneeded
  <2> QED BY <1>3, <1>5, <1>7, <1>8, <2>1 DEF Book!Refuse
<1> QED BY <1>9 DEF Book!Next

LEMMA ItemBooked ==
  ASSUME ClaimInv, NEW r \in WorkRows, NEW st, TakeItem(r, st)
  PROVE  Book!Next
<1>1. PICK cs : cs = LapsedFor(r)
  OBVIOUS
<1>2. /\ Unheld(r) /\ refusedBy' = Unrefused(cs)
      /\ claimsOn' = IF r \in Askers \/ HeldBy(r, "ticket") THEN Without(cs)
                     ELSE Joined(Without(cs), "ticket", r)
  BY <1>1 DEF TakeItem
<1>3. \A c \in BookHeld \cap cs : c \notin BookNeeded
  BY <1>1, LapsedUnneeded
<1>4. CASE r \in Askers \/ HeldBy(r, "ticket")
  BY <1>2, <1>3, <1>4, ReleaseBooked
<1>5. CASE ~(r \in Askers \/ HeldBy(r, "ticket"))
  <2>1. ASSUME NEW c \in BookHeld \ (BookHeld \cap cs), <<c, <<r, "ticket">>>> \in BookClash
        PROVE  FALSE
    <3>1. PICK h \in WorkRows, k \in ClaimKeys : c = <<h, k>> /\ HeldBy(h, k)
      BY <2>1, BookEntry
    <3>2. k = "ticket" /\ h \in Finders
      BY <1>5, <2>1, <3>1, BookPairs
    <3>3. r \in Finders /\ ~HeldBy(r, "ticket")
      BY <1>5
    <3>4. <<h, "ticket">> \in LapsedFor(r)
      BY <1>2, <3>1, <3>2, <3>3, UnheldIsFree
    <3> QED BY <1>1, <2>1, <3>1, <3>2, <3>4
  <2> QED BY <1>2, <1>3, <1>5, <2>1, TakeBooked
<1> QED BY <1>4, <1>5

LEMMA FieldBooked ==
  ASSUME ClaimInv, RunsOpen, NEW r \in WorkRows, TakeField(r)
  PROVE  Book!Next
<1>1. PICK cs : cs = GivesWay(r)
  OBVIOUS
<1>2. PICK left : left = Without(cs)
  OBVIOUS
<1>3. /\ claimsOn' = IF left["field"] = {} THEN Joined(left, "field", r) ELSE left
      /\ refusedBy' = Unrefused(cs)
  BY <1>1, <1>2 DEF TakeField
<1>4. \A c \in BookHeld \cap cs : c \notin BookNeeded
  <2>1. ASSUME NEW c \in BookHeld \cap cs, c \in BookNeeded
        PROVE  FALSE
    <3>1. PICK x \in Holders("field") \ {r} : c = <<x, "field">> /\ (LetGo(x) \/ ~HoldsAgainst(x, "field", r))
      BY <1>1, <2>1 DEF GivesWay
    <3>2. x \in WorkRows /\ run[x] \in {"holding", "cleared"}
      BY <2>1, <3>1 DEF BookNeeded, Holders
    <3>3. work[x] = "executing" /\ settled["field"][x] = {}
      BY <3>2 DEF RunsOpen
    <3> QED BY <3>1, <3>3 DEF LetGo, HoldsAgainst
  <2> QED BY <2>1
<1>5. CASE left["field"] = {}
  <2>1. claimsOn' = Joined(Without(cs), "field", r)
    BY <1>2, <1>3, <1>5
  <2>2. ASSUME NEW c \in BookHeld \ (BookHeld \cap cs), <<c, <<r, "field">>>> \in BookClash
        PROVE  FALSE
    <3>1. PICK h \in WorkRows, k \in ClaimKeys : c = <<h, k>> /\ HeldBy(h, k)
      BY <2>2, BookEntry
    <3>2. k = "field" /\ <<h, "field">> \notin cs
      BY <2>2, <3>1, BookPairs
    <3>3. <<h, h>> \in Without(cs)["field"]
      BY <3>1, <3>2, ReleaseClaims DEF ClaimInv, HeldBy
    <3> QED BY <1>2, <1>5, <3>3
  <2> QED BY <1>3, <1>4, <2>1, <2>2, TakeBooked
<1>6. CASE left["field"] # {}
  BY <1>2, <1>3, <1>4, <1>6, ReleaseBooked
<1> QED BY <1>5, <1>6

LEMMA LandedBooked ==
  ASSUME ClaimInv, NEW r \in WorkRows, ClaimLanded(r)
  PROVE  Book!Next
<1>1. /\ UNCHANGED refusedBy
      /\ claimsOn' = IF r \in Askers /\ claimsOn["ticket"] = {} THEN Joined(claimsOn, "ticket", r) ELSE claimsOn
  BY DEF ClaimLanded
<1>2. CASE r \in Askers /\ claimsOn["ticket"] = {}
  <2>1. Without({}) = claimsOn /\ Unrefused({}) = refusedBy
    BY NothingReleased DEF ClaimInv
  <2>2. claimsOn' = Joined(Without({}), "ticket", r) /\ refusedBy' = Unrefused({})
    BY <1>1, <1>2, <2>1
  <2>3. ASSUME NEW c \in BookHeld, <<c, <<r, "ticket">>>> \in BookClash
        PROVE  FALSE
    <3>1. PICK h \in WorkRows, k \in ClaimKeys : c = <<h, k>> /\ HeldBy(h, k)
      BY <2>3, BookEntry
    <3>2. k = "ticket"
      BY <2>3, <3>1, BookPairs
    <3> QED BY <1>2, <3>1, <3>2 DEF HeldBy
  <2> QED BY <2>2, <2>3, TakeBooked
<1>3. CASE ~(r \in Askers /\ claimsOn["ticket"] = {})
  BY <1>1, <1>3, QuietBooked
<1> QED BY <1>2, <1>3

\* A row that lets go, or whose run is rejected, ends as it does.
LEMMA EndBooked ==
  ASSUME ClaimInv, NEW r \in WorkRows, CompleteRun(r) \/ FailRun(r) \/ RejectActions(r)
  PROVE  Book!Next
<1>1. CASE CompleteRun(r) \/ FailRun(r)
  <2>1. claimsOn' = Without({}) /\ refusedBy' = Unrefused({})
    BY <1>1 DEF CompleteRun, FailRun, EndRun
  <2> QED BY <2>1, ReleaseBooked
<1>2. CASE RejectActions(r)
  <2>1. PICK cs : cs = {c \in ClaimsOf(r) : IsItemClaim(c[1], c[2])}
    OBVIOUS
  <2>2. claimsOn' = Without(cs) /\ refusedBy' = Unrefused(cs) /\ work' = [SentBackWith(cs) EXCEPT ![r] = "failed"]
    BY <1>2, <2>1 DEF RejectActions, EndRun
  <2>3. SentBackWith(cs) \in [WorkRows -> ItemStates]
    BY ReleaseTypes DEF ClaimInv
  <2>4. work'[r] = "failed" /\ work[r] = "executing"
    BY <1>2, <2>2, <2>3 DEF RejectActions
  <2>5. r \in BookActive \ BookActive'
    BY <2>4 DEF BookActive, LetGo
  <2>6. \A c \in BookHeld \cap cs : c[1] = r
    BY <2>1 DEF ClaimsOf
  <2> QED BY <2>2, <2>5, <2>6, ReleaseBooked
<1> QED BY <1>1, <1>2

LEMMA LetGoBooked ==
  ASSUME ClaimInv, NEW r \in WorkRows, Cancel(r) \/ WithdrawTicket(r)
  PROVE  Book!Next
<1>1. PICK st \in {"cancelled", "withdrawn"} : LetGoOf(r, st)
  BY DEF Cancel, WithdrawTicket
<1>2. PICK cs : cs = ClaimsOf(r)
  OBVIOUS
<1>3. claimsOn' = Without(cs) /\ refusedBy' = Unrefused(cs) /\ work' = [SentBackWith(cs) EXCEPT ![r] = st]
  BY <1>1, <1>2 DEF LetGoOf
<1>4. SentBackWith(cs) \in [WorkRows -> ItemStates]
  BY ReleaseTypes DEF ClaimInv
<1>5. work'[r] = st /\ work[r] \in {"discovered", "needsSkill", "claimed", "planned"}
  BY <1>3, <1>4 DEF Cancel, WithdrawTicket
<1>6. r \in BookActive \ BookActive'
  BY <1>5 DEF BookActive, LetGo
<1>7. \A c \in BookHeld \cap cs : c[1] = r
  BY <1>2 DEF ClaimsOf
<1> QED BY <1>3, <1>6, <1>7, ReleaseBooked

LEMMA RetryBooked ==
  ASSUME ClaimInv, NEW r \in WorkRows, RetryRow(r)
  PROVE  Book!Next
<1>1. CASE \E st : TakeItem(r, st)
  BY <1>1, ItemBooked
<1>2. CASE UNCHANGED <<claimsOn, refusedBy>>
  BY <1>2, QuietBooked
<1>3. CASE refusedBy' = [refusedBy EXCEPT ![r] = NoRefusal] /\ UNCHANGED claimsOn
  <2>1. Book!Forget(r)
    BY <1>3 DEF Book!Forget, BookHeld, HeldBy
  <2> QED BY <2>1 DEF Book!Next
<1> QED BY <1>1, <1>2, <1>3 DEF RetryRow

LEMMA JudgedBooked ==
  ASSUME ClaimInv, NEW r \in WorkRows, BeginEvaluation(r) \/ VerdictClaims(r) \/ VerdictParks(r)
  PROVE  Book!Next
<1>1. CASE \E c \in ItemHolder(r) \cup SettledFor(r) : Refuse(r, c, LapsedFor(r))
  BY <1>1, RefuseBooked
<1>2. CASE TakeItem(r, "claimed")
  BY <1>2, ItemBooked
<1>3. CASE refusedBy' = Unrefused(LapsedFor(r)) /\ claimsOn' = Without(LapsedFor(r))
  BY <1>3, LapsedUnneeded, ReleaseBooked
<1> QED BY <1>1, <1>2, <1>3 DEF BeginEvaluation, VerdictClaims, VerdictParks

LEMMA StepBooked ==
  ASSUME ClaimInv, RunsOpen, [ClaimNext]_claimVars
  PROVE  Book!Next
<1>1. CASE UNCHANGED <<claimsOn, refusedBy>>
  BY <1>1, QuietBooked
<1> QED BY <1>1, JudgedBooked, FieldBooked, LandedBooked, EndBooked, LetGoBooked, RetryBooked
        DEF ClaimNext, claimVars, Discover, VerdictSkips, SkillRegisters, DraftPlan, ParkForSkill, BeginRun,
            AuthorPlain, AskTheGuard, FillField, ListAgain

LEMMA StartBooked == ClaimInit => Book!Init
BY DEF ClaimInit, Book!Init, BookHeld, HeldBy, BookClaims

\* The employees' claims keep ClaimBook's promise, step by step: a claim is
\* taken where none clashes with it and from nobody who needs it, whoever is
\* refused is refused for another's needed claim, and is freed in the step
\* that lets it go; a run that took the field keeps it open (liveClaimOn,
\* takeExternalClaim, takeWriteTargetClaims, releaseClaim).
THEOREM ImplementsClaimBook == ClaimSpec => KeepsTheBook
<1> DEFINE Inv == ClaimInv /\ RunsOpen
<1>1. ClaimInit => Inv
  BY ClaimStart DEF ClaimInit, RunsOpen
<1>2. Inv /\ [ClaimNext]_claimVars => Inv'
  BY ClaimStep, OpenStep
<1>3. Inv /\ [ClaimNext]_claimVars => Book!Next
  BY StepBooked
<1> HIDE DEF Inv
<1>4. ClaimSpec => [][Book!Next]_<<BookHeld, BookNeeded, BookActive, refusedBy>>
  BY <1>1, <1>2, <1>3, PTL DEF ClaimSpec
<1> QED BY <1>4, StartBooked, PTL DEF ClaimSpec, KeepsTheBook, Book!Spec
=============================================================================

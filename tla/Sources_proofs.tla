--------------------------- MODULE Sources_proofs ---------------------------
(***************************************************************************)
(* What a company's sources rest on: the pages a documentation sync keeps, *)
(* and the OAuth pair it and every tool of the source is read with.        *)
(***************************************************************************)
EXTENDS DocSync, TokenLife, TLAPS

-----------------------------------------------------------------------------
(***************************************************************************)
(* What a documentation sync does to a page it keeps: the stored body only *)
(* ever moves forward, and a page goes only after two walks missed it.     *)
(* The first needs that one chain works at a time, with a copy no older    *)
(* than the text stored and no newer than the site's; the second, that     *)
(* what the running walk read is stamped by it, and what the last finished *)
(* one read still carries a mark.                                          *)
(***************************************************************************)

USE EditsAssumption, RestartsAssumption

-----------------------------------------------------------------------------
(* The documentation source's types. *)

LEMMA RunFields ==
  ASSUME NEW run \in RunRows
  PROVE  /\ run.st \in {"running", "superseded", "error", "held", "completed"} /\ run.read \subseteq Pages
         /\ run.bound \subseteq Pages /\ run.finishing \in BOOLEAN /\ run.restarts \in 0..MaxRestarts
         /\ \A st \in {"running", "superseded", "error", "held", "completed"} : [run EXCEPT !.st = st] \in RunRows
         /\ \A s \in SUBSET Pages : [run EXCEPT !.bound = s] \in RunRows
         /\ \A s \in SUBSET Pages, b \in BOOLEAN : [run EXCEPT !.read = s, !.finishing = b] \in RunRows
         /\ \A n \in 0..MaxRestarts : [run EXCEPT !.st = "running", !.restarts = n] \in RunRows
BY DEF RunRows

LEMMA FreshRun ==
  /\ NoRun \in RunRows
  /\ \A n \in 0..MaxRestarts : [NoRun EXCEPT !.st = "running", !.restarts = n] \in RunRows
<1>1. NoRun \in RunRows
  BY DEF NoRun, RunRows
<1> QED BY <1>1, RunFields

LEMMA ChainEnds ==
  ASSUME DocTypeOK, NEW w \in Workers, EndChain(w)
  PROVE  /\ at' \in [Workers -> {"idle", "batch", "read", "stored", "prune", "finish"}]
         /\ mine' \in [Workers -> BOOLEAN] /\ page' \in [Workers -> Pages \cup {NoPage}]
         /\ copy' \in [Workers -> Versions] /\ more' \in [Workers -> BOOLEAN]
BY DEF DocTypeOK, EndChain, Versions

LEMMA FaultType ==
  ASSUME DocTypeOK, Fault \/ UNCHANGED faults
  PROVE  faults' \in 0..MaxFaults
BY DEF DocTypeOK, Fault

LEMMA FlagType ==
  ASSUME NEW f \in [Workers -> BOOLEAN], NEW w \in Workers, NEW b \in BOOLEAN
  PROVE  [f EXCEPT ![w] = b] \in [Workers -> BOOLEAN]
OBVIOUS

LEMMA BeginType ==
  ASSUME DocTypeOK, NEW w \in Workers, NEW fresh \in BOOLEAN, Begin(w, fresh), faults' \in 0..MaxFaults
  PROVE  DocTypeOK'
<1> DEFINE ended == IF latest.st = "running" THEN [latest EXCEPT !.st = "superseded"] ELSE latest
           spent == IF fresh \/ latest.st = "completed" \/ latest.restarts = 0 THEN 0 ELSE latest.restarts - 1
<1>1. latest \in RunRows /\ latest.restarts \in 0..MaxRestarts
  BY RunFields DEF DocTypeOK
<1>2. spent \in 0..MaxRestarts
  BY <1>1
<1>3. ended \in RunRows
  BY <1>1, RunFields
<1>4. previous' = ended /\ (\/ latest' = [latest EXCEPT !.st = "running", !.restarts = spent]
                            \/ latest' = [NoRun EXCEPT !.st = "running", !.restarts = spent])
  BY DEF Begin
<1>5. previous' \in RunRows /\ latest' \in RunRows
  <2> HIDE DEF spent, ended
  <2>1. previous' \in RunRows
    BY <1>3, <1>4
  <2>2. [latest EXCEPT !.st = "running", !.restarts = spent] \in RunRows
    BY <1>1, <1>2, RunFields
  <2>3. [NoRun EXCEPT !.st = "running", !.restarts = spent] \in RunRows
    BY <1>2, FreshRun
  <2> QED BY <1>4, <2>1, <2>2, <2>3
<1>6. stamp' \in [Pages -> {"none", "below", "kept", "listed"}]
  BY DEF Begin, DocTypeOK, StampsAtBegin
<1>7. mine' \in [Workers -> BOOLEAN]
  BY DEF Begin
<1>8. refuses' \in BOOLEAN
  <2>1. \E b \in BOOLEAN : refuses' = b
    BY DEF Begin
  <2> QED BY <2>1
<1>9. at' \in [Workers -> {"idle", "batch", "read", "stored", "prune", "finish"}] /\ status' = "linking"
  BY DEF Begin, DocTypeOK
<1>10. UNCHANGED <<reader, site, edits, body, newest, cronsPaused, page, copy, more, lastWalk>>
  BY DEF Begin
<1> QED BY <1>5, <1>6, <1>7, <1>8, <1>9, <1>10 DEF DocTypeOK

LEMMA DocType == DocInit /\ [][DocNext]_docVars => []DocTypeOK
<1>1. DocInit => DocTypeOK
  <2> SUFFICES ASSUME DocInit
               PROVE  DocTypeOK
    OBVIOUS
  <2>1. latest \in RunRows /\ previous \in RunRows
    BY FreshRun DEF DocInit
  <2>2. {0, 1} \subseteq Versions /\ 0 \in 0..MaxFaults /\ 0 \in 0..MaxEdits
    BY DEF Versions
  <2>3. mine \in [Workers -> BOOLEAN] /\ more \in [Workers -> BOOLEAN]
    BY Zenon DEF DocInit
  <2> QED BY <2>1, <2>2, <2>3 DEF DocInit, DocTypeOK
<1>2. DocTypeOK /\ [DocNext]_docVars => DocTypeOK'
  <2> SUFFICES ASSUME DocTypeOK, [DocNext]_docVars
               PROVE  DocTypeOK'
    OBVIOUS
  <2>1. ASSUME NEW w \in Workers, CronSync(w) \/ Resync(w)
        PROVE  DocTypeOK'
    <3>1. faults' \in 0..MaxFaults
      BY <2>1, FaultType, Zenon DEF CronSync, Resync
    <3>2. \E fresh \in BOOLEAN : Begin(w, fresh)
      BY <2>1 DEF CronSync, Resync
    <3> QED BY <3>1, <3>2, BeginType
  <2>2. ASSUME NEW w \in Workers, BatchHeld(w) \/ ReadFails(w)
        PROVE  DocTypeOK'
    <3>1. latest' \in RunRows
      BY <2>2, RunFields DEF BatchHeld, ReadFails, FailSync, sourceVars, DocTypeOK
    <3> QED BY <2>2, <3>1, ChainEnds DEF BatchHeld, ReadFails, FailSync, Fault, DocTypeOK, providerSiteVars, sourceVars, pageVars
  <2>3. ASSUME NEW w \in Workers, Superseded(w) \/ ChainDies(w)
        PROVE  DocTypeOK'
    BY <2>3, ChainEnds DEF Superseded, ChainDies, Fault, DocTypeOK, providerSiteVars, sourceVars, pageVars
  <2>4. ASSUME NEW w \in Workers, ReadBatch(w)
        PROVE  DocTypeOK'
    <3>1. latest' \in RunRows
      BY <2>4, RunFields DEF ReadBatch, DocTypeOK, Listed
    <3>2. page' \in [Workers -> Pages \cup {NoPage}] /\ copy' \in [Workers -> Versions]
      BY <2>4 DEF ReadBatch, DocTypeOK, Listed, Versions
    <3>3. more' \in [Workers -> BOOLEAN] /\ faults' \in 0..MaxFaults
      <4>1. more' = [more EXCEPT ![w] = (Listed \ latest.read) \ {page'[w]} # {}] \/ more' = [more EXCEPT ![w] = FALSE]
        BY <2>4, Zenon DEF ReadBatch
      <4>2. more \in [Workers -> BOOLEAN]
        BY DEF DocTypeOK
      <4>3. more' \in [Workers -> BOOLEAN]
        BY <4>1, <4>2, FlagType, Zenon
      <4> QED BY <2>4, <4>3, FaultType DEF ReadBatch
    <3>4. at' \in [Workers -> {"idle", "batch", "read", "stored", "prune", "finish"}]
      BY <2>4 DEF ReadBatch, DocTypeOK
    <3> QED BY <2>4, <3>1, <3>2, <3>3, <3>4 DEF ReadBatch, DocTypeOK, providerSiteVars, pageVars
  <2>5. ASSUME NEW w \in Workers, ListingChanged(w)
        PROVE  DocTypeOK'
    <3>1. latest' \in RunRows /\ previous' \in RunRows
      <4>1. latest \in RunRows /\ previous \in RunRows /\ latest.restarts \in 0..MaxRestarts
        BY RunFields DEF DocTypeOK
      <4>2. CASE latest.restarts >= MaxRestarts
        BY <2>5, <4>1, <4>2, RunFields DEF ListingChanged, FailSync, sourceVars
      <4>3. CASE ~(latest.restarts >= MaxRestarts)
        <5>1. latest.restarts + 1 \in 0..MaxRestarts
          BY <4>1, <4>3
        <5> QED BY <2>5, <4>1, <4>3, <5>1, RunFields, FreshRun DEF ListingChanged
      <4> QED BY <4>2, <4>3
    <3>2. CASE latest.restarts >= MaxRestarts
      BY <2>5, <3>1, <3>2, ChainEnds DEF ListingChanged, FailSync, sourceVars, DocTypeOK
    <3>3. CASE ~(latest.restarts >= MaxRestarts)
      BY <2>5, <3>1, <3>3 DEF ListingChanged, StampsAtBegin, chainVars, DocTypeOK
    <3> QED BY <3>2, <3>3
  <2>6. ASSUME NEW w \in Workers, UpsertPage(w) \/ PageUnread(w) \/ ResumeFinish(w)
        PROVE  DocTypeOK'
    BY <2>6 DEF UpsertPage, PageUnread, ResumeFinish, Goes, Fault, DocTypeOK, providerSiteVars, sourceVars, pageVars
  <2>7. ASSUME NEW w \in Workers, RecordBatch(w)
        PROVE  DocTypeOK'
    <3>1. latest' \in RunRows
      <4>1. latest \in RunRows /\ latest.read \subseteq Pages /\ page[w] \in Pages \cup {NoPage} /\ more[w] \in BOOLEAN
        BY RunFields DEF DocTypeOK
      <4> DEFINE done == latest.read \cup ({page[w]} \ {NoPage})
                 all == ~more[w]
      <4>2. done \in SUBSET Pages /\ all \in BOOLEAN
        BY <4>1
      <4>3. latest' = [latest EXCEPT !.read = done, !.finishing = all]
        BY <2>7 DEF RecordBatch
      <4> HIDE DEF done, all
      <4> QED BY <4>1, <4>2, <4>3, RunFields
    <3> QED BY <2>7, <3>1 DEF RecordBatch, DocTypeOK, Versions, providerSiteVars
  <2>8. ASSUME NEW w \in Workers, PrunePage(w)
        PROVE  DocTypeOK'
    BY <2>8 DEF PrunePage, Goes, DocTypeOK, Versions, providerSiteVars, sourceVars, chainVars
  <2>9. ASSUME NEW w \in Workers, FinishSync(w)
        PROVE  DocTypeOK'
    <3>1. latest' \in RunRows /\ latest.read \subseteq Pages
      BY <2>9, RunFields DEF FinishSync, DocTypeOK
    <3> QED BY <2>9, <3>1, ChainEnds DEF FinishSync, DocTypeOK, providerSiteVars
  <2>10. CASE EditSite
    <3>1. edits' \in 0..MaxEdits /\ {0, edits + 2} \subseteq Versions
      BY <2>10 DEF EditSite, DocTypeOK, Versions
    <3>2. site' \in [Pages -> Versions]
      BY <2>10, <3>1 DEF EditSite, DocTypeOK
    <3> QED BY <2>10, <3>1, <3>2 DEF EditSite, DocTypeOK, sourceVars, pageVars, chainVars
  <2>11. CASE CursorDies \/ PauseCrons \/ ResumeCrons
    <3>1. faults' \in 0..MaxFaults
      BY <2>11, FaultType DEF CursorDies, PauseCrons, ResumeCrons
    <3> QED BY <2>11, <3>1 DEF CursorDies, PauseCrons, ResumeCrons, DocTypeOK, providerSiteVars, sourceVars,
                               pageVars, chainVars
  <2>12. CASE UNCHANGED docVars
    BY <2>12 DEF docVars, DocTypeOK, providerSiteVars, sourceVars, pageVars, chainVars
  <2> QED BY <2>1, <2>2, <2>3, <2>4, <2>5, <2>6, <2>7, <2>8, <2>9, <2>10, <2>11, <2>12 DEF DocNext, ChainStep
<1> QED BY <1>1, <1>2, PTL


-----------------------------------------------------------------------------
(* A stored page never goes back to an older text. *)

\* One chain at most reads the source's running generation.
OneChain == \A v, w \in Workers : mine[v] /\ mine[w] => v = w

\* What is stored is never ahead of what the provider has.
SiteAhead ==
  \A r \in Pages : /\ newest[r] <= edits + 1 /\ site[r] <= edits + 1
                   /\ site[r] # 0 => newest[r] <= site[r]

\* What a chain has read is a text the provider had, and nothing newer was
\* stored since if the chain's generation is still the running one.
CopyAhead ==
  \A w \in Workers : at[w] = "read" /\ page[w] # NoPage =>
    /\ page[w] \in Pages /\ copy[w] # 0 /\ copy[w] <= edits + 1
    /\ site[page[w]] # 0 => copy[w] <= site[page[w]]
    /\ mine[w] => newest[page[w]] <= copy[w]

TextInv == OneChain /\ SiteAhead /\ CopyAhead /\ PagesMoveForward

\* What the steps that store nothing leave of it.
ChainsKept(W) == \A v \in W : at'[v] = at[v] /\ page'[v] = page[v] /\ copy'[v] = copy[v]
TextKept ==
  /\ UNCHANGED <<site, edits, body, newest>>
  /\ \E w \in Workers : ChainsKept(Workers \ {w}) /\ (at'[w] = "read" => at[w] = "read" /\ ChainsKept({w}))
  /\ \A v \in Workers : mine'[v] => mine[v]

LEMMA KeptText ==
  ASSUME DocTypeOK, TextInv, TextKept
  PROVE  TextInv'
<1>1. OneChain' /\ SiteAhead' /\ PagesMoveForward'
  BY DEF TextKept, TextInv, OneChain, SiteAhead, PagesMoveForward
<1>2. \A w \in Workers : at'[w] = "read" => at[w] = "read" /\ page'[w] = page[w] /\ copy'[w] = copy[w]
  BY DEF TextKept, ChainsKept
<1>3. CopyAhead'
  BY <1>2 DEF TextKept, TextInv, CopyAhead
<1> QED BY <1>1, <1>3 DEF TextInv

LEMMA EndsText ==
  ASSUME DocTypeOK, NEW w \in Workers, EndChain(w), UNCHANGED <<site, edits, body, newest>>
  PROVE  TextKept
BY DEF DocTypeOK, EndChain, TextKept, ChainsKept

LEMMA BegunText ==
  ASSUME DocTypeOK, TextInv, NEW w \in Workers, NEW fresh \in BOOLEAN, Begin(w, fresh)
  PROVE  TextInv'
<1>1. /\ UNCHANGED <<site, edits, body, newest, page, copy>>
      /\ at'[w] = "batch" /\ \A v \in Workers \ {w} : at'[v] = at[v]
      /\ \A v \in Workers : mine'[v] => v = w
  BY DEF Begin, DocTypeOK
<1> QED BY <1>1 DEF TextInv, OneChain, SiteAhead, CopyAhead, PagesMoveForward

LEMMA ReadText ==
  ASSUME DocTypeOK, TextInv, NEW w \in Workers, ReadBatch(w)
  PROVE  TextInv'
<1>1. /\ UNCHANGED <<site, edits, body, newest, mine>>
      /\ \A v \in Workers \ {w} : at'[v] = at[v] /\ page'[v] = page[v] /\ copy'[v] = copy[v]
  BY DEF ReadBatch, DocTypeOK, providerSiteVars, pageVars
<1>2. page'[w] = NoPage \/ (page'[w] \in Pages /\ copy'[w] = site[page'[w]] /\ copy'[w] # 0)
  BY DEF ReadBatch, DocTypeOK, Listed
<1>3. OneChain' /\ SiteAhead' /\ PagesMoveForward'
  BY <1>1 DEF TextInv, OneChain, SiteAhead, PagesMoveForward
<1>4. \A r \in Pages : site[r] \in Int /\ newest[r] \in Int
  BY DEF DocTypeOK, Versions
<1>5. ASSUME page'[w] # NoPage
      PROVE  /\ page'[w] \in Pages /\ copy'[w] # 0 /\ copy'[w] <= edits + 1
             /\ copy'[w] <= site[page'[w]] /\ newest[page'[w]] <= copy'[w]
  BY <1>2, <1>4, <1>5 DEF TextInv, SiteAhead
<1>6. CopyAhead'
  BY <1>1, <1>5 DEF TextInv, CopyAhead
<1> QED BY <1>3, <1>6 DEF TextInv

LEMMA StoredText ==
  ASSUME DocTypeOK, TextInv, NEW w \in Workers, UpsertPage(w)
  PROVE  TextInv'
<1> DEFINE r == page[w]
<1>1. /\ at[w] = "read" /\ r # NoPage /\ mine[w] /\ r \in Pages /\ newest[r] <= copy[w]
      /\ UNCHANGED <<site, edits, mine, page, copy>>
      /\ at'[w] = "stored" /\ \A v \in Workers \ {w} : at'[v] = at[v]
  BY DEF UpsertPage, MayStore, Goes, DocTypeOK, TextInv, CopyAhead, providerSiteVars
<1>2. /\ body' = [body EXCEPT ![r] = copy[w]] /\ newest' = [newest EXCEPT ![r] = copy[w]]
  <2>1. newest[r] \in Int /\ copy[w] \in Int
    BY <1>1 DEF DocTypeOK, Versions
  <2>2. newest' = [newest EXCEPT ![r] = IF copy[w] > newest[r] THEN copy[w] ELSE newest[r]]
    BY DEF UpsertPage
  <2>3. (IF copy[w] > newest[r] THEN copy[w] ELSE newest[r]) = copy[w]
    BY <1>1, <2>1
  <2> QED BY <2>2, <2>3 DEF UpsertPage
<1>3. OneChain' /\ PagesMoveForward'
  BY <1>1, <1>2 DEF TextInv, OneChain, PagesMoveForward, DocTypeOK
<1>4. SiteAhead'
  BY <1>1, <1>2 DEF TextInv, SiteAhead, CopyAhead, DocTypeOK
<1>5. CopyAhead'
  BY <1>1, <1>2 DEF TextInv, OneChain, CopyAhead, DocTypeOK
<1> QED BY <1>3, <1>4, <1>5 DEF TextInv

LEMMA EditedText ==
  ASSUME DocTypeOK, TextInv, EditSite
  PROVE  TextInv'
<1>1. UNCHANGED <<body, newest, at, mine, page, copy>> /\ edits' = edits + 1 /\ edits \in Nat
  BY DEF EditSite, pageVars, chainVars, DocTypeOK
<1>2. PICK r \in Pages, v \in {0, edits + 2} : site' = [site EXCEPT ![r] = v]
  BY DEF EditSite
<1>3. \A q \in Pages : site[q] \in Int /\ newest[q] \in Int /\ site'[q] = IF q = r THEN v ELSE site[q]
  BY <1>2 DEF DocTypeOK, Versions
<1>4. OneChain' /\ PagesMoveForward'
  BY <1>1 DEF TextInv, OneChain, PagesMoveForward
<1>5. SiteAhead'
  BY <1>1, <1>3 DEF TextInv, SiteAhead
<1>6. \A w \in Workers : copy[w] \in Int
  BY DEF DocTypeOK, Versions
<1>7. CopyAhead'
  BY <1>1, <1>3, <1>6 DEF TextInv, CopyAhead
<1> QED BY <1>4, <1>5, <1>7 DEF TextInv

LEMMA TextStep == DocTypeOK /\ TextInv /\ [DocNext]_docVars => TextInv'
<1> SUFFICES ASSUME DocTypeOK, TextInv, [DocNext]_docVars
             PROVE  TextInv'
  OBVIOUS
<1>1. ASSUME NEW w \in Workers, CronSync(w) \/ Resync(w)
      PROVE  TextInv'
  <2>1. \E fresh \in BOOLEAN : Begin(w, fresh)
    BY <1>1 DEF CronSync, Resync
  <2> QED BY <2>1, BegunText
<1>2. ASSUME NEW w \in Workers, BatchHeld(w) \/ ReadFails(w) \/ Superseded(w) \/ FinishSync(w) \/ ChainDies(w)
      PROVE  TextInv'
  BY <1>2, EndsText, KeptText DEF BatchHeld, ReadFails, Superseded, FinishSync, ChainDies, providerSiteVars, pageVars
<1>3. ASSUME NEW w \in Workers, ListingChanged(w)
      PROVE  TextInv'
  <2>1. EndChain(w) \/ UNCHANGED chainVars
    BY <1>3 DEF ListingChanged
  <2>2. CASE UNCHANGED chainVars
    BY <1>3, <2>2, KeptText DEF ListingChanged, TextKept, ChainsKept, chainVars
  <2> QED BY <1>3, <2>1, <2>2, EndsText, KeptText DEF ListingChanged
<1>4. ASSUME NEW w \in Workers, PageUnread(w) \/ RecordBatch(w) \/ ResumeFinish(w)
      PROVE  TextInv'
  BY <1>4, KeptText DEF PageUnread, RecordBatch, ResumeFinish, Goes, TextKept, ChainsKept, DocTypeOK,
                        providerSiteVars, pageVars
<1>5. ASSUME NEW w \in Workers, PrunePage(w)
      PROVE  TextInv'
  <2>1. UNCHANGED <<site, edits, newest, mine, page, copy>>
    BY <1>5 DEF PrunePage, Goes, chainVars, providerSiteVars
  <2>2. \A v \in Workers : at'[v] = "read" => at[v] = "read"
    BY <1>5 DEF PrunePage, Goes, chainVars, DocTypeOK
  <2>3. \A r \in Pages : body'[r] \in {0, body[r]}
    BY <1>5 DEF PrunePage, DocTypeOK
  <2> QED BY <2>1, <2>2, <2>3 DEF TextInv, OneChain, SiteAhead, CopyAhead, PagesMoveForward
<1>6. CASE CursorDies \/ PauseCrons \/ ResumeCrons \/ UNCHANGED docVars
  <2>1. UNCHANGED <<site, edits, body, newest, at, mine, page, copy>>
    BY <1>6 DEF CursorDies, PauseCrons, ResumeCrons, docVars, providerSiteVars, pageVars, chainVars
  <2> QED BY <2>1 DEF TextInv, OneChain, SiteAhead, CopyAhead, PagesMoveForward
<1> QED BY <1>1, <1>2, <1>3, <1>4, <1>5, <1>6, ReadText, StoredText, EditedText DEF DocNext, ChainStep

\* A page of the store never goes back to an older text, whatever superseded
\* the chain that still holds one (assertCurrentGeneration in upsertPage).
THEOREM PagesForward == DocSpec => []PagesMoveForward
<1>1. DocInit => TextInv
  BY DEF DocInit, TextInv, OneChain, SiteAhead, CopyAhead, PagesMoveForward
<1>2. TextInv => PagesMoveForward
  BY DEF TextInv
<1> QED BY <1>1, <1>2, DocType, TextStep, PTL DEF DocSpec


-----------------------------------------------------------------------------
(* A stored page goes when two walks missed it. *)

\* The running generation has stamped what it listed, and nothing the last
\* complete walk listed has been pushed below it.
OwnedRuns == \A w \in Workers : mine[w] => latest.st = "running"
ReadIsListed == latest.st # "completed" => \A r \in latest.read : stamp[r] = "listed"
WalkIsKept == \A r \in lastWalk : stamp[r] \in {"kept", "listed"}
FinishingRuns == \A w \in Workers : mine[w] /\ at[w] \in {"prune", "finish"} => latest.finishing

WalkInv == OwnedRuns /\ ReadIsListed /\ WalkIsKept /\ FinishingRuns

\* What the steps that end no walk and start none leave of it.
WalkKept ==
  /\ \A v \in Workers : mine'[v] => mine[v]
  /\ latest'.read = latest.read /\ latest'.finishing = latest.finishing
  /\ latest'.st = latest.st \/ (latest'.st # "completed" /\ \A v \in Workers : ~mine'[v])
  /\ latest'.st # "completed" => latest.st # "completed"
  /\ UNCHANGED <<stamp, lastWalk>>
  /\ \A v \in Workers : mine'[v] /\ at'[v] \in {"prune", "finish"} => at[v] \in {"prune", "finish"} \/ latest.finishing

LEMMA KeptWalk ==
  ASSUME WalkInv, WalkKept
  PROVE  WalkInv'
BY DEF WalkKept, WalkInv, OwnedRuns, ReadIsListed, WalkIsKept, FinishingRuns

LEMMA BegunWalk ==
  ASSUME DocTypeOK, WalkInv, NEW w \in Workers, NEW fresh \in BOOLEAN, Begin(w, fresh)
  PROVE  WalkInv'
<1> DEFINE spent == IF fresh \/ latest.st = "completed" \/ latest.restarts = 0 THEN 0 ELSE latest.restarts - 1
<1>1. /\ latest' = IF Resumes /\ ~fresh THEN [latest EXCEPT !.st = "running", !.restarts = spent]
                   ELSE [NoRun EXCEPT !.st = "running", !.restarts = spent]
      /\ stamp' = StampsAtBegin(~(Resumes /\ ~fresh)) /\ UNCHANGED lastWalk
      /\ \A v \in Workers : mine'[v] => v = w
      /\ at'[w] = "batch"
  BY DEF Begin, DocTypeOK
<1> HIDE DEF spent
<1>2. CASE Resumes /\ ~fresh
  <2>1. /\ latest'.st = "running" /\ latest'.read = latest.read /\ latest.st # "completed"
        /\ stamp' = stamp
    BY <1>1, <1>2 DEF DocTypeOK, RunRows, Resumes, StampsAtBegin
  <2> QED BY <1>1, <2>1 DEF WalkInv, OwnedRuns, ReadIsListed, WalkIsKept, FinishingRuns
<1>3. CASE ~(Resumes /\ ~fresh)
  <2>1. latest'.st = "running" /\ latest'.read = {}
    BY <1>1, <1>3 DEF NoRun
  <2>2. \A r \in Pages : stamp[r] \in {"kept", "listed"} => stamp'[r] \in {"kept", "listed"}
    BY <1>1, <1>3 DEF StampsAtBegin
  <2> QED BY <1>1, <2>1, <2>2 DEF DocTypeOK, WalkInv, OwnedRuns, ReadIsListed, WalkIsKept, FinishingRuns
<1> QED BY <1>2, <1>3

\* A run that fails ends the chain that owned it.
LEMMA FailedWalk ==
  ASSUME DocTypeOK, OneChain, WalkInv, NEW w \in Workers, NEW how \in {"held", "error"}, FailSync(w, how), EndChain(w),
         UNCHANGED <<stamp, lastWalk>>
  PROVE  WalkInv'
<1>1. /\ ~mine'[w] /\ at'[w] = "idle"
      /\ \A v \in Workers \ {w} : mine'[v] = mine[v] /\ at'[v] = at[v]
  BY DEF EndChain, DocTypeOK
<1>2. CASE mine[w]
  <2>1. latest'.st = how /\ latest'.read = latest.read /\ latest.st = "running"
    BY <1>2 DEF FailSync, DocTypeOK, RunRows, WalkInv, OwnedRuns
  <2>2. \A v \in Workers : ~mine'[v]
    BY <1>1, <1>2 DEF OneChain
  <2> QED BY <2>1, <2>2 DEF WalkInv, OwnedRuns, ReadIsListed, WalkIsKept, FinishingRuns
<1>3. CASE ~mine[w]
  <2>1. UNCHANGED latest
    BY <1>3 DEF FailSync, sourceVars
  <2> QED BY <1>1, <2>1 DEF WalkInv, OwnedRuns, ReadIsListed, WalkIsKept, FinishingRuns
<1> QED BY <1>2, <1>3

LEMMA EndsWalk ==
  ASSUME DocTypeOK, WalkInv, NEW w \in Workers, EndChain(w), UNCHANGED <<latest, stamp, lastWalk>>
  PROVE  WalkInv'
<1>1. /\ ~mine'[w] /\ \A v \in Workers \ {w} : mine'[v] = mine[v] /\ at'[v] = at[v]
  BY DEF EndChain, DocTypeOK
<1> QED BY <1>1 DEF WalkInv, OwnedRuns, ReadIsListed, WalkIsKept, FinishingRuns

LEMMA ChangedWalk ==
  ASSUME DocTypeOK, OneChain, WalkInv, NEW w \in Workers, ListingChanged(w)
  PROVE  WalkInv'
<1>1. CASE latest.restarts >= MaxRestarts
  BY <1>1, FailedWalk DEF ListingChanged
<1>2. CASE ~(latest.restarts >= MaxRestarts)
  <2>1. latest'.st = "running" /\ latest'.read = {} /\ UNCHANGED <<at, mine, lastWalk>>
    BY <1>2 DEF ListingChanged, NoRun, chainVars
  <2>2. \A r \in Pages : stamp[r] \in {"kept", "listed"} => stamp'[r] \in {"kept", "listed"}
    BY <1>2 DEF ListingChanged, StampsAtBegin
  <2>3. mine[w] /\ at[w] = "batch"
    BY DEF ListingChanged, Running
  <2>4. \A v \in Workers : mine'[v] /\ at'[v] \in {"prune", "finish"} => FALSE
    BY <2>1, <2>3 DEF OneChain
  <2> QED BY <2>1, <2>2, <2>4 DEF DocTypeOK, WalkInv, OwnedRuns, ReadIsListed, WalkIsKept, FinishingRuns
<1> QED BY <1>1, <1>2

LEMMA RecordedWalk ==
  ASSUME DocTypeOK, OneChain, WalkInv, NEW w \in Workers, RecordBatch(w)
  PROVE  WalkInv'
<1>1. /\ mine[w] /\ UNCHANGED <<mine, lastWalk>>
      /\ \A v \in Workers \ {w} : at'[v] = at[v]
      /\ at'[w] = IF more[w] THEN "batch" ELSE "prune"
  BY DEF RecordBatch, Running, DocTypeOK
<1>2. /\ latest'.st = latest.st /\ latest'.read = latest.read \cup ({page[w]} \ {NoPage})
      /\ latest'.finishing = ~more[w]
  BY DEF RecordBatch, DocTypeOK, RunRows
<1>3. latest.st = "running"
  BY <1>1 DEF WalkInv, OwnedRuns
<1>4. \A r \in Pages : /\ stamp[r] = "listed" => stamp'[r] = "listed"
                       /\ r = page[w] /\ r # NoPage => stamp'[r] = "listed"
                       /\ stamp'[r] \in {stamp[r], "listed"}
  BY DEF RecordBatch, DocTypeOK
<1>5. latest.read \subseteq Pages /\ page[w] \in Pages \cup {NoPage} /\ lastWalk \subseteq Pages
  BY DEF DocTypeOK, RunRows
<1>6. ReadIsListed'
  BY <1>2, <1>3, <1>4, <1>5 DEF WalkInv, ReadIsListed
<1>7. WalkIsKept'
  BY <1>1, <1>4, <1>5 DEF WalkInv, WalkIsKept
<1>8. OwnedRuns' /\ FinishingRuns'
  BY <1>1, <1>2 DEF OneChain, WalkInv, OwnedRuns, FinishingRuns
<1> QED BY <1>6, <1>7, <1>8 DEF WalkInv

LEMMA PrunedWalk ==
  ASSUME DocTypeOK, WalkInv, NEW w \in Workers, PrunePage(w)
  PROVE  WalkInv'
<1>1. /\ mine[w] /\ at[w] = "prune" /\ UNCHANGED <<latest, mine, lastWalk>>
      /\ \A v \in Workers : at'[v] = at[v] \/ at[v] = "prune"
  BY DEF PrunePage, Running, Goes, DocTypeOK, sourceVars, chainVars
<1>2. \A r \in Pages : stamp'[r] = stamp[r] \/ stamp[r] = "below"
  BY DEF PrunePage, Pruned, DocTypeOK
<1>3. latest.read \subseteq Pages /\ lastWalk \subseteq Pages
  BY DEF DocTypeOK, RunRows
<1> QED BY <1>1, <1>2, <1>3 DEF WalkInv, OwnedRuns, ReadIsListed, WalkIsKept, FinishingRuns

LEMMA FinishedWalk ==
  ASSUME DocTypeOK, OneChain, WalkInv, NEW w \in Workers, FinishSync(w)
  PROVE  WalkInv'
<1>1. /\ latest'.st = "completed" /\ latest.st = "running" /\ lastWalk' = latest.read
      /\ \A v \in Workers : ~mine'[v]
  BY DEF FinishSync, Running, EndChain, DocTypeOK, RunRows, OneChain, WalkInv, OwnedRuns
<1>2. \A r \in latest.read : stamp'[r] = "kept"
  BY <1>1 DEF FinishSync, WalkInv, ReadIsListed, DocTypeOK, RunRows
<1> QED BY <1>1, <1>2 DEF WalkInv, OwnedRuns, ReadIsListed, WalkIsKept, FinishingRuns

LEMMA WalkStep == DocTypeOK /\ OneChain /\ WalkInv /\ [DocNext]_docVars => WalkInv'
<1> SUFFICES ASSUME DocTypeOK, OneChain, WalkInv, [DocNext]_docVars
             PROVE  WalkInv'
  OBVIOUS
<1>1. ASSUME NEW w \in Workers, CronSync(w) \/ Resync(w)
      PROVE  WalkInv'
  <2>1. \E fresh \in BOOLEAN : Begin(w, fresh)
    BY <1>1 DEF CronSync, Resync
  <2> QED BY <2>1, BegunWalk
<1>2. ASSUME NEW w \in Workers, BatchHeld(w) \/ ReadFails(w)
      PROVE  WalkInv'
  BY <1>2, FailedWalk DEF BatchHeld, ReadFails, pageVars
<1>3. ASSUME NEW w \in Workers, Superseded(w) \/ ChainDies(w)
      PROVE  WalkInv'
  BY <1>3, EndsWalk DEF Superseded, ChainDies, sourceVars, pageVars
<1>4. ASSUME NEW w \in Workers, ReadBatch(w)
      PROVE  WalkInv'
  <2>1. /\ latest'.st = latest.st /\ latest'.read = latest.read /\ latest'.finishing = latest.finishing
        /\ UNCHANGED <<mine, stamp, lastWalk>>
        /\ at'[w] = "read" /\ \A v \in Workers \ {w} : at'[v] = at[v]
    BY <1>4 DEF ReadBatch, DocTypeOK, RunRows, pageVars
  <2> QED BY <2>1, KeptWalk DEF WalkKept
<1>5. ASSUME NEW w \in Workers, UpsertPage(w)
      PROVE  WalkInv'
  <2>1. /\ UNCHANGED <<latest, mine, lastWalk>>
        /\ at'[w] = "stored" /\ \A v \in Workers \ {w} : at'[v] = at[v]
        /\ \A r \in Pages : stamp'[r] \in {stamp[r], "listed"}
    BY <1>5 DEF UpsertPage, Goes, DocTypeOK, sourceVars
  <2>2. latest.read \subseteq Pages /\ lastWalk \subseteq Pages
    BY DEF DocTypeOK, RunRows
  <2> QED BY <2>1, <2>2 DEF WalkInv, OwnedRuns, ReadIsListed, WalkIsKept, FinishingRuns
<1>6. ASSUME NEW w \in Workers, PageUnread(w) \/ ResumeFinish(w)
      PROVE  WalkInv'
  BY <1>6, KeptWalk DEF PageUnread, ResumeFinish, Goes, WalkKept, DocTypeOK, sourceVars, pageVars
<1>7. CASE EditSite \/ CursorDies \/ PauseCrons \/ ResumeCrons \/ UNCHANGED docVars
  <2>1. UNCHANGED <<latest, stamp, lastWalk, at, mine>>
    BY <1>7 DEF EditSite, CursorDies, PauseCrons, ResumeCrons, docVars, sourceVars, pageVars, chainVars
  <2> QED BY <2>1, KeptWalk DEF WalkKept
<1> QED BY <1>1, <1>2, <1>3, <1>4, <1>5, <1>6, <1>7, ChangedWalk, RecordedWalk, PrunedWalk, FinishedWalk
        DEF DocNext, ChainStep

\* The steps that take a page's text away.
LEMMA GoneMissed ==
  DocTypeOK /\ TextInv /\ WalkInv /\ [DocNext]_docVars =>
    \A r \in Pages : body[r] # 0 /\ body'[r] = 0 =>
      r \notin lastWalk /\ r \notin latest.read /\ latest.finishing
<1> SUFFICES ASSUME DocTypeOK, TextInv, WalkInv, [DocNext]_docVars, NEW r \in Pages, body[r] # 0, body'[r] = 0
             PROVE  r \notin lastWalk /\ r \notin latest.read /\ latest.finishing
  OBVIOUS
<1>1. \E w \in Workers : UpsertPage(w) \/ PrunePage(w)
  <2>1. ASSUME NEW w \in Workers, ChainStep(w), ~UpsertPage(w), ~PrunePage(w)
        PROVE  UNCHANGED body
    BY <2>1 DEF ChainStep, BatchHeld, Superseded, ReadBatch, ListingChanged, ReadFails, PageUnread, RecordBatch,
                ResumeFinish, FinishSync, pageVars
  <2>2. ASSUME NEW w \in Workers, CronSync(w) \/ Resync(w) \/ ChainDies(w)
        PROVE  UNCHANGED body
    BY <2>2 DEF CronSync, Resync, Begin, ChainDies, pageVars
  <2>3. CASE EditSite \/ CursorDies \/ PauseCrons \/ ResumeCrons \/ UNCHANGED docVars
    BY <2>3 DEF EditSite, CursorDies, PauseCrons, ResumeCrons, docVars, pageVars
  <2> QED BY <2>1, <2>2, <2>3 DEF DocNext
<1>2. ASSUME NEW w \in Workers, UpsertPage(w)
      PROVE  FALSE
  BY <1>2 DEF UpsertPage, TextInv, CopyAhead, DocTypeOK
<1>3. PICK w \in Workers : PrunePage(w)
  BY <1>1, <1>2
<1>4. mine[w] /\ at[w] = "prune" /\ stamp[r] = "below"
  BY <1>3 DEF PrunePage, Running, Pruned, DocTypeOK
<1> QED BY <1>4 DEF WalkInv, OwnedRuns, ReadIsListed, WalkIsKept, FinishingRuns

\* A stored page goes only when this walk and the last complete one both read
\* to the end without naming it, whatever restarted, resumed, failed or
\* superseded the walks between (pruneBelow, runToResume, recordSyncBatch).
THEOREM PrunedMissedTwice == DocSpec => TwoWalksMissed
<1>1. DocInit => TextInv /\ WalkInv
  BY DEF DocInit, TextInv, OneChain, SiteAhead, CopyAhead, PagesMoveForward, WalkInv, OwnedRuns, ReadIsListed,
         WalkIsKept, FinishingRuns, NoRun
<1>2. TextInv => OneChain
  BY DEF TextInv
<1> QED BY <1>1, <1>2, DocType, TextStep, WalkStep, GoneMissed, PTL DEF DocSpec, TwoWalksMissed

-----------------------------------------------------------------------------
(***************************************************************************)
(* One OAuth pair under any number of refreshes.  That no two present the  *)
(* same refresh token is not inductive: a lease lapses under a slow        *)
(* writer, and its rotation frees the next one's.  What is: a refresh that *)
(* presents a token read the generation the rows have, and holds their     *)
(* lease, or presents an older pair than theirs; and what the issuer gave  *)
(* a refresh of this generation is newer than what they hold.              *)
(***************************************************************************)

USE TimerAssumption, LeaseAssumption, PairsAssumption, AttemptsAtAssumption
    DEF Refreshes, Pairs, Attempts, NoPair

-----------------------------------------------------------------------------
(* Types, and the order the pairs are issued and stored in. *)

Steps == {"idle", "held", "claimed", "answered", "discard", "release", "settle"}
RowType ==
  /\ generation \in Pairs /\ storedPair \in Pairs \cup {NoPair}
  /\ lease \in Refreshes \cup {"free", "dead"}
EndType ==
  /\ revocation \in {"none", "pending", "done", "failed"} /\ revokeAttempts \in 0..MaxCalls
  /\ nextJob \in {"none", "attempt", "expire"}
  /\ call \in [Attempts -> {"none", "calling", "revoked", "failed", "ended"}]
  /\ nextJob = "attempt" => revokeAttempts < MaxCalls
  /\ revocation = "none" => revokeAttempts = 0
TimerType ==
  /\ refreshQueued \in Pairs \cup {-1} /\ retries \in 0..MaxRetries
  /\ refusalTold \in BOOLEAN /\ timerDied \in BOOLEAN
RefreshType ==
  /\ step \in [Refreshes -> Steps] /\ readGen \in [Refreshes -> Pairs]
  /\ presented \in [Refreshes -> Pairs \cup {NoPair}] /\ issuedTo \in [Refreshes -> Pairs \cup {NoPair}]
  /\ outcome \in [Refreshes -> {"ok", "refused", "unreachable"}]
IssuerType == issued \in Pairs /\ liveTokens \subseteq Pairs /\ adrift \subseteq Pairs

InUse(p) == step[p] = "claimed"
\* The pair has not moved on since p read it.
Current(p) == storedPair # NoPair /\ readGen[p] = generation

RowsOrdered ==
  /\ generation <= issued /\ storedPair <= issued
  /\ storedPair # NoPair => generation <= storedPair
ReadsOrdered ==
  \A p \in Refreshes : readGen[p] <= generation /\ presented[p] <= issued /\ issuedTo[p] <= issued
ClaimsApart ==
  \A p \in Refreshes : InUse(p) =>
    /\ presented[p] # NoPair
    /\ Current(p) => lease = p /\ presented[p] = storedPair
    /\ storedPair # NoPair /\ readGen[p] < generation => presented[p] < storedPair
    /\ \A q \in Refreshes : InUse(q) /\ q # p => presented[q] # presented[p]
NewerInHand ==
  \A p \in Refreshes :
    /\ step[p] \in {"answered", "discard"} => issuedTo[p] # NoPair
    /\ step[p] = "answered" /\ Current(p) => issuedTo[p] > storedPair

TokenTypes == RowType /\ EndType /\ TimerType /\ RefreshType /\ IssuerType
TokenOrder == RowsOrdered /\ ReadsOrdered /\ ClaimsApart /\ NewerInHand

LEMMA TypesMean == TokenTypes => TokenTypeOK
BY DEF TokenTypes, RowType, EndType, TimerType, RefreshType, IssuerType, TokenTypeOK, Steps

LEMMA LeaseNames == ASSUME NEW p \in Refreshes PROVE p # "free" /\ p # "dead"
OBVIOUS

\* What a refresh's step leaves to the others.
OnlyIts(p) ==
  \A q \in Refreshes \ {p} :
    /\ step'[q] = step[q] /\ readGen'[q] = readGen[q] /\ presented'[q] = presented[q]
    /\ issuedTo'[q] = issuedTo[q] /\ outcome'[q] = outcome[q]

LEMMA EndedRefresh ==
  ASSUME RefreshType, NEW p \in Refreshes, EndRefresh(p)
  PROVE  RefreshType' /\ OnlyIts(p) /\ step'[p] = "idle" /\ readGen'[p] = 0 /\ presented'[p] = NoPair
         /\ issuedTo'[p] = NoPair /\ outcome'[p] = "ok"
<1>1. step' \in [Refreshes -> Steps] /\ step'[p] = "idle"
  BY DEF EndRefresh, RefreshType, Steps
<1>2. readGen' \in [Refreshes -> Pairs] /\ readGen'[p] = 0
  BY DEF EndRefresh, RefreshType
<1>3. presented' \in [Refreshes -> Pairs \cup {NoPair}] /\ presented'[p] = NoPair
  BY DEF EndRefresh, RefreshType
<1>4. issuedTo' \in [Refreshes -> Pairs \cup {NoPair}] /\ issuedTo'[p] = NoPair
  BY DEF EndRefresh, RefreshType
<1>5. outcome' \in [Refreshes -> {"ok", "refused", "unreachable"}] /\ outcome'[p] = "ok"
  BY DEF EndRefresh, RefreshType
<1>6. OnlyIts(p)
  BY DEF EndRefresh, RefreshType, OnlyIts
<1> QED BY <1>1, <1>2, <1>3, <1>4, <1>5, <1>6 DEF RefreshType

LEMMA EndedWith ==
  ASSUME RefreshType, NEW p \in Refreshes, NEW end \in Steps, NEW how \in {"ok", "refused", "unreachable"},
         EndsWith(p, end, how)
  PROVE  RefreshType' /\ OnlyIts(p) /\ step'[p] = end /\ outcome'[p] = how
         /\ UNCHANGED <<readGen, presented, issuedTo>>
<1>1. RefreshType' /\ step'[p] = end /\ outcome'[p] = how
  BY DEF EndsWith, RefreshType
<1>2. OnlyIts(p) /\ UNCHANGED <<readGen, presented, issuedTo>>
  BY DEF EndsWith, RefreshType, OnlyIts
<1> QED BY <1>1, <1>2


\* A refresh that leaves off: it neither presents a token nor brings a pair,
\* and of the rows it touches no lease but its own.
Leaves(p) ==
  /\ ReadHeld(p) \/ ClaimRefusedLease(p) \/ ExchangeRefused(p) \/ ExchangeUnreachable(p)
     \/ RotateRefused(p) \/ Discard(p) \/ Release(p) \/ SettleRefresh(p) \/ RefreshDies(p)
Aside(p) ==
  /\ step'[p] \notin {"claimed", "answered"} /\ UNCHANGED <<generation, storedPair, issued>>
  /\ lease' = lease \/ (lease = p /\ lease' \in {"free", "dead"})
  /\ readGen'[p] \in {0, readGen[p], generation} /\ presented'[p] \in {NoPair, presented[p]}
  /\ issuedTo'[p] \in {NoPair, issuedTo[p]}
  /\ step'[p] = "discard" => step[p] = "answered" /\ issuedTo'[p] = issuedTo[p]

LEMMA LeavesAside ==
  ASSUME TokenTypes, NEW p \in Refreshes, Leaves(p)
  PROVE  RefreshType' /\ OnlyIts(p) /\ Aside(p)
<1> USE DEF TokenTypes
<1>1. CASE ReadHeld(p)
  <2>1. RefreshType'
    BY <1>1 DEF ReadHeld, RefreshType, RowType, Steps
  <2>2. OnlyIts(p)
    BY <1>1 DEF ReadHeld, RefreshType, OnlyIts
  <2> QED BY <1>1, <2>1, <2>2 DEF ReadHeld, RefreshType, Aside, rowVars, issuerVars
<1>2. CASE ClaimRefusedLease(p) \/ ExchangeRefused(p) \/ ExchangeUnreachable(p) \/ RotateRefused(p) \/ Discard(p)
  <2>1. \E end \in {"settle", "release", "discard"}, how \in {"ok", "refused", "unreachable"} : EndsWith(p, end, how)
    BY <1>2 DEF ClaimRefusedLease, ExchangeRefused, ExchangeUnreachable, RotateRefused, Discard
  <2>2. UNCHANGED <<generation, storedPair, lease, issued>>
    BY <1>2 DEF ClaimRefusedLease, ExchangeRefused, ExchangeUnreachable, RotateRefused, Discard, rowVars,
                issuerVars
  <2>3. step'[p] = "discard" => step[p] = "answered"
    BY <1>2, EndedWith DEF ClaimRefusedLease, ExchangeRefused, ExchangeUnreachable, RotateRefused, Discard, Steps
  <2> QED BY <2>1, <2>2, <2>3, EndedWith DEF Aside, Steps
<1>3. CASE Release(p)
  <2>1. RefreshType'
    BY <1>3 DEF Release, RefreshType, Steps
  <2>2. OnlyIts(p)
    BY <1>3 DEF Release, RefreshType, OnlyIts
  <2> QED BY <1>3, <2>1, <2>2 DEF Release, ReleaseOwn, RefreshType, Aside, issuerVars
<1>4. CASE SettleRefresh(p) \/ RefreshDies(p)
  <2>1. EndRefresh(p)
    BY <1>4 DEF SettleRefresh, RefreshDies
  <2>2. UNCHANGED <<generation, storedPair, issued>> /\ (lease' = lease \/ (lease = p /\ lease' = "dead"))
    BY <1>4 DEF SettleRefresh, RefreshDies, rowVars, issuerVars
  <2> QED BY <2>1, <2>2, EndedRefresh DEF Aside
<1> QED BY <1>1, <1>2, <1>3, <1>4 DEF Leaves

LEMMA AsideOrder ==
  ASSUME TokenTypes, TokenOrder, NEW p \in Refreshes, RefreshType', OnlyIts(p), Aside(p)
  PROVE  TokenOrder'
<1>1. UNCHANGED <<generation, storedPair, issued>>
  BY DEF Aside
<1>2. generation \in Nat /\ storedPair \in Int /\ issued \in Nat
  BY DEF TokenTypes, RowType, IssuerType
<1>3. RowsOrdered'
  BY <1>1 DEF TokenOrder, RowsOrdered
<1>4. ReadsOrdered'
  <2> SUFFICES ASSUME NEW q \in Refreshes
               PROVE  readGen'[q] <= generation /\ presented'[q] <= issued /\ issuedTo'[q] <= issued
    BY <1>1 DEF ReadsOrdered
  <2>1. readGen[q] <= generation /\ presented[q] <= issued /\ issuedTo[q] <= issued
    BY DEF TokenOrder, ReadsOrdered
  <2>2. CASE q # p
    BY <2>1, <2>2 DEF OnlyIts
  <2>3. CASE q = p
    BY <1>2, <2>1, <2>3 DEF Aside
  <2> QED BY <2>2, <2>3
<1>5. ClaimsApart'
  <2> SUFFICES ASSUME NEW q \in Refreshes, step'[q] = "claimed"
               PROVE  /\ presented'[q] # NoPair
                      /\ storedPair # NoPair /\ readGen'[q] = generation => lease' = q /\ presented'[q] = storedPair
                      /\ storedPair # NoPair /\ readGen'[q] < generation => presented'[q] < storedPair
                      /\ \A r \in Refreshes : step'[r] = "claimed" /\ r # q => presented'[r] # presented'[q]
    BY <1>1 DEF ClaimsApart, InUse, Current
  <2>1. q # p /\ step[q] = "claimed" /\ readGen'[q] = readGen[q] /\ presented'[q] = presented[q]
    BY DEF Aside, OnlyIts
  <2>2. \A r \in Refreshes : step'[r] = "claimed" => r # p /\ step[r] = "claimed" /\ presented'[r] = presented[r]
    BY DEF Aside, OnlyIts
  <2>3. lease = q => lease' = q
    BY <2>1 DEF Aside
  <2> QED BY <2>1, <2>2, <2>3 DEF TokenOrder, ClaimsApart, InUse, Current
<1>6. NewerInHand'
  <2>1. \A q \in Refreshes : step'[q] = "answered" =>
          step[q] = "answered" /\ readGen'[q] = readGen[q] /\ issuedTo'[q] = issuedTo[q]
    BY DEF Aside, OnlyIts
  <2>2. \A q \in Refreshes : step'[q] = "discard" =>
          step[q] \in {"answered", "discard"} /\ issuedTo'[q] = issuedTo[q]
    BY DEF Aside, OnlyIts
  <2> QED BY <1>1, <2>1, <2>2 DEF TokenOrder, NewerInHand, Current
<1> QED BY <1>3, <1>4, <1>5, <1>6 DEF TokenOrder


LEMMA ClaimedOrder ==
  ASSUME TokenTypes, TokenOrder, NEW p \in Refreshes, ClaimLease(p)
  PROVE  RefreshType' /\ OnlyIts(p) /\ TokenOrder'
<1>1. /\ step[p] = "held" /\ LiveValue /\ generation = readGen[p] /\ lease = "free" /\ lease' = p
      /\ UNCHANGED <<generation, storedPair, issued, readGen, issuedTo, outcome>>
  BY DEF ClaimLease, MayClaim, issuerVars
<1>2. RefreshType' /\ OnlyIts(p) /\ step'[p] = "claimed" /\ presented'[p] = storedPair
  <2>1. step' \in [Refreshes -> Steps] /\ step'[p] = "claimed"
    BY DEF ClaimLease, TokenTypes, RefreshType, Steps
  <2>2. presented' \in [Refreshes -> Pairs \cup {NoPair}] /\ presented'[p] = storedPair
    BY DEF ClaimLease, TokenTypes, RefreshType, RowType
  <2>3. OnlyIts(p)
    BY DEF ClaimLease, TokenTypes, RefreshType, OnlyIts
  <2> QED BY <1>1, <2>1, <2>2, <2>3 DEF TokenTypes, RefreshType
<1>3. generation \in Nat /\ storedPair \in Int /\ issued \in Nat /\ storedPair # NoPair
  BY <1>1 DEF TokenTypes, RowType, IssuerType, LiveValue
<1>4. RowsOrdered'
  BY <1>1 DEF TokenOrder, RowsOrdered
<1>5. ReadsOrdered'
  BY <1>1, <1>2 DEF TokenOrder, RowsOrdered, ReadsOrdered, OnlyIts
<1>6. \A q \in Refreshes : step'[q] = "claimed" /\ q # p =>
        step[q] = "claimed" /\ readGen[q] < generation /\ presented'[q] = presented[q] /\ presented[q] < storedPair
        /\ presented[q] # NoPair
  <2> SUFFICES ASSUME NEW q \in Refreshes, step'[q] = "claimed", q # p
               PROVE  step[q] = "claimed" /\ readGen[q] < generation /\ presented'[q] = presented[q]
                      /\ presented[q] < storedPair /\ presented[q] # NoPair
    OBVIOUS
  <2>1. step[q] = "claimed" /\ presented'[q] = presented[q]
    BY <1>2 DEF OnlyIts
  <2>2. lease # q
    BY <1>1, LeaseNames
  <2>3. readGen[q] # generation /\ readGen[q] <= generation /\ readGen[q] \in Nat
    BY <1>3, <2>1, <2>2 DEF TokenTypes, RefreshType, TokenOrder, ReadsOrdered, ClaimsApart, InUse, Current
  <2>4. readGen[q] < generation
    BY <1>3, <2>3
  <2> QED BY <1>3, <2>1, <2>4 DEF TokenOrder, ClaimsApart, InUse
<1>7. ClaimsApart'
  <2> SUFFICES ASSUME NEW q \in Refreshes, step'[q] = "claimed"
               PROVE  /\ presented'[q] # NoPair
                      /\ readGen[q] = generation => lease' = q /\ presented'[q] = storedPair
                      /\ readGen[q] < generation => presented'[q] < storedPair
                      /\ \A r \in Refreshes : step'[r] = "claimed" /\ r # q => presented'[r] # presented'[q]
    BY <1>1, <1>3 DEF ClaimsApart, InUse, Current
  <2>1. CASE q = p
    <3>1. \A r \in Refreshes : step'[r] = "claimed" /\ r # q => presented'[r] # presented'[q]
      BY <1>2, <1>3, <1>6, <2>1 DEF TokenTypes, RefreshType
    <3> QED BY <1>1, <1>2, <1>3, <2>1, <3>1
  <2>2. CASE q # p
    <3>1. \A r \in Refreshes : step'[r] = "claimed" /\ r # q => presented'[r] # presented'[q]
      <4> SUFFICES ASSUME NEW r \in Refreshes, step'[r] = "claimed", r # q
                   PROVE  presented'[r] # presented'[q]
        OBVIOUS
      <4>1. CASE r = p
        BY <1>2, <1>3, <1>6, <2>2, <4>1 DEF TokenTypes, RefreshType
      <4>2. CASE r # p
        BY <1>6, <2>2, <4>2 DEF TokenOrder, ClaimsApart, InUse
      <4> QED BY <4>1, <4>2
    <3>2. readGen[q] \in Nat /\ readGen[q] < generation /\ presented'[q] # NoPair /\ presented'[q] < storedPair
      BY <1>6, <2>2 DEF TokenTypes, RefreshType
    <3> QED BY <1>3, <3>1, <3>2
  <2> QED BY <2>1, <2>2
<1>8. NewerInHand'
  <2>1. \A q \in Refreshes : step'[q] \in {"answered", "discard"} => step'[q] = step[q]
    BY <1>2 DEF OnlyIts
  <2> QED BY <1>1, <2>1 DEF TokenOrder, NewerInHand, Current
<1> QED BY <1>2, <1>4, <1>5, <1>7, <1>8 DEF TokenOrder

LEMMA ExchangedOrder ==
  ASSUME TokenTypes, TokenOrder, NEW p \in Refreshes, Exchange(p)
  PROVE  /\ RefreshType' /\ OnlyIts(p) /\ IssuerType' /\ TokenOrder'
         /\ step[p] = "claimed" /\ issued' = issued + 1 /\ issuedTo'[p] \in {issuedTo[p], issued + 1}
         /\ UNCHANGED <<readGen, presented>>
         /\ \/ step'[p] = "answered" /\ issuedTo'[p] = issued + 1 /\ outcome'[p] = outcome[p] /\ adrift' = adrift
            \/ step'[p] = "release" /\ outcome'[p] = "unreachable" /\ adrift' = adrift \cup {issued + 1}
<1>1. /\ step[p] = "claimed" /\ issued < MaxPairs /\ issued' = issued + 1
      /\ UNCHANGED <<generation, storedPair, lease, readGen, presented>>
      /\ liveTokens' = (liveTokens \ {presented[p]}) \cup {issued + 1}
      /\ adrift' \in {adrift, adrift \cup {issued + 1}}
  BY DEF Exchange, rowVars
<1>2. issued \in Nat /\ MaxPairs \in Nat /\ generation \in Nat /\ storedPair \in Int
  BY DEF TokenTypes, RowType, IssuerType
<1>3. IssuerType'
  <2>1. issued + 1 \in 0..MaxPairs /\ liveTokens \subseteq 0..MaxPairs /\ adrift \subseteq 0..MaxPairs
    BY <1>1, <1>2 DEF TokenTypes, IssuerType
  <2>2. liveTokens' \subseteq 0..MaxPairs /\ adrift' \subseteq 0..MaxPairs
    BY <1>1, <2>1
  <2> QED BY <1>1, <2>1, <2>2 DEF IssuerType
<1>4. \/ /\ step' = [step EXCEPT ![p] = "answered"] /\ issuedTo' = [issuedTo EXCEPT ![p] = issued + 1]
         /\ UNCHANGED <<outcome, adrift>>
      \/ /\ step' = [step EXCEPT ![p] = "release"] /\ outcome' = [outcome EXCEPT ![p] = "unreachable"]
         /\ adrift' = adrift \cup {issued + 1} /\ UNCHANGED issuedTo
  BY DEF Exchange
<1>5. issued + 1 \in Pairs
  BY <1>1, <1>2
<1>6. RefreshType' /\ OnlyIts(p)
  BY <1>1, <1>4, <1>5 DEF TokenTypes, RefreshType, OnlyIts, Steps
<1>7. \/ step'[p] = "answered" /\ issuedTo'[p] = issued + 1 /\ outcome'[p] = outcome[p] /\ adrift' = adrift
      \/ step'[p] = "release" /\ outcome'[p] = "unreachable" /\ issuedTo'[p] = issuedTo[p]
         /\ adrift' = adrift \cup {issued + 1}
  BY <1>4 DEF TokenTypes, RefreshType
<1>8. RowsOrdered'
  BY <1>1, <1>2 DEF TokenOrder, RowsOrdered
<1>9. ReadsOrdered'
  <2> SUFFICES ASSUME NEW q \in Refreshes
               PROVE  readGen[q] <= generation /\ presented[q] <= issued + 1 /\ issuedTo'[q] <= issued + 1
    BY <1>1 DEF ReadsOrdered
  <2>1. /\ readGen[q] <= generation /\ presented[q] <= issued /\ issuedTo[q] <= issued
        /\ presented[q] \in Int /\ issuedTo[q] \in Int
    BY DEF TokenOrder, ReadsOrdered, TokenTypes, RefreshType
  <2>2. issuedTo'[q] \in {issuedTo[q], issued + 1}
    BY <1>6, <1>7 DEF OnlyIts
  <2> QED BY <1>2, <2>1, <2>2
<1>10. ClaimsApart'
  <2>1. \A q \in Refreshes : step'[q] = "claimed" => step[q] = "claimed"
    BY <1>1, <1>6 DEF OnlyIts
  <2> QED BY <1>1, <2>1 DEF TokenOrder, ClaimsApart, InUse, Current
<1>11. NewerInHand'
  <2> SUFFICES ASSUME NEW q \in Refreshes
               PROVE  /\ step'[q] \in {"answered", "discard"} => issuedTo'[q] # NoPair
                      /\ step'[q] = "answered" /\ Current(q) => issuedTo'[q] > storedPair
    BY <1>1 DEF NewerInHand, Current
  <2>1. CASE q = p
    BY <1>2, <1>7, <2>1 DEF TokenOrder, RowsOrdered
  <2>2. CASE q # p
    BY <1>6, <2>2 DEF OnlyIts, TokenOrder, NewerInHand
  <2> QED BY <2>1, <2>2
<1> QED BY <1>1, <1>3, <1>6, <1>7, <1>8, <1>9, <1>10, <1>11 DEF TokenOrder


LEMMA RotatedOrder ==
  ASSUME TokenTypes, TokenOrder, NEW p \in Refreshes, Rotate(p)
  PROVE  /\ RefreshType' /\ OnlyIts(p) /\ RowType' /\ TokenOrder'
         /\ step[p] = "answered" /\ LiveValue /\ generation = readGen[p] /\ generation' = generation + 1
         /\ storedPair' = issuedTo[p] /\ storedPair' > storedPair /\ storedPair' # NoPair
         /\ step'[p] = "release" /\ outcome'[p] = "ok" /\ UNCHANGED <<readGen, presented, issuedTo, issued>>
<1>1. /\ step[p] = "answered" /\ LiveValue /\ generation = readGen[p] /\ generation' = generation + 1
      /\ storedPair' = issuedTo[p] /\ lease' = "free" /\ issued' = issued /\ EndsWith(p, "release", "ok")
  BY DEF Rotate, RotationStands, issuerVars
<1>2. /\ RefreshType' /\ OnlyIts(p) /\ step'[p] = "release" /\ outcome'[p] = "ok"
      /\ UNCHANGED <<readGen, presented, issuedTo>>
  BY <1>1, EndedWith DEF TokenTypes, Steps
<1>3. generation \in Nat /\ storedPair \in Nat /\ storedPair # NoPair /\ issued \in Nat /\ issued <= MaxPairs
  BY <1>1 DEF TokenTypes, RowType, IssuerType, LiveValue
<1>4. issuedTo[p] # NoPair /\ issuedTo[p] > storedPair /\ issuedTo[p] <= issued /\ issuedTo[p] \in Pairs
  BY <1>1, <1>3 DEF TokenTypes, RefreshType, TokenOrder, NewerInHand, ReadsOrdered, Current
<1>5. generation + 1 <= issuedTo[p]
  BY <1>3, <1>4 DEF TokenOrder, RowsOrdered
<1>6. RowsOrdered' /\ RowType'
  BY <1>1, <1>3, <1>4, <1>5 DEF RowsOrdered, RowType
<1>7. \A q \in Refreshes : readGen[q] \in Nat /\ readGen[q] <= generation
  BY DEF TokenTypes, RefreshType, TokenOrder, ReadsOrdered
<1>8. ReadsOrdered'
  BY <1>1, <1>2, <1>3, <1>7 DEF TokenOrder, ReadsOrdered
<1>9. ClaimsApart'
  <2> SUFFICES ASSUME NEW q \in Refreshes, step'[q] = "claimed"
               PROVE  /\ presented[q] # NoPair /\ readGen[q] < generation + 1 /\ presented[q] < issuedTo[p]
                      /\ \A r \in Refreshes : step'[r] = "claimed" /\ r # q => presented[r] # presented[q]
    BY <1>1, <1>2, <1>3, <1>7 DEF ClaimsApart, InUse, Current
  <2>1. \A r \in Refreshes : step'[r] = "claimed" => step[r] = "claimed"
    BY <1>2 DEF OnlyIts
  <2>2. presented[q] <= storedPair /\ presented[q] \in Int
    BY <1>3, <1>7, <2>1 DEF TokenOrder, ClaimsApart, InUse, Current, TokenTypes, RefreshType
  <2> QED BY <1>3, <1>4, <1>7, <2>1, <2>2 DEF TokenOrder, ClaimsApart, InUse
<1>10. NewerInHand'
  <2>1. \A q \in Refreshes : step'[q] \in {"answered", "discard"} => step[q] = step'[q] /\ readGen[q] # generation'
    BY <1>1, <1>2, <1>3, <1>7 DEF OnlyIts
  <2> QED BY <1>2, <2>1 DEF TokenOrder, NewerInHand, Current
<1> QED BY <1>1, <1>2, <1>3, <1>4, <1>6, <1>8, <1>9, <1>10 DEF TokenOrder

\* What happens around the refreshes: the pair is deleted, or stays.
LEMMA AroundOrder ==
  ASSUME TokenTypes, TokenOrder, UNCHANGED <<generation, refreshVars, issued>>,
         storedPair' \in {storedPair, NoPair},
         lease' = lease \/ \A p \in Refreshes : lease = p => step[p] # "claimed"
  PROVE  TokenOrder'
<1>1. /\ generation' = generation /\ issued' = issued
      /\ UNCHANGED <<step, readGen, presented, issuedTo, outcome>>
  BY DEF refreshVars
<1>2. issued \in Nat /\ issued' = issued
  BY <1>1 DEF TokenTypes, IssuerType
<1>3. RowsOrdered' /\ ReadsOrdered'
  BY <1>1, <1>2 DEF TokenOrder, RowsOrdered, ReadsOrdered
<1>4. ClaimsApart'
  BY <1>1 DEF TokenOrder, ClaimsApart, InUse, Current
<1>5. NewerInHand'
  BY <1>1 DEF TokenOrder, NewerInHand, Current
<1> QED BY <1>3, <1>4, <1>5 DEF TokenOrder

LEMMA EndsTypes ==
  ASSUME TokenTypes,
         \/ EndAccess \/ BeginAttempt \/ RevocationLost \/ Expire \/ ExpireOverdue
         \/ \E n \in Attempts : VendorAnswers(n) \/ RecordAttempt(n)
  PROVE  /\ EndType' /\ storedPair' \in {storedPair, NoPair} /\ liveTokens' \subseteq liveTokens
         /\ UNCHANGED <<generation, lease, timerVars, refreshVars, issued, adrift>>
<1> USE DEF TokenTypes
<1>1. CASE EndAccess \/ RevocationLost \/ Expire \/ ExpireOverdue
  <2>1. /\ UNCHANGED <<generation, lease, timerVars, refreshVars, issued, adrift, liveTokens, revokeAttempts, call>>
        /\ storedPair' \in {storedPair, NoPair}
    BY <1>1 DEF EndAccess, RevocationLost, Expire, ExpireOverdue, FinishRevocation, rowVars, issuerVars
  <2>2. revocation' \in {revocation, "pending", "failed"}
    BY <1>1 DEF EndAccess, RevocationLost, Expire, ExpireOverdue, FinishRevocation
  <2>3. nextJob' \in {nextJob, "none"} \/ (revocation = "none" /\ nextJob' = "attempt")
    BY <1>1 DEF EndAccess, RevocationLost, Expire, ExpireOverdue, FinishRevocation
  <2> QED BY <2>1, <2>2, <2>3 DEF EndType
<1>2. CASE BeginAttempt
  <2>1. UNCHANGED <<generation, storedPair, lease, revocation, timerVars, refreshVars, issued, liveTokens, adrift>>
    BY <1>2 DEF BeginAttempt, rowVars, issuerVars
  <2>2. revokeAttempts < MaxCalls /\ revokeAttempts \in Nat
    BY <1>2 DEF BeginAttempt, EndType
  <2>3. CASE revocation = "pending"
    <3>1. revokeAttempts' = revokeAttempts + 1 /\ nextJob' = AfterAttempt(revokeAttempts + 1)
          /\ call' = [call EXCEPT ![revokeAttempts + 1] = "calling"]
      BY <1>2, <2>3 DEF BeginAttempt
    <3>2. revokeAttempts' \in 0..MaxCalls /\ (nextJob' = "attempt" => revokeAttempts' < MaxCalls)
          /\ nextJob' \in {"attempt", "expire"}
      BY <2>2, <3>1 DEF AfterAttempt
    <3>3. call' \in [Attempts -> {"none", "calling", "revoked", "failed", "ended"}]
      BY <3>1 DEF EndType
    <3> QED BY <2>1, <2>3, <3>2, <3>3 DEF EndType
  <2>4. CASE revocation # "pending"
    BY <1>2, <2>1, <2>4 DEF BeginAttempt, EndType
  <2> QED BY <2>3, <2>4
<1>3. ASSUME NEW n \in Attempts, VendorAnswers(n)
      PROVE  /\ EndType' /\ storedPair' \in {storedPair, NoPair} /\ liveTokens' \subseteq liveTokens
             /\ UNCHANGED <<generation, lease, timerVars, refreshVars, issued, adrift>>
  BY <1>3 DEF VendorAnswers, EndType, rowVars
<1>4. ASSUME NEW n \in Attempts, RecordAttempt(n)
      PROVE  /\ EndType' /\ storedPair' \in {storedPair, NoPair} /\ liveTokens' \subseteq liveTokens
             /\ UNCHANGED <<generation, lease, timerVars, refreshVars, issued, adrift>>
  BY <1>4 DEF RecordAttempt, FinishRevocation, EndType, issuerVars
<1> QED BY <1>1, <1>2, <1>3, <1>4


LEMMA TimerTypes ==
  ASSUME TokenTypes, TokenOrder, NEW p \in Refreshes, RefreshStep(p)
  PROVE  TimerType'
<1>1. CASE UNCHANGED timerVars
  BY <1>1 DEF timerVars, TokenTypes, TimerType
<1>2. CASE ReadHeld(p)
  BY <1>2 DEF ReadHeld, TokenTypes, TimerType
<1>3. CASE Rotate(p)
  <2>1. readGen[p] + 1 \in Pairs
    BY <1>3, RotatedOrder DEF RowType
  <2>2. refreshQueued' = readGen[p] + 1 /\ retries' = 0 /\ refusalTold' = FALSE /\ timerDied' = timerDied
    BY <1>3 DEF Rotate
  <2>3. timerDied \in BOOLEAN /\ 0 \in 0..MaxRetries
    BY DEF TokenTypes, TimerType
  <2> QED BY <2>1, <2>2, <2>3 DEF TimerType
<1>4. CASE SettleRefresh(p)
  <2>1. CASE UNCHANGED timerVars
    BY <2>1 DEF timerVars, TokenTypes, TimerType
  <2>2. CASE Retried(p) /\ refreshQueued' = readGen[p] /\ retries' = retries + 1 /\ UNCHANGED <<refusalTold, timerDied>>
    <3>1. retries + 1 \in 0..MaxRetries /\ readGen[p] \in Pairs
      BY <2>2 DEF Retried, TokenTypes, TimerType, RefreshType
    <3> QED BY <2>2, <3>1 DEF TokenTypes, TimerType
  <2>3. CASE refusalTold' = (outcome[p] = "refused" \/ retries = MaxRetries)
             /\ UNCHANGED <<refreshQueued, retries, timerDied>>
    <3>1. refusalTold' \in BOOLEAN
      BY <2>3
    <3> QED BY <2>3, <3>1 DEF TokenTypes, TimerType
  <2> QED BY <1>4, <2>1, <2>2, <2>3 DEF SettleRefresh
<1>5. CASE RefreshDies(p)
  <2>1. timerDied' = (timerDied \/ p = Timer)
    BY <1>5 DEF RefreshDies
  <2>2. timerDied' \in BOOLEAN
    BY <2>1
  <2> QED BY <1>5, <2>2 DEF RefreshDies, TokenTypes, TimerType
<1> QED
  BY <1>1, <1>2, <1>3, <1>4, <1>5
  DEF RefreshStep, ClaimLease, ClaimRefusedLease, Exchange, ExchangeRefused, ExchangeUnreachable, RotateRefused,
      Discard, Release

LEMMA LeavesTypes ==
  ASSUME TokenTypes, TokenOrder, NEW p \in Refreshes, Leaves(p)
  PROVE  RowType' /\ IssuerType' /\ UNCHANGED endVars
<1>1. UNCHANGED <<generation, storedPair, issued>>
      /\ (lease' = lease \/ (lease = p /\ lease' \in {"free", "dead"}))
  BY LeavesAside DEF Aside
<1>2. issuedTo[p] \in Pairs \cup {NoPair}
  BY DEF TokenTypes, RefreshType
<1>3. liveTokens' \subseteq liveTokens /\ adrift' \subseteq adrift \cup {issuedTo[p]}
  BY DEF Leaves, ReadHeld, ClaimRefusedLease, ExchangeRefused, ExchangeUnreachable, RotateRefused, Discard, Release,
         SettleRefresh, RefreshDies, issuerVars
<1>4. UNCHANGED endVars
  BY DEF Leaves, ReadHeld, ClaimRefusedLease, ExchangeRefused, ExchangeUnreachable, RotateRefused, Discard, Release,
         SettleRefresh, RefreshDies
<1>5. adrift' = adrift \/ step[p] \in {"answered", "discard"}
  BY DEF Leaves, ReadHeld, ClaimRefusedLease, ExchangeRefused, ExchangeUnreachable, RotateRefused, Discard, Release,
         SettleRefresh, RefreshDies, issuerVars
<1>6. adrift' = adrift \/ (adrift' \subseteq adrift \cup {issuedTo[p]} /\ issuedTo[p] \in Pairs)
  BY <1>2, <1>3, <1>5 DEF TokenOrder, NewerInHand
<1> QED BY <1>1, <1>3, <1>4, <1>6 DEF TokenTypes, RowType, IssuerType

LEMMA TokenInit0 == TokenInit => TokenTypes /\ TokenOrder
<1> SUFFICES ASSUME TokenInit
             PROVE  TokenTypes /\ TokenOrder
  OBVIOUS
<1>1. 0 \in 0..MaxPairs /\ 0 \in 0..MaxRetries /\ 0 \in 0..MaxCalls /\ 0 < MaxCalls
  OBVIOUS
<1>2. RowType /\ EndType /\ IssuerType
  BY <1>1 DEF TokenInit, RowType, EndType, IssuerType
<1>3. TimerType
  BY <1>1, Zenon DEF TokenInit, TimerType
<1>4. RefreshType
  BY <1>1 DEF TokenInit, RefreshType, Steps
<1>5. RowsOrdered
  BY DEF TokenInit, RowsOrdered
<1>6. \A p \in Refreshes : step[p] = "idle" /\ readGen[p] = 0 /\ presented[p] = -1 /\ issuedTo[p] = -1
  BY DEF TokenInit
<1>7. ReadsOrdered
  BY <1>6 DEF TokenInit, ReadsOrdered
<1>8. ClaimsApart /\ NewerInHand
  BY <1>6 DEF ClaimsApart, NewerInHand, InUse
<1> QED BY <1>2, <1>3, <1>4, <1>5, <1>7, <1>8 DEF TokenTypes, TokenOrder

LEMMA RefreshOrder ==
  ASSUME TokenTypes, TokenOrder, NEW p \in Refreshes, RefreshStep(p)
  PROVE  TokenTypes' /\ TokenOrder'
<1>1. TimerType'
  BY TimerTypes
<1>2. CASE Leaves(p)
  <2>1. EndType'
    BY <1>2, LeavesTypes DEF TokenTypes, EndType, endVars
  <2> QED BY <1>1, <1>2, <2>1, LeavesAside, LeavesTypes, AsideOrder DEF TokenTypes
<1>3. CASE ClaimLease(p)
  <2>1. RowType' /\ EndType' /\ IssuerType'
    BY <1>3 DEF ClaimLease, TokenTypes, RowType, EndType, IssuerType, endVars, issuerVars
  <2> QED BY <1>1, <1>3, <2>1, ClaimedOrder DEF TokenTypes
<1>4. CASE Exchange(p)
  <2>1. RowType' /\ EndType'
    BY <1>4 DEF Exchange, TokenTypes, RowType, EndType, endVars, rowVars
  <2> QED BY <1>1, <1>4, <2>1, ExchangedOrder DEF TokenTypes
<1>5. CASE Rotate(p)
  <2>1. EndType' /\ IssuerType'
    BY <1>5 DEF Rotate, TokenTypes, EndType, IssuerType, endVars, issuerVars
  <2> QED BY <1>1, <1>5, <2>1, RotatedOrder DEF TokenTypes
<1> QED BY <1>2, <1>3, <1>4, <1>5 DEF RefreshStep, Leaves

LEMMA LapsedOrder ==
  ASSUME TokenTypes, TokenOrder, LeaseLapses
  PROVE  TokenTypes' /\ TokenOrder'
<1>1. /\ lease' = "free" /\ \A p \in Refreshes : lease = p => step[p] # "claimed"
      /\ UNCHANGED <<generation, storedPair, endVars, timerVars, refreshVars, issuerVars>>
  BY DEF LeaseLapses
<1>2. TokenTypes'
  BY <1>1 DEF TokenTypes, RowType, EndType, TimerType, RefreshType, IssuerType, endVars, timerVars, refreshVars,
              issuerVars
<1> QED BY <1>1, <1>2, AroundOrder DEF issuerVars

LEMMA TokenStep == TokenTypes /\ TokenOrder /\ [TokenNext]_tokenVars => (TokenTypes /\ TokenOrder)'
<1> SUFFICES ASSUME TokenTypes, TokenOrder, [TokenNext]_tokenVars
             PROVE  TokenTypes' /\ TokenOrder'
  OBVIOUS
<1>1. CASE \/ EndAccess \/ BeginAttempt \/ RevocationLost \/ Expire \/ ExpireOverdue
           \/ \E n \in Attempts : VendorAnswers(n) \/ RecordAttempt(n)
  <2>1. /\ EndType' /\ storedPair' \in {storedPair, NoPair} /\ liveTokens' \subseteq liveTokens
        /\ UNCHANGED <<generation, lease, timerVars, refreshVars, issued, adrift>>
    BY <1>1, EndsTypes
  <2>2. RowType' /\ IssuerType'
    BY <2>1 DEF TokenTypes, RowType, IssuerType
  <2>3. TimerType' /\ RefreshType'
    BY <2>1 DEF TokenTypes, TimerType, RefreshType, timerVars, refreshVars
  <2> QED BY <2>1, <2>2, <2>3, AroundOrder DEF TokenTypes
<1>2. CASE UNCHANGED tokenVars
  <2>1. UNCHANGED <<generation, storedPair, lease, endVars, timerVars, refreshVars, issuerVars>>
    BY <1>2 DEF tokenVars, rowVars
  <2>2. TokenTypes'
    BY <2>1 DEF TokenTypes, RowType, EndType, TimerType, RefreshType, IssuerType, endVars, timerVars, refreshVars,
                issuerVars
  <2> QED BY <2>1, <2>2, AroundOrder DEF issuerVars
<1> QED BY <1>1, <1>2, RefreshOrder, LapsedOrder DEF TokenNext

\* No two refreshes have the same refresh token out at once, and the one out
\* is the token of the pair stored (the claim's snapshot under the lease of
\* convex/refreshLease.ts).
THEOREM TokenPresentedAlone == TokenSpec => []PresentedAlone
<1>1. TokenTypes /\ TokenOrder => PresentedAlone
  BY DEF TokenTypes, TokenOrder, ClaimsApart, PresentedAlone, InUse, Current
<1> QED BY TokenInit0, TokenStep, <1>1, PTL DEF TokenSpec

\* The stored pair only ever gives way to one issued after it, and never once
\* access has ended (mcpOauth.rotateTokens).
THEOREM TokenPairMovesOn == TokenSpec => PairMovesOn
<1>1. TokenTypes /\ TokenOrder /\ [TokenNext]_tokenVars =>
        [storedPair' # storedPair =>
           storedPair' = NoPair \/ (revocation = "none" /\ storedPair' > storedPair)]_tokenVars
  <2> SUFFICES ASSUME TokenTypes, TokenOrder, TokenNext, storedPair' # storedPair
               PROVE  storedPair' = NoPair \/ (revocation = "none" /\ storedPair' > storedPair)
    OBVIOUS
  <2>1. ASSUME NEW p \in Refreshes, RefreshStep(p)
        PROVE  Rotate(p)
    BY <2>1, LeavesAside DEF RefreshStep, Leaves, Aside, ClaimLease, Exchange, rowVars
  <2>2. ASSUME NEW p \in Refreshes, Rotate(p)
        PROVE  revocation = "none" /\ storedPair' > storedPair
    BY <2>2, RotatedOrder DEF LiveValue
  <2>3. ~LeaseLapses
    BY DEF LeaseLapses
  <2> QED BY <2>1, <2>2, <2>3, EndsTypes DEF TokenNext
<1> QED BY TokenInit0, TokenStep, <1>1, PTL DEF TokenSpec, PairMovesOn


-----------------------------------------------------------------------------
(***************************************************************************)
(* The next refresh.  The scheduled one records nothing when it ends well, *)
(* which is right because the pair has then moved on and whoever moved it  *)
(* queued the next: that is the lemma RefreshAhead needs.                  *)
(***************************************************************************)

WellMeansMoved ==
  \A p \in Refreshes : step[p] \in {"release", "settle"} /\ outcome[p] = "ok" => readGen[p] < generation

LEMMA WellStep ==
  ASSUME TokenTypes, TokenOrder, WellMeansMoved, TokenNext \/ UNCHANGED tokenVars
  PROVE  WellMeansMoved'
<1> SUFFICES ASSUME NEW q \in Refreshes, step'[q] \in {"release", "settle"}, outcome'[q] = "ok"
             PROVE  readGen'[q] < generation'
  BY DEF WellMeansMoved
<1>1. /\ generation \in Nat /\ readGen[q] \in Nat /\ readGen[q] <= generation
      /\ (step[q] \in {"release", "settle"} /\ outcome[q] = "ok" => readGen[q] < generation)
  BY DEF TokenTypes, RowType, RefreshType, TokenOrder, ReadsOrdered, WellMeansMoved
<1>2. ASSUME NEW p \in Refreshes, RefreshStep(p)
      PROVE  readGen'[q] < generation'
  <2>1. CASE p # q
    <3>1. step'[q] = step[q] /\ readGen'[q] = readGen[q] /\ outcome'[q] = outcome[q] /\ generation' \in {generation, generation + 1}
      <4>1. CASE Leaves(p)
        BY <2>1, <4>1, LeavesAside DEF OnlyIts, Aside
      <4>2. CASE ClaimLease(p)
        BY <2>1, <4>2, ClaimedOrder DEF OnlyIts, ClaimLease
      <4>3. CASE Exchange(p)
        BY <2>1, <4>3, ExchangedOrder DEF OnlyIts, Exchange, rowVars
      <4>4. CASE Rotate(p)
        BY <2>1, <4>4, RotatedOrder DEF OnlyIts
      <4> QED BY <1>2, <4>1, <4>2, <4>3, <4>4 DEF RefreshStep, Leaves
    <3> QED BY <1>1, <3>1
  <2>2. CASE p = q
    <3>1. CASE Rotate(p)
      BY <1>1, <2>2, <3>1, RotatedOrder
    <3>2. CASE Exchange(p)
      BY <2>2, <3>2, ExchangedOrder
    <3>3. CASE ClaimLease(p)
      BY <2>2, <3>3 DEF ClaimLease, TokenTypes, RefreshType
    <3>4. CASE ReadHeld(p) \/ SettleRefresh(p) \/ RefreshDies(p)
      <4>1. step'[p] \in {"held", "idle"}
        BY <3>4, EndedRefresh DEF ReadHeld, SettleRefresh, RefreshDies, TokenTypes, RefreshType
      <4> QED BY <2>2, <4>1
    <3>5. CASE Release(p)
      BY <1>1, <2>2, <3>5 DEF Release
    <3>6. CASE ClaimRefusedLease(p) \/ ExchangeRefused(p) \/ ExchangeUnreachable(p) \/ RotateRefused(p) \/ Discard(p)
      <4>1. generation' = generation
        BY <3>6 DEF ClaimRefusedLease, ExchangeRefused, ExchangeUnreachable, RotateRefused, Discard, rowVars
      <4>2. PICK end \in {"settle", "release", "discard"}, how \in {"ok", "refused", "unreachable"} :
              EndsWith(p, end, how) /\ (how = "ok" => end = "discard" \/ generation # readGen[p])
        BY <3>6 DEF ClaimRefusedLease, ExchangeRefused, ExchangeUnreachable, RotateRefused, RotationStands, Discard
      <4>3. step'[q] = end /\ outcome'[q] = how /\ readGen'[q] = readGen[q]
        BY <2>2, <4>2, EndedWith DEF TokenTypes, Steps
      <4> QED BY <1>1, <2>2, <4>1, <4>2, <4>3
    <3> QED BY <1>2, <3>1, <3>2, <3>3, <3>4, <3>5, <3>6 DEF RefreshStep
  <2> QED BY <2>1, <2>2
<1>3. CASE UNCHANGED <<generation, refreshVars>>
  BY <1>1, <1>3 DEF refreshVars
<1>4. UNCHANGED <<generation, refreshVars>> \/ \E p \in Refreshes : RefreshStep(p)
  BY EndsTypes DEF TokenNext, LeaseLapses, tokenVars, rowVars
<1> QED BY <1>2, <1>3, <1>4

LEMMA AheadStep ==
  ASSUME TokenTypes, TokenOrder, WellMeansMoved, RefreshAhead, TokenNext \/ UNCHANGED tokenVars
  PROVE  RefreshAhead'
<1> SUFFICES ASSUME LiveValue'
             PROVE  \/ refreshQueued' = generation' \/ refusalTold' \/ timerDied'
                    \/ step'[Timer] # "idle" /\ readGen'[Timer] = generation'
  BY DEF RefreshAhead
<1>1. ASSUME UNCHANGED <<generation, timerVars, refreshVars>>, LiveValue
      PROVE  RefreshAhead'
  BY <1>1 DEF RefreshAhead, timerVars, refreshVars
<1>2. ASSUME NEW p \in Refreshes, RefreshStep(p)
      PROVE  \/ refreshQueued' = generation' \/ refusalTold' \/ timerDied'
             \/ step'[Timer] # "idle" /\ readGen'[Timer] = generation'
  <2>1. CASE Rotate(p)
    <3>1. refreshQueued' = readGen[p] + 1 /\ generation' = readGen[p] + 1
      BY <2>1 DEF Rotate
    <3> QED BY <3>1
  <2>2. CASE ~Rotate(p)
    <3>1. generation' = generation /\ LiveValue
      <4>1. CASE Leaves(p)
        BY <4>1, LeavesAside, LeavesTypes DEF Aside, LiveValue, endVars
      <4>2. CASE ClaimLease(p) \/ Exchange(p)
        BY <4>2 DEF ClaimLease, Exchange, LiveValue, endVars, rowVars
      <4> QED BY <1>2, <2>2, <4>1, <4>2 DEF RefreshStep, Leaves
    <3>2. \/ refreshQueued = generation \/ refusalTold \/ timerDied
          \/ step[Timer] # "idle" /\ readGen[Timer] = generation
      BY <3>1 DEF RefreshAhead
    <3>3. CASE p # Timer
      <4>1. step'[Timer] = step[Timer] /\ readGen'[Timer] = readGen[Timer]
        BY <1>2, <2>2, <3>3, LeavesAside, ClaimedOrder, ExchangedOrder DEF RefreshStep, Leaves, OnlyIts
      <4>2. refreshQueued' = refreshQueued /\ refusalTold' = refusalTold /\ (timerDied => timerDied')
        <5>1. CASE ReadHeld(p) \/ RefreshDies(p)
          <6>1. refreshQueued' = refreshQueued /\ refusalTold' = refusalTold
            BY <3>3, <5>1 DEF ReadHeld, RefreshDies
          <6>2. timerDied' = timerDied \/ timerDied' = (timerDied \/ p = Timer)
            BY <5>1 DEF ReadHeld, RefreshDies
          <6>3. timerDied => timerDied'
            BY <6>2, Zenon
          <6> QED BY <6>1, <6>3
        <5>2. CASE ~ReadHeld(p) /\ ~RefreshDies(p)
          <6>1. UNCHANGED timerVars
            BY <1>2, <2>2, <3>3, <5>2 DEF RefreshStep, ClaimLease, ClaimRefusedLease, Exchange, ExchangeRefused,
                   ExchangeUnreachable, RotateRefused, Discard, Release, SettleRefresh
          <6> QED BY <6>1 DEF timerVars
        <5> QED BY <5>1, <5>2
      <4> QED BY <3>1, <3>2, <4>1, <4>2
    <3>4. CASE p = Timer
      <4>1. CASE ReadHeld(p)
        BY <3>1, <3>4, <4>1 DEF ReadHeld, TokenTypes, RefreshType
      <4>2. CASE RefreshDies(p)
        BY <3>4, <4>2 DEF RefreshDies
      <4>3. CASE SettleRefresh(p)
        <5>1. UNCHANGED <<generation, timerDied>> /\ step[Timer] = "settle"
          BY <3>4, <4>3 DEF SettleRefresh, rowVars, timerVars
        <5>2. CASE readGen[Timer] # generation
          BY <3>1, <3>2, <3>4, <4>3, <5>2 DEF SettleRefresh, timerVars
        <5>3. CASE readGen[Timer] = generation
          <6>1. outcome[Timer] \in {"refused", "unreachable"}
            BY <5>1, <5>3 DEF WellMeansMoved, TokenTypes, RefreshType, RowType
          <6>2. CASE Retried(p)
            BY <3>1, <3>4, <4>3, <5>3, <6>1, <6>2 DEF SettleRefresh
          <6>3. CASE ~Retried(p)
            <7>1. outcome[Timer] = "refused" \/ retries = MaxRetries
              BY <3>4, <6>1, <6>3 DEF Retried, TokenTypes, TimerType
            <7>2. refusalTold' = (outcome[p] = "refused" \/ retries = MaxRetries)
              BY <3>4, <4>3, <5>3, <6>1, <6>3 DEF SettleRefresh
            <7> QED BY <3>4, <7>1, <7>2
          <6> QED BY <6>2, <6>3
        <5> QED BY <5>2, <5>3
      <4>4. CASE ~ReadHeld(p) /\ ~RefreshDies(p) /\ ~SettleRefresh(p)
        <5>1. UNCHANGED timerVars
          BY <1>2, <2>2, <4>4 DEF RefreshStep, ClaimLease, ClaimRefusedLease, Exchange, ExchangeRefused,
                 ExchangeUnreachable, RotateRefused, Discard, Release
        <5>2. step'[Timer] # "idle" /\ readGen' = readGen
          BY <1>2, <2>2, <3>4, <4>4 DEF RefreshStep, ClaimLease, ClaimRefusedLease, Exchange, ExchangeRefused,
                 ExchangeUnreachable, RotateRefused, Discard, Release, EndsWith, TokenTypes, RefreshType
        <5> QED BY <3>1, <3>2, <5>1, <5>2 DEF timerVars
      <4> QED BY <4>1, <4>2, <4>3, <4>4
    <3> QED BY <3>3, <3>4
  <2> QED BY <2>1, <2>2
<1>3. CASE \/ EndAccess \/ BeginAttempt \/ RevocationLost \/ Expire \/ ExpireOverdue
           \/ \E n \in Attempts : VendorAnswers(n) \/ RecordAttempt(n)
  <2>1. UNCHANGED <<generation, timerVars, refreshVars>>
    BY <1>3, EndsTypes
  <2>2. LiveValue
    <3>2. revocation' = "none" => revocation = "none"
      BY <1>3 DEF EndAccess, BeginAttempt, RevocationLost, VendorAnswers, RecordAttempt, Expire, ExpireOverdue,
                  FinishRevocation
    <3>3. storedPair # NoPair
      BY <1>3, EndsTypes DEF LiveValue
    <3> QED BY <3>2, <3>3 DEF LiveValue
  <2> QED BY <2>1, <2>2, <1>1 DEF RefreshAhead
<1>4. CASE LeaseLapses \/ UNCHANGED tokenVars
  <2>1. UNCHANGED <<generation, timerVars, refreshVars>> /\ LiveValue
    BY <1>4 DEF LeaseLapses, LiveValue, tokenVars, rowVars, endVars
  <2> QED BY <2>1, <1>1 DEF RefreshAhead
<1> QED BY <1>2, <1>3, <1>4 DEF TokenNext

\* A live pair's next refresh is queued, under way, or was refused on the
\* record, unless the scheduled action itself was killed (runScheduledRefresh):
\* also where another refresh rotated the pair under the scheduled one.
THEOREM TokenRefreshAhead == TokenSpec => []RefreshAhead
<1>1. TokenInit => WellMeansMoved /\ RefreshAhead
  <2>1. TokenInit => \A p \in Refreshes : step[p] = "idle"
    BY DEF TokenInit
  <2> QED BY <2>1 DEF TokenInit, WellMeansMoved, RefreshAhead
<1> DEFINE Inv == TokenTypes /\ TokenOrder /\ WellMeansMoved /\ RefreshAhead
<1>2. Inv /\ [TokenNext]_tokenVars => Inv'
  BY TokenStep, WellStep, AheadStep
<1> QED BY TokenInit0, <1>1, <1>2, PTL DEF TokenSpec


-----------------------------------------------------------------------------
(***************************************************************************)
(* The end at the vendor.  Every pair alive is the stored one, adrift, or  *)
(* in a refresh's hand; the stored one is spent once a refresh has its     *)
(* successor, and dead once an attempt was told so.                        *)
(***************************************************************************)

Holds(p) == step[p] \in {"answered", "discard"}
InHand == {issuedTo[p] : p \in {q \in Refreshes : Holds(q)}}
AllAccounted == revocation # "failed" => liveTokens \subseteq {storedPair} \cup adrift \cup InHand
SpentOnRotation == \A p \in Refreshes : step[p] = "answered" /\ Current(p) => storedPair \notin liveTokens
DeadOnceRevoked ==
  \A n \in Attempts :
    /\ call[n] # "none" => revocation # "none"
    /\ call[n] = "revoked" /\ revocation = "pending" => storedPair \notin liveTokens
DeletedAtTheEnd == revocation \in {"done", "failed"} => storedPair = NoPair
NotYetIssued == \A n \in liveTokens : n <= issued
Accounted == AllAccounted /\ SpentOnRotation /\ DeadOnceRevoked /\ DeletedAtTheEnd /\ NotYetIssued

LEMMA LeavesHand ==
  ASSUME TokenTypes, NEW p \in Refreshes, Leaves(p)
  PROVE  /\ liveTokens' \subseteq liveTokens /\ adrift \subseteq adrift'
         /\ Holds(p) => \/ step'[p] = "discard" /\ issuedTo'[p] = issuedTo[p]
                        \/ issuedTo[p] \in adrift' \/ issuedTo[p] \notin liveTokens'
<1>1. liveTokens' \subseteq liveTokens /\ adrift \subseteq adrift'
  BY DEF Leaves, ReadHeld, ClaimRefusedLease, ExchangeRefused, ExchangeUnreachable, RotateRefused, Discard, Release,
         SettleRefresh, RefreshDies, issuerVars
<1>2. CASE RotateRefused(p)
  <2>1. CASE LiveValue
    BY <1>2, <2>1 DEF RotateRefused
  <2>2. CASE ~LiveValue
    <3>1. EndsWith(p, "discard", "refused")
      BY <1>2, <2>2 DEF RotateRefused
    <3> QED BY <1>1, <3>1, EndedWith DEF TokenTypes, Steps
  <2> QED BY <1>1, <2>1, <2>2
<1>3. CASE Discard(p)
  BY <1>1, <1>3 DEF Discard
<1>4. CASE RefreshDies(p)
  BY <1>1, <1>4 DEF RefreshDies, Holds
<1>5. CASE ~RotateRefused(p) /\ ~Discard(p) /\ ~RefreshDies(p)
  BY <1>1, <1>5 DEF Leaves, ReadHeld, ClaimRefusedLease, ExchangeRefused, ExchangeUnreachable, Release, SettleRefresh,
                    Holds
<1> QED BY <1>1, <1>2, <1>3, <1>4, <1>5

LEMMA LeavesAccounted ==
  ASSUME TokenTypes, TokenOrder, Accounted, NEW p \in Refreshes, Leaves(p)
  PROVE  Accounted'
<1>1. UNCHANGED <<generation, storedPair, issued, revocation, call>>
  BY LeavesAside, LeavesTypes DEF Aside, endVars
<1>2. OnlyIts(p) /\ step'[p] # "answered"
  BY LeavesAside DEF Aside
<1>3. /\ liveTokens' \subseteq liveTokens /\ adrift \subseteq adrift'
      /\ Holds(p) => \/ step'[p] = "discard" /\ issuedTo'[p] = issuedTo[p]
                     \/ issuedTo[p] \in adrift' \/ issuedTo[p] \notin liveTokens'
  BY LeavesHand
<1>4. \A n \in InHand : n \in liveTokens' => n \in adrift' \/ n \in InHand'
  <2> SUFFICES ASSUME NEW q \in Refreshes, Holds(q), issuedTo[q] \in liveTokens', issuedTo[q] \notin adrift'
               PROVE  issuedTo[q] \in InHand'
    BY DEF InHand
  <2>1. Holds(q)' /\ issuedTo'[q] = issuedTo[q]
    BY <1>2, <1>3 DEF OnlyIts, Holds
  <2> QED BY <2>1 DEF InHand
<1>5. AllAccounted'
  BY <1>1, <1>3, <1>4 DEF Accounted, AllAccounted
<1>6. SpentOnRotation'
  BY <1>1, <1>2, <1>3 DEF Accounted, SpentOnRotation, OnlyIts, Current
<1>7. DeadOnceRevoked' /\ DeletedAtTheEnd' /\ NotYetIssued'
  BY <1>1, <1>3 DEF Accounted, DeadOnceRevoked, DeletedAtTheEnd, NotYetIssued
<1> QED BY <1>5, <1>6, <1>7 DEF Accounted

LEMMA ClaimedAccounted ==
  ASSUME TokenTypes, TokenOrder, Accounted, NEW p \in Refreshes, ClaimLease(p)
  PROVE  Accounted'
<1>1. /\ UNCHANGED <<generation, storedPair, issued, revocation, call, liveTokens, adrift, readGen, issuedTo>>
      /\ step[p] = "held" /\ step' = [step EXCEPT ![p] = "claimed"]
  BY DEF ClaimLease, issuerVars, endVars
<1>2. \A q \in Refreshes : (Holds(q)' <=> Holds(q)) /\ (step'[q] = "answered" => step[q] = "answered")
  BY <1>1 DEF TokenTypes, RefreshType, Holds
<1>3. InHand' = InHand
  BY <1>1, <1>2 DEF InHand
<1> QED BY <1>1, <1>2, <1>3 DEF Accounted, AllAccounted, SpentOnRotation, DeadOnceRevoked, DeletedAtTheEnd,
                                NotYetIssued, Current

LEMMA ExchangedAccounted ==
  ASSUME TokenTypes, TokenOrder, Accounted, NEW p \in Refreshes, Exchange(p)
  PROVE  Accounted'
<1>1. /\ UNCHANGED <<generation, storedPair, revocation, call, readGen>>
      /\ step[p] = "claimed" /\ issued' = issued + 1 /\ liveTokens' = (liveTokens \ {presented[p]}) \cup {issued + 1}
  BY DEF Exchange, rowVars, endVars
<1>2. OnlyIts(p)
  BY ExchangedOrder
<1>3. \/ step'[p] = "answered" /\ issuedTo'[p] = issued + 1 /\ adrift' = adrift
      \/ step'[p] = "release" /\ adrift' = adrift \cup {issued + 1}
  BY ExchangedOrder
<1>4. issued \in Nat /\ storedPair \in Int /\ storedPair <= issued
  BY DEF TokenTypes, RowType, IssuerType, TokenOrder, RowsOrdered
<1>5. InHand \subseteq InHand' /\ (step'[p] = "answered" => issued + 1 \in InHand')
  <2>1. \A q \in Refreshes : Holds(q) => Holds(q)' /\ issuedTo'[q] = issuedTo[q]
    BY <1>1, <1>2 DEF OnlyIts, Holds
  <2>2. InHand \subseteq InHand'
    BY <2>1 DEF InHand
  <2>3. step'[p] = "answered" => issued + 1 \in InHand'
    BY <1>3 DEF InHand, Holds
  <2> QED BY <2>2, <2>3
<1>6. AllAccounted'
  BY <1>1, <1>3, <1>5 DEF Accounted, AllAccounted
<1>7. SpentOnRotation'
  <2> SUFFICES ASSUME NEW q \in Refreshes, step'[q] = "answered", Current(q)
               PROVE  storedPair \notin liveTokens'
    BY <1>1 DEF SpentOnRotation, Current
  <2>1. storedPair # issued + 1
    BY <1>4
  <2>2. CASE q = p
    BY <1>1, <2>1, <2>2 DEF TokenOrder, ClaimsApart, InUse
  <2>3. CASE q # p
    BY <1>1, <1>2, <2>1, <2>3 DEF Accounted, SpentOnRotation, OnlyIts
  <2> QED BY <2>2, <2>3
<1>8. DeadOnceRevoked' /\ DeletedAtTheEnd'
  BY <1>1, <1>4 DEF Accounted, DeadOnceRevoked, DeletedAtTheEnd
<1>9. NotYetIssued'
  <2>1. \A n \in liveTokens : n \in Int /\ n <= issued
    BY DEF Accounted, NotYetIssued, TokenTypes, IssuerType
  <2> QED BY <1>1, <1>4, <2>1 DEF NotYetIssued
<1> QED BY <1>6, <1>7, <1>8, <1>9 DEF Accounted

LEMMA RotatedAccounted ==
  ASSUME TokenTypes, TokenOrder, Accounted, NEW p \in Refreshes, Rotate(p)
  PROVE  Accounted'
<1>1. /\ OnlyIts(p) /\ step[p] = "answered" /\ LiveValue /\ generation = readGen[p] /\ generation' = generation + 1
      /\ storedPair' = issuedTo[p] /\ step'[p] = "release" /\ UNCHANGED <<readGen, issuedTo, issued>>
  BY RotatedOrder
<1>2. UNCHANGED <<revocation, call, liveTokens, adrift>>
  BY DEF Rotate, endVars, issuerVars
<1>3. storedPair \notin liveTokens
  BY <1>1 DEF Accounted, SpentOnRotation, Current, LiveValue
<1>4. \A n \in InHand : n = storedPair' \/ n \in InHand'
  <2> SUFFICES ASSUME NEW q \in Refreshes, Holds(q), q # p
               PROVE  issuedTo[q] \in InHand'
    BY <1>1 DEF InHand
  <2>1. Holds(q)' /\ issuedTo'[q] = issuedTo[q]
    BY <1>1 DEF OnlyIts, Holds
  <2> QED BY <2>1 DEF InHand
<1>5. AllAccounted'
  BY <1>1, <1>2, <1>3, <1>4 DEF Accounted, AllAccounted, LiveValue
<1>6. SpentOnRotation'
  <2>1. \A q \in Refreshes : readGen'[q] # generation'
    BY <1>1 DEF TokenTypes, RowType, RefreshType, TokenOrder, ReadsOrdered
  <2> QED BY <2>1 DEF SpentOnRotation, Current
<1>7. DeadOnceRevoked' /\ DeletedAtTheEnd' /\ NotYetIssued'
  BY <1>1, <1>2 DEF Accounted, DeadOnceRevoked, DeletedAtTheEnd, NotYetIssued, LiveValue
<1> QED BY <1>5, <1>6, <1>7 DEF Accounted

LEMMA EndsAccounted ==
  ASSUME TokenTypes, Accounted,
         \/ EndAccess \/ BeginAttempt \/ RevocationLost \/ Expire \/ ExpireOverdue
         \/ \E n \in Attempts : VendorAnswers(n) \/ RecordAttempt(n)
  PROVE  Accounted'
<1>1. /\ storedPair' \in {storedPair, NoPair} /\ liveTokens' \subseteq liveTokens
      /\ UNCHANGED <<generation, refreshVars, issued, adrift>>
  BY EndsTypes
<1>2. InHand' = InHand /\ SpentOnRotation' /\ NotYetIssued'
  BY <1>1 DEF InHand, Holds, SpentOnRotation, Current, NotYetIssued, Accounted, refreshVars
<1>3. AllAccounted' /\ DeadOnceRevoked' /\ DeletedAtTheEnd'
  <2>1. CASE EndAccess
    <3>1. revocation = "none" /\ revocation' = "pending" /\ storedPair' = storedPair /\ call' = call
      BY <2>1 DEF EndAccess, rowVars
    <3> QED BY <1>1, <1>2, <3>1 DEF Accounted, AllAccounted, DeadOnceRevoked, DeletedAtTheEnd
  <2>2. CASE BeginAttempt
    <3>1. revocation' = revocation /\ storedPair' = storedPair
          /\ \A n \in Attempts : call'[n] = call[n] \/ (call'[n] = "calling" /\ revocation = "pending")
      BY <2>2 DEF BeginAttempt, rowVars, TokenTypes, EndType
    <3> QED BY <1>1, <1>2, <3>1 DEF Accounted, AllAccounted, DeadOnceRevoked, DeletedAtTheEnd
  <2>3. CASE RevocationLost
    <3>1. revocation' = revocation /\ storedPair' = storedPair /\ call' = call
      BY <2>3 DEF RevocationLost, rowVars
    <3> QED BY <1>1, <1>2, <3>1 DEF Accounted, AllAccounted, DeadOnceRevoked, DeletedAtTheEnd
  <2>4. CASE Expire \/ ExpireOverdue
    <3>1. /\ call' = call
          /\ \/ revocation' = "failed" /\ storedPair' = NoPair
             \/ revocation' = revocation /\ storedPair' = storedPair
      BY <2>4 DEF Expire, ExpireOverdue, FinishRevocation
    <3> QED BY <1>1, <1>2, <3>1 DEF Accounted, AllAccounted, DeadOnceRevoked, DeletedAtTheEnd
  <2>5. ASSUME NEW n \in Attempts, VendorAnswers(n)
        PROVE  AllAccounted' /\ DeadOnceRevoked' /\ DeletedAtTheEnd'
    <3>1. /\ revocation' = revocation /\ storedPair' = storedPair /\ call[n] = "calling"
          /\ \A k \in Attempts \ {n} : call'[k] = call[k]
          /\ call'[n] = "revoked" => storedPair \notin liveTokens'
      BY <2>5 DEF VendorAnswers, rowVars, TokenTypes, EndType
    <3>2. revocation # "none"
      BY <3>1 DEF Accounted, DeadOnceRevoked
    <3> QED BY <1>1, <1>2, <3>1, <3>2 DEF Accounted, AllAccounted, DeadOnceRevoked, DeletedAtTheEnd
  <2>6. ASSUME NEW n \in Attempts, RecordAttempt(n)
        PROVE  AllAccounted' /\ DeadOnceRevoked' /\ DeletedAtTheEnd'
    <3>1. /\ \A k \in Attempts : call'[k] = call[k] \/ (call'[k] = "ended" /\ call[k] # "none")
          /\ \/ revocation' = revocation /\ storedPair' = storedPair
             \/ revocation = "pending" /\ revocation' = "failed" /\ storedPair' = NoPair
             \/ revocation = "pending" /\ call[n] = "revoked" /\ revocation' = "done" /\ storedPair' = NoPair
      BY <2>6 DEF RecordAttempt, FinishRevocation, AttemptStands, TokenTypes, EndType
    <3> QED BY <1>1, <1>2, <3>1 DEF Accounted, AllAccounted, DeadOnceRevoked, DeletedAtTheEnd
  <2> QED BY <2>1, <2>2, <2>3, <2>4, <2>5, <2>6
<1> QED BY <1>2, <1>3 DEF Accounted

LEMMA AccountedStep ==
  ASSUME TokenTypes, TokenOrder, Accounted, TokenNext \/ UNCHANGED tokenVars
  PROVE  Accounted'
<1>1. ASSUME NEW p \in Refreshes, RefreshStep(p)
      PROVE  Accounted'
  BY <1>1, LeavesAccounted, ClaimedAccounted, ExchangedAccounted, RotatedAccounted DEF RefreshStep, Leaves
<1>2. CASE LeaseLapses \/ UNCHANGED tokenVars
  <2>1. UNCHANGED <<generation, storedPair, revocation, call, step, readGen, issuedTo, issued, liveTokens, adrift>>
    BY <1>2 DEF LeaseLapses, tokenVars, rowVars, endVars, refreshVars, issuerVars
  <2> QED BY <2>1 DEF Accounted, AllAccounted, SpentOnRotation, DeadOnceRevoked, DeletedAtTheEnd, NotYetIssued, InHand,
                      Holds, Current
<1> QED BY <1>1, <1>2, EndsAccounted DEF TokenNext

\* Once the vendor said the held token is revoked, nothing issued for the pair
\* is alive, but what a refresh still has in hand, what a killed one or an
\* unanswered issuer left, and what lost a race (sourceRevocation.ts).
THEOREM TokenEnded == TokenSpec => []EndedAtTheVendor
<1>1. TokenInit => Accounted
  BY DEF TokenInit, Accounted, AllAccounted, SpentOnRotation, DeadOnceRevoked, DeletedAtTheEnd, NotYetIssued
<1>2. TokenTypes /\ Accounted => EndedAtTheVendor
  BY DEF TokenTypes, IssuerType, Accounted, AllAccounted, DeletedAtTheEnd, EndedAtTheVendor, InHand, Holds
<1> DEFINE Inv == TokenTypes /\ TokenOrder /\ Accounted
<1>3. Inv /\ [TokenNext]_tokenVars => Inv'
  BY TokenStep, AccountedStep
<1> QED BY TokenInit0, <1>1, <1>2, <1>3, PTL DEF TokenSpec
=============================================================================

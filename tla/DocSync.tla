------------------------------ MODULE DocSync ------------------------------
(***************************************************************************)
(* One documentation source and the generations that read it: convex/      *)
(* docSources.ts (the run rows, their fences and the finish), the action   *)
(* chain of convex/docSyncActions.ts, and src/docs/sync-resume.ts, which   *)
(* says whether a new sync takes over a run that ended short.              *)
(*                                                                         *)
(* A batch reads one page.  A generation is known by its worker, the chain *)
(* of actions that reads it: a worker whose run is no longer the source's  *)
(* running one has lost it for good, so runs need no ids.  A listing       *)
(* number is only ever compared with the running listing's and with the    *)
(* last complete walk's, so a page's stamp (docPageListings.seenBy) is     *)
(* where it stands against those two.                                      *)
(***************************************************************************)
EXTENDS Integers, FiniteSets

CONSTANTS Pages,       \* the pages the provider may hold
          Workers,     \* the chains of sync actions that may be under way
          MaxEdits,    \* bound: changes of the provider's pages
          MaxFaults,   \* bound: failures, kills, resyncs and pauses
          MaxRestarts  \* MAX_LISTING_RESTARTS

ASSUME EditsAssumption == MaxEdits \in Nat /\ MaxFaults \in Nat
ASSUME RestartsAssumption == MaxRestarts \in Nat \ {0}

Versions == 0..(MaxEdits + 1)  \* of a page's content, 0 for no page
NoPage == "no page"

\* A run's row: its state, the pages it has listed, the listing its cursor
\* is bound to, whether it has read every page, the listing restarts spent.
RunRows == [st : {"running", "superseded", "error", "held", "completed"}, read : SUBSET Pages,
            bound : SUBSET Pages, finishing : BOOLEAN, restarts : 0..MaxRestarts]
NoRun == [st |-> "completed", read |-> {}, bound |-> {}, finishing |-> FALSE, restarts |-> 0]

VARIABLES
  \* the provider
  reader,      \* "listing": offsets bound to a listing's digest; "provider": its own cursors
  site,        \* the version of each page there
  edits,       \* changes so far
  refuses,     \* it no longer accepts the cursors of the running listing
  \* the source's row, its runs and pages
  status,      \* status
  latest,      \* the newest run
  previous,    \* the run before it
  stamp,       \* seenBy: "none", "below" the last complete walk's, "kept" since, "listed" by this one
  body,        \* the version stored, 0 for none
  cronsPaused, \* DAY0_CRONS_PAUSED
  \* the chains
  at,          \* where each is
  mine,        \* its run is the source's running one
  page,        \* the page it has read
  copy,        \* the version it read
  more,        \* the reader said more follow
  \* for the properties
  faults,      \* faults so far
  lastWalk,    \* what the last complete walk listed
  newest       \* the newest version ever stored

providerSiteVars == <<reader, site, edits, refuses>>
sourceVars == <<status, latest, previous>>
pageVars == <<stamp, body, newest>>
chainVars == <<at, mine, page, copy, more>>
docVars == <<providerSiteVars, sourceVars, pageVars, cronsPaused, chainVars, faults, lastWalk>>

DocTypeOK ==
  /\ reader \in {"listing", "provider"} /\ site \in [Pages -> Versions]
  /\ edits \in 0..MaxEdits /\ refuses \in BOOLEAN /\ cronsPaused \in BOOLEAN
  /\ status \in {"linking", "synced", "error", "held"}
  /\ latest \in RunRows /\ previous \in RunRows
  /\ stamp \in [Pages -> {"none", "below", "kept", "listed"}]
  /\ body \in [Pages -> Versions] /\ newest \in [Pages -> Versions]
  /\ at \in [Workers -> {"idle", "batch", "read", "stored", "prune", "finish"}]
  /\ mine \in [Workers -> BOOLEAN] /\ page \in [Workers -> Pages \cup {NoPage}]
  /\ copy \in [Workers -> Versions] /\ more \in [Workers -> BOOLEAN]
  /\ faults \in 0..MaxFaults /\ lastWalk \subseteq Pages

DocInit ==
  /\ reader \in {"listing", "provider"}
  /\ site = [r \in Pages |-> 1] /\ edits = 0 /\ refuses = FALSE
  /\ status = "error" /\ latest = NoRun /\ previous = NoRun
  /\ stamp = [r \in Pages |-> "none"] /\ body = [r \in Pages |-> 0]
  /\ newest = [r \in Pages |-> 0] /\ cronsPaused = FALSE
  /\ at = [w \in Workers |-> "idle"] /\ mine = [w \in Workers |-> FALSE]
  /\ page = [w \in Workers |-> NoPage] /\ copy = [w \in Workers |-> 0]
  /\ more = [w \in Workers |-> FALSE]
  /\ faults = 0 /\ lastWalk = {}

Listed == {r \in Pages : site[r] # 0}
Fault == faults < MaxFaults /\ faults' = faults + 1

-----------------------------------------------------------------------------
EndChain(w) ==
  /\ at' = [at EXCEPT ![w] = "idle"] /\ mine' = [mine EXCEPT ![w] = FALSE]
  /\ page' = [page EXCEPT ![w] = NoPage] /\ copy' = [copy EXCEPT ![w] = 0]
  /\ more' = [more EXCEPT ![w] = FALSE]

Goes(w, to) == at' = [at EXCEPT ![w] = to] /\ UNCHANGED <<mine, page, copy, more>>

\* Mutant: a run that failed where the run before it failed is taken over too.
GotNowhereNever == FALSE
\* The newest run is a resume that got no further than the run it took over.
GotNowhere ==
  /\ previous.st \notin {"completed", "held"} /\ latest.st # "held"
  /\ previous.read = latest.read /\ previous.finishing = latest.finishing

\* runToResume: a run that ended short at a cursor a resume can check.
Resumes ==
  /\ latest.st # "completed"
  /\ latest.finishing \/ (reader = "listing" /\ latest.read # {})
  /\ ~GotNowhere

\* Mutant: a resume starts the next listing too.
StampsOnResume(fresh) == [r \in Pages |-> IF stamp[r] = "listed" THEN "kept" ELSE stamp[r]]
\* nextListing, for a walk from page one; a resume goes on under its run's listing.
StampsAtBegin(fresh) ==
  [r \in Pages |-> IF fresh /\ stamp[r] = "listed" THEN "kept" ELSE stamp[r]]

\* beginSync: the run that was running is superseded, and the new one takes
\* over the newest run's cursor and listing, or reads from page one.
Begin(w, fresh) ==
  LET resumed == Resumes /\ ~fresh
      ended == IF latest.st = "running" THEN [latest EXCEPT !.st = "superseded"] ELSE latest
      spent == IF fresh \/ latest.st = "completed" \/ latest.restarts = 0
               THEN 0 ELSE latest.restarts - 1
  IN /\ at[w] = "idle"
     /\ status' = "linking"
     /\ previous' = ended
     /\ latest' = IF resumed THEN [latest EXCEPT !.st = "running", !.restarts = spent]
                  ELSE [NoRun EXCEPT !.st = "running", !.restarts = spent]
     /\ stamp' = StampsAtBegin(~resumed)
     /\ refuses' = (refuses /\ resumed)
     /\ at' = [at EXCEPT ![w] = "batch"]
     /\ mine' = [v \in Workers |-> v = w]
     /\ UNCHANGED <<reader, site, edits, body, newest, cronsPaused, page, copy, more, lastWalk>>

\* The cron's pass leaves a source that is linking to its chain, unless the
\* chain has been dead for half an hour.
CronSync(w) ==
  /\ ~cronsPaused /\ ~\E v \in Workers : mine[v]
  /\ Begin(w, FALSE) /\ UNCHANGED faults

\* The owner's re-read, or a new secret, starts one whatever is running.
Resync(w) == Fault /\ \E fresh \in BOOLEAN : Begin(w, fresh)

\* failSync: only the running generation, at its cursor.
FailSync(w, how) ==
  IF mine[w]
  THEN latest' = [latest EXCEPT !.st = how] /\ status' = how /\ UNCHANGED previous
  ELSE UNCHANGED sourceVars

\* A batch of a paused deployment holds; a superseded chain stops.
BatchHeld(w) ==
  /\ at[w] = "batch" /\ cronsPaused
  /\ FailSync(w, "held") /\ EndChain(w)
  /\ UNCHANGED <<providerSiteVars, pageVars, cronsPaused, faults, lastWalk>>

Superseded(w) ==
  /\ at[w] # "idle" /\ ~mine[w]
  /\ EndChain(w)
  /\ UNCHANGED <<providerSiteVars, sourceVars, pageVars, cronsPaused, faults, lastWalk>>

Running(w, where) == at[w] = where /\ mine[w]
Moved == reader = "listing" /\ latest.read # {} /\ latest.bound # Listed
CursorRefused == refuses /\ latest.read # {}

\* The reader reads the next page of its listing.  A provider's cursor may
\* skip a page, a fault of the walk.
ReadBatch(w) ==
  /\ Running(w, "batch") /\ ~cronsPaused /\ ~latest.finishing /\ ~Moved /\ ~CursorRefused
  /\ LET rest == Listed \ latest.read
     IN /\ \/ rest = {} /\ page' = [page EXCEPT ![w] = NoPage] /\ copy' = [copy EXCEPT ![w] = 0]
           \/ \E r \in rest : /\ page' = [page EXCEPT ![w] = r]
                              /\ copy' = [copy EXCEPT ![w] = site[r]]
        /\ \/ more' = [more EXCEPT ![w] = rest \ {page'[w]} # {}] /\ UNCHANGED faults
           \/ /\ reader = "provider" /\ rest \ {page'[w]} # {} /\ Fault
              /\ more' = [more EXCEPT ![w] = FALSE]
  /\ latest' = IF latest.read = {} THEN [latest EXCEPT !.bound = Listed] ELSE latest
  /\ at' = [at EXCEPT ![w] = "read"]
  /\ UNCHANGED <<providerSiteVars, status, previous, pageVars, cronsPaused, mine, lastWalk>>

\* The listing changed under the cursor: read again from page one, as a new
\* generation under the next listing, until the restarts are spent.
ListingChanged(w) ==
  /\ Running(w, "batch") /\ ~cronsPaused /\ ~latest.finishing /\ Moved
  /\ IF latest.restarts >= MaxRestarts
     THEN FailSync(w, "error") /\ EndChain(w) /\ UNCHANGED <<stamp, refuses>>
     ELSE /\ previous' = [latest EXCEPT !.st = "superseded"]
          /\ latest' = [NoRun EXCEPT !.st = "running", !.restarts = latest.restarts + 1]
          /\ stamp' = StampsAtBegin(TRUE) /\ refuses' = FALSE
          /\ UNCHANGED <<status, chainVars>>
  /\ UNCHANGED <<reader, site, edits, body, newest, cronsPaused, faults, lastWalk>>

\* The read fails: a cursor the provider refuses fails every time.
ReadFails(w) ==
  /\ Running(w, "batch") /\ ~latest.finishing /\ ~Moved
  /\ \/ CursorRefused /\ UNCHANGED faults
     \/ ~CursorRefused /\ Fault
  /\ FailSync(w, "error") /\ EndChain(w)
  /\ UNCHANGED <<providerSiteVars, pageVars, cronsPaused, lastWalk>>

\* Mutant: a page is stored whichever generation read it.
MayStoreAny(w) == TRUE
\* assertCurrentGeneration, in the writing transaction.
MayStore(w) == mine[w]

\* upsertPage: a page new to the store is stamped with the run's listing.
UpsertPage(w) ==
  /\ at[w] = "read" /\ page[w] # NoPage /\ MayStore(w)
  /\ body' = [body EXCEPT ![page[w]] = copy[w]]
  /\ newest' = [newest EXCEPT ![page[w]] = IF copy[w] > @ THEN copy[w] ELSE @]
  /\ stamp' = IF body[page[w]] = 0 THEN [stamp EXCEPT ![page[w]] = "listed"] ELSE stamp
  /\ Goes(w, "stored")
  /\ UNCHANGED <<providerSiteVars, sourceVars, cronsPaused, faults, lastWalk>>

\* A page the store could not take keeps its stored version and is listed.
PageUnread(w) ==
  /\ Running(w, "read")
  /\ page[w] # NoPage => Fault
  /\ page[w] = NoPage => UNCHANGED faults
  /\ Goes(w, "stored")
  /\ UNCHANGED <<providerSiteVars, sourceVars, pageVars, cronsPaused, lastWalk>>

\* recordSyncBatch: the refs are stamped, the cursor moves on, and the chain
\* goes on to the next batch or to the finish.
RecordBatch(w) ==
  /\ Running(w, "stored")
  /\ latest' = [latest EXCEPT !.read = @ \cup ({page[w]} \ {NoPage}), !.finishing = ~more[w]]
  /\ stamp' = IF page[w] = NoPage THEN stamp ELSE [stamp EXCEPT ![page[w]] = "listed"]
  /\ at' = [at EXCEPT ![w] = IF more[w] THEN "batch" ELSE "prune"]
  /\ page' = [page EXCEPT ![w] = NoPage] /\ copy' = [copy EXCEPT ![w] = 0]
  /\ more' = [more EXCEPT ![w] = FALSE]
  /\ UNCHANGED <<providerSiteVars, status, previous, body, newest, cronsPaused, mine, faults, lastWalk>>

\* A batch at a finishing cursor, of a run taken over there, only finishes.
ResumeFinish(w) ==
  /\ Running(w, "batch") /\ ~cronsPaused /\ latest.finishing
  /\ Goes(w, "prune")
  /\ UNCHANGED <<providerSiteVars, sourceVars, pageVars, cronsPaused, faults, lastWalk>>

\* pruneBelow: the pages stamped before the last complete walk's listing.
Pruned == {r \in Pages : stamp[r] = "below"}

\* prunePages: one bounded page of the walk in a transaction.
PrunePage(w) ==
  /\ Running(w, "prune")
  /\ IF Pruned = {} THEN Goes(w, "finish") /\ UNCHANGED <<body, stamp>>
     ELSE /\ \E r \in Pruned : /\ body' = [body EXCEPT ![r] = 0]
                               /\ stamp' = [stamp EXCEPT ![r] = "none"]
          /\ UNCHANGED chainVars
  /\ UNCHANGED <<providerSiteVars, sourceVars, newest, cronsPaused, faults, lastWalk>>

\* finishSync: this walk's listing becomes the last complete one.
FinishSync(w) ==
  /\ Running(w, "finish")
  /\ latest' = [latest EXCEPT !.st = "completed"] /\ status' = "synced"
  /\ stamp' = [r \in Pages |-> CASE stamp[r] = "listed" -> "kept"
                                 [] stamp[r] = "kept" -> "below"
                                 [] OTHER -> stamp[r]]
  /\ lastWalk' = latest.read
  /\ EndChain(w)
  /\ UNCHANGED <<providerSiteVars, previous, body, newest, cronsPaused, faults>>

\* An action of the chain is killed: its run stays the source's running one.
ChainDies(w) ==
  /\ at[w] # "idle" /\ Fault /\ EndChain(w)
  /\ UNCHANGED <<providerSiteVars, sourceVars, pageVars, cronsPaused, lastWalk>>

-----------------------------------------------------------------------------
\* The provider's pages change under the sync.
EditSite ==
  /\ edits < MaxEdits /\ edits' = edits + 1
  /\ \E r \in Pages, v \in {0, edits + 2} : site[r] # v /\ site' = [site EXCEPT ![r] = v]
  /\ UNCHANGED <<reader, refuses, sourceVars, pageVars, cronsPaused, chainVars, faults, lastWalk>>

\* The provider no longer accepts the cursors it gave this walk.
CursorDies ==
  /\ Fault /\ ~refuses /\ refuses' = TRUE
  /\ UNCHANGED <<reader, site, edits, sourceVars, pageVars, cronsPaused, chainVars, lastWalk>>

PauseCrons ==
  /\ ~cronsPaused /\ Fault /\ cronsPaused' = TRUE
  /\ UNCHANGED <<providerSiteVars, sourceVars, pageVars, chainVars, lastWalk>>

ResumeCrons ==
  /\ cronsPaused /\ cronsPaused' = FALSE
  /\ UNCHANGED <<providerSiteVars, sourceVars, pageVars, chainVars, faults, lastWalk>>

ChainStep(w) ==
  \/ BatchHeld(w) \/ Superseded(w) \/ ReadBatch(w) \/ ListingChanged(w)
  \/ ReadFails(w) \/ UpsertPage(w) \/ PageUnread(w) \/ RecordBatch(w)
  \/ ResumeFinish(w) \/ PrunePage(w) \/ FinishSync(w)

DocNext ==
  \/ \E w \in Workers : CronSync(w) \/ Resync(w) \/ ChainStep(w) \/ ChainDies(w)
  \/ EditSite \/ CursorDies \/ PauseCrons \/ ResumeCrons

DocSpec == DocInit /\ [][DocNext]_docVars

-----------------------------------------------------------------------------
\* A stored page goes only when this walk and the last complete one both read
\* to the end without naming it: restarts, resumes, superseded walks and a
\* provider that lists in no fixed order lose no page (pruneBelow, D D2).
TwoWalksMissed ==
  [][\A r \in Pages : body[r] # 0 /\ body'[r] = 0 =>
       r \notin lastWalk /\ r \notin latest.read /\ latest.finishing]_docVars

\* A stored page never goes back to an older text: a chain that was
\* superseded while it read its last batch writes nothing of it, not even
\* into a page that was pruned since (assertCurrentGeneration).
PagesMoveForward ==
  \A r \in Pages : body[r] \in {0, newest[r]}

\* Once the provider, the owner and the runtime leave it alone, a source ends
\* with exactly the provider's pages as they now are: whatever died is taken
\* over, a cursor that is refused is given up, a pause is made good.
DocsConverge == <>[](body = site)
=============================================================================

----------------------------- MODULE ClaimBook -----------------------------
(***************************************************************************)
(* What the employees of an owner may count on of the claims they take:    *)
(* a claim is taken where none clashes with it, is taken from nobody who   *)
(* needs it, and whoever is refused for one is freed in the step that lets *)
(* it go.  ExternalClaims is shown to implement it.                        *)
(***************************************************************************)
CONSTANTS Rows,   \* whoever claims
          Things, \* what is claimed
          Clash,  \* the pairs of claims that never stand together
          Nothing

VARIABLES held,   \* the claims that stand
          needed, \* the claims a row would not be without
          active, \* the rows with work of theirs to do
          told    \* of each row, the claim it was refused for

Claims == Rows \X Things

TypeOK ==
  held \subseteq Claims /\ told \in [Rows -> Claims \cup {Nothing}]

Init == held = {} /\ told = [r \in Rows |-> Nothing]

\* Whom the claims in gone refused is freed as they are let go.
Freed(gone) == [x \in Rows |-> IF told[x] \in gone THEN Nothing ELSE told[x]]
Unneeded(gone) == gone \cap needed = {}

\* On the way to a claim of its own, or to its refusal, a row clears away
\* only what nobody needs.
Take(r) ==
  \E gone \in SUBSET held, t \in Things :
    /\ Unneeded(gone)
    /\ \A c \in held \ gone : <<c, <<r, t>>>> \notin Clash
    /\ held' = (held \ gone) \cup {<<r, t>>} /\ told' = Freed(gone)

Refuse(r) ==
  \E gone \in SUBSET held : \E c \in (held \ gone) \cap needed :
    /\ Unneeded(gone) /\ c[1] # r
    /\ held' = held \ gone /\ told' = [Freed(gone) EXCEPT ![r] = c]

\* A needed claim goes only as its row comes to an end.
LetGo ==
  \E gone \in SUBSET held :
    /\ \A c \in gone \cap needed : c[1] \in active \ active'
    /\ held' = held \ gone /\ told' = Freed(gone)

\* A refused row is to be judged afresh.
Forget(r) == held' = held /\ told' = [told EXCEPT ![r] = Nothing]

\* What the rows need, and whether they are at work, is their own affair.
Next ==
  UNCHANGED <<told, held>> \/ LetGo \/ \E r \in Rows : Take(r) \/ Refuse(r) \/ Forget(r)

Spec == Init /\ [][Next]_<<held, needed, active, told>>
=============================================================================

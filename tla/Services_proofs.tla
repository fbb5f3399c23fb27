-------------------------- MODULE Services_proofs --------------------------
(***************************************************************************)
(* The parts run side by side.  Each keeps the specification it has alone, *)
(* so that whatever is proved of one holds of any behaviour of them all:   *)
(* no part's step touches another's state, and a part that is not run      *)
(* stays in an initial state of its own.                                   *)
(***************************************************************************)
EXTENDS MCServices, Sources_proofs, ManagerDesk_proofs, RunEffects_proofs

-----------------------------------------------------------------------------
(* The types of each part, alone. *)

LEMMA TokenTyped == TokenSpec => []TokenTypeOK
BY TokenInit0, TokenStep, TypesMean, PTL DEF TokenSpec

LEMMA DocTyped == DocSpec => []DocTypeOK
BY DocType DEF DocSpec

LEMMA ClaimTyped == ClaimSpec => []ClaimTypeOK
<1>1. ClaimInv => ClaimTypeOK
  BY DEF ClaimInv
<1> QED BY <1>1, ClaimInvariant, PTL

LEMMA HandTyped == HandSpec => []HandTypeOK
<1>1. HandTypeInv => HandTypeOK
  BY DEF HandTypeInv, PieceTypeOK, MoveTypeOK, HandTypeOK
<1> QED BY <1>1, HandTypeInit, HandTypeStep, PTL DEF HandSpec

-----------------------------------------------------------------------------
(* A step of them all is, of each part, a step of its own or none. *)

LEMMA StartsEach ==
  ServicesInit => TokenInit /\ DocInit /\ DeskInit /\ ClaimInit /\ HandInit /\ ClosingInit
BY DEF ServicesInit

LEMMA StepsToken == [ServicesNext]_services => [TokenNext]_tokenVars
BY DEF ServicesNext, services, ButDocs, ButDesk, ButClaims, ButHandover, ButClosing

LEMMA StepsDocs == [ServicesNext]_services => [DocNext]_docVars
BY DEF ServicesNext, services, ButToken, ButDesk, ButClaims, ButHandover, ButClosing

LEMMA StepsDesk == [ServicesNext]_services => [DeskNext]_deskVars
BY DEF ServicesNext, services, ButToken, ButDocs, ButClaims, ButHandover, ButClosing

LEMMA StepsClaims == [ServicesNext]_services => [ClaimNext]_claimVars
BY DEF ServicesNext, services, ButToken, ButDocs, ButDesk, ButHandover, ButClosing

LEMMA StepsHandover == [ServicesNext]_services => [HandNext]_handVars
BY DEF ServicesNext, services, ButToken, ButDocs, ButDesk, ButClaims, ButClosing

LEMMA StepsClosing == [ServicesNext]_services => [ClosingNext]_closingVars
BY DEF ServicesNext, services, ButToken, ButDocs, ButDesk, ButClaims, ButHandover

LEMMA PartStays == ServicesSpec => [](part \in Parts)
<1>1. ServicesInit => part \in Parts
  BY DEF ServicesInit
<1>2. part \in Parts /\ [ServicesNext]_services => (part \in Parts)'
  BY DEF ServicesNext, services, Only
<1> QED BY <1>1, <1>2, PTL DEF ServicesSpec

-----------------------------------------------------------------------------
\* Run with the others, each part does only what it does alone: a token's
\* refreshes (mcpOauth.ts), a documentation sync, the plan's decision, the claims
\* on a ticket, a handover and a closing phase share no row, so whatever is
\* proved of one holds of them together.
THEOREM PartsKeepTheirWord ==
  ServicesSpec => TokenSpec /\ DocSpec /\ DeskSpec /\ ClaimSpec /\ HandSpec /\ ClosingSpec
BY StartsEach, StepsToken, StepsDocs, StepsDesk, StepsClaims, StepsHandover, StepsClosing, PTL
   DEF ServicesSpec, TokenSpec, DocSpec, DeskSpec, ClaimSpec, HandSpec, ClosingSpec

\* Every part keeps its types: the row, the job and the action of each never
\* hold a value its code does not write.
THEOREM ServicesTyped == ServicesSpec => []ServicesTypeOK
<1>1. part \in Parts /\ TokenTypeOK /\ DocTypeOK /\ DeskTypeOK /\ ClaimTypeOK /\ HandTypeOK /\ ClosingTypeOK
        => ServicesTypeOK
  BY DEF ServicesTypeOK
<1> QED BY <1>1, PartStays, PartsKeepTheirWord, TokenTyped, DocTyped, DeskTyped, ClaimTyped, HandTyped,
           ClosingTyped, PTL
=============================================================================

------------------------- MODULE CompositionProofs -------------------------
(***************************************************************************)
(* The back office as one system: what is proved of idempotency,           *)
(* purchases, purchase orders, quotations and sessions one by one holds of *)
(* the specification that TLC checks with all of them.                     *)
(***************************************************************************)
EXTENDS MCBackoffice, BackofficeProofs, SessionsProofs

-----------------------------------------------------------------------------

\* The interceptor, purchases, orders with their receipts, quotations
\* and sessions share no table: in whatever scene, each component behaves as
\* its own specification says, so what is proved of that holds of the whole.
THEOREM BackofficeImplements ==
  BackofficeSpec => /\ Spec /\ PurchasesSpec /\ ProcurementSpec /\ QuotesSpec /\ SessionsSpec
  <1>1. BackofficeInit => /\ Init /\ PurchasesInit /\ ProcurementInit /\ QuotesInit /\ SessionsInit
    BY DEF BackofficeInit
  <1>2. [UNCHANGED scene /\ BackofficeNext]_<<scene, AllVars>> =>
          /\ [Next]_vars /\ [PurchasesNext]_purchaseVars /\ [ProcurementNext]_procurementVars
          /\ [QuotesNext]_quoteVars /\ [SessionsNext]_sessionVars
    BY DEF BackofficeNext, AllVars
  <1> QED
    BY <1>1, <1>2, PTL DEF BackofficeSpec, Spec, PurchasesSpec, ProcurementSpec, QuotesSpec,
                           SessionsSpec

\* Every row, request, attempt, tab and token of the application keeps its
\* type, whichever of its components steps.
THEOREM BackofficeTypes == BackofficeSpec => []TypesOK
  <1>1. TypeOK /\ PurchasesTypeOK /\ ProcurementTypeOK /\ QuotesTypeOK /\ SessionsTypeOK => TypesOK
    BY DEF TypesOK
  <1> QED
    BY <1>1, BackofficeImplements, IdempotencyTypes, PurchasesTypes, ProcurementTypes,
       QuotationsTypes, SessionsTypes, PTL
=============================================================================

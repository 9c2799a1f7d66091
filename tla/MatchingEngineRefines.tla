----------------------- MODULE MatchingEngineRefines -----------------------
(***************************************************************************)
(* The engine implements PriceTimeMatching, with cancellations racing with *)
(* every access of the matching loop to the book.  The abstract book holds *)
(* what is linked into the levels, and late what CancelOrder has unlinked  *)
(* while the loop held a pointer to it that it will still follow.          *)
(***************************************************************************)
EXTENDS MatchingEngine

Promise == INSTANCE PriceTimeMatching
             WITH late <- Late

(* Every step of the engine is a step of the abstract specification or     *)
(* changes nothing it sees, and every order it takes is finished.          *)
ImplementsPriceTime == Promise!FairSpec
=============================================================================

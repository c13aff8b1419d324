--------------------------- MODULE MC_OfferImport ---------------------------
(***************************************************************************)
(* Instances of OfferImport for TLC: one import at a time, as a user       *)
(* working through the screen does it, and two overlapping imports (a      *)
(* paste while a dropped file is still being summarised).                  *)
(***************************************************************************)
EXTENDS OfferImport

MCOneImport  == {"i1"}
MCTwoImports == {"i1", "i2"}

=============================================================================

----------------------------- MODULE MCCexFeed -----------------------------
(***************************************************************************)
(* Instances of CexFeed for TLC.                                           *)
(***************************************************************************)
EXTENDS CexFeed, TLC

VenueSymmetry == Permutations(Venues)
=============================================================================

----------------------------- MODULE MCListing ------------------------------
(* Instance of Listing for TLC.                                              *)
EXTENDS Listing

ThreeIds == 1 .. 3
TwoAttributes == {1, 2}

=============================================================================

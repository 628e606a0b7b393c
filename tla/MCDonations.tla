---------------------------- MODULE MCDonations ----------------------------
(***************************************************************************)
(* Three calls: a donation is stored, stored again with another amount,    *)
(* removed and shown, in every order of the tasks; two observers, added    *)
(* and removed around the loops.                                           *)
(***************************************************************************)
EXTENDS Donations

CONSTANTS p1, o1, o2
Publishers == {p1}
TwoObservers == {o1, o2}
=============================================================================

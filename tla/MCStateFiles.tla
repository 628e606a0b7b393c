---------------------------- MODULE MCStateFiles ----------------------------
(***************************************************************************)
(* Two threads, three calls, states of one or two pieces: a long state can *)
(* be followed by a shorter one and then be read.                          *)
(***************************************************************************)
EXTENDS StateFiles

CONSTANTS c1, c2
TwoCallers == {c1, c2}
=============================================================================

-------------------------- MODULE MCPublisherPaging --------------------------
(***************************************************************************)
(* Tables of up to eight rows read in pages of one to three: the table     *)
(* ends before, at and after a page boundary.                              *)
(***************************************************************************)
EXTENDS PublisherPaging

PageSizes == 1 .. 3
=============================================================================

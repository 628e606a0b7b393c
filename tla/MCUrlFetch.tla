----------------------------- MODULE MCUrlFetch -----------------------------
(***************************************************************************)
(* Two threads making three requests, with two addresses: each address is  *)
(* reused, and calls of LoadURL, fetches and answers overlap.              *)
(***************************************************************************)
EXTENDS UrlFetch

CONSTANTS c1, c2, a1, a2
TwoCallers == {c1, c2}
TwoAddresses == {a1, a2}
=============================================================================

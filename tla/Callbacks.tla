------------------------------ MODULE Callbacks ------------------------------
(***************************************************************************)
(* What the service promises the library about a call that takes a         *)
(* handler (LoadLedgerState, SaveLedgerState, LoadURL and their kind): the *)
(* call returns, its result is made, and a thread of its own gives the     *)
(* result to the handler, once.  Results are made and given in any order;  *)
(* a process that dies answers nothing any more.  StateFiles and UrlFetch  *)
(* implement this.                                                         *)
(***************************************************************************)
CONSTANT Call

VARIABLES
  made,    \* calls made so far
  open,    \* those whose handler has not been called
  ready    \* those of them whose result has been made

vars == <<made, open, ready>>

Init == made = {} /\ open = {} /\ ready = {}

Make(n) ==
  /\ n \notin made
  /\ made' = made \cup {n} /\ open' = open \cup {n}
  /\ UNCHANGED ready

Complete(n) ==
  /\ n \in open \ ready
  /\ ready' = ready \cup {n}
  /\ UNCHANGED <<made, open>>

Answer(n) ==
  /\ n \in ready
  /\ open' = open \ {n} /\ ready' = ready \ {n}
  /\ UNCHANGED made

Die == open' = {} /\ ready' = {} /\ UNCHANGED made

Next == Die \/ \E n \in Call : Make(n) \/ Complete(n) \/ Answer(n)

Spec == Init /\ [][Next]_vars
=============================================================================

----------------------------- MODULE DurableSaves -----------------------------
(***************************************************************************)
(* What a client of a store is promised: an item that is saved stays       *)
(* saved, and only a saved item is acknowledged.  Storing and              *)
(* acknowledging are separate steps, since the thread that saves may fail  *)
(* or die between them, or one step.  Nothing is promised of an item that  *)
(* was not acknowledged.  PublisherInfoDatabase implements this for        *)
(* publishers and for media keys.                                          *)
(***************************************************************************)
CONSTANT Item

VARIABLES saved, acked

Init == saved = {} /\ acked = {}

Store(i) == saved' = saved \cup {i} /\ UNCHANGED acked
Acknowledge(i) == i \in saved /\ acked' = acked \cup {i} /\ UNCHANGED saved
StoreAndAcknowledge(i) == saved' = saved \cup {i} /\ acked' = acked \cup {i}

Next ==
  \E i \in Item : Store(i) \/ Acknowledge(i) \/ StoreAndAcknowledge(i)

Spec == Init /\ [][Next]_<<saved, acked>>
=============================================================================

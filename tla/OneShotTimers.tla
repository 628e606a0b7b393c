---------------------------- MODULE OneShotTimers ----------------------------
(***************************************************************************)
(* What SetTimer promises the library: a timer that is granted, within the *)
(* number AllowTimersRun allows, is armed, expires and has OnTimer called, *)
(* each once and in this order.  How many threads set timers, and on which *)
(* threads they expire, is left open.  ServiceTimers implements this.      *)
(***************************************************************************)
EXTENDS Naturals

CONSTANTS
  Timer,    \* the timers, numbered from 1
  Limits    \* the arguments given to AllowTimersRun

VARIABLES
  limit,     \* how many timers may be granted; 0 is no limit
  granted,   \* the last timer granted
  armed,     \* timers that will expire
  fired,     \* timers that have expired, before the OnTimer task is started
  called     \* timers whose OnTimer task has been started

vars == <<limit, granted, armed, fired, called>>

Init == limit = 0 /\ granted = 0 /\ armed = {} /\ fired = {} /\ called = {}

Allow(n) == limit' = granted + n /\ UNCHANGED <<granted, armed, fired, called>>

Grant ==
  /\ limit # 0 => granted < limit
  /\ granted' = granted + 1 /\ granted' \in Timer
  /\ UNCHANGED <<limit, armed, fired, called>>

Arm(i) ==
  /\ i <= granted /\ i \notin armed \cup fired \cup called
  /\ armed' = armed \cup {i}
  /\ UNCHANGED <<limit, granted, fired, called>>

Expire(i) ==
  /\ i \in armed
  /\ armed' = armed \ {i} /\ fired' = fired \cup {i}
  /\ UNCHANGED <<limit, granted, called>>

CallOnTimer(i) ==
  /\ i \in fired \ called
  /\ fired' = fired \ {i} /\ called' = called \cup {i}
  /\ UNCHANGED <<limit, granted, armed>>

Next ==
  \/ \E n \in Limits : Allow(n)
  \/ Grant
  \/ \E i \in Timer : Arm(i) \/ Expire(i) \/ CallOnTimer(i)

Spec == Init /\ [][Next]_vars
=============================================================================

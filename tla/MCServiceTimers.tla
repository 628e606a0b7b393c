-------------------------- MODULE MCServiceTimers --------------------------
(***************************************************************************)
(* ServiceTimers with the limit the driver sets, 1 per round               *)
(* (MCServiceTimers.cfg), and with a limit of 2, under which two threads   *)
(* are in io_.run() at once (MCServiceTimersHang.cfg).                     *)
(***************************************************************************)
EXTENDS ServiceTimers

OneTimer == {1}
TwoTimers == {2}
=============================================================================

----------------------------- MODULE MCLifecycle -----------------------------
(***************************************************************************)
(* Every program of up to four calls, driver.cpp's among them, and         *)
(* driver.cpp's followed by a Shutdown, over three tasks: one being        *)
(* joined, one still listed and one started during the join.  For the      *)
(* write callback: one library call, whose save starts one reply.          *)
(***************************************************************************)
EXTENDS Lifecycle, SequencesExt

DriverProgram == << "Forward", "Join", "CreateWallet", "Join" >>
ShortPrograms == BoundedSeq(Calls, 4) \cup {Append(DriverProgram, "Shutdown")}
SaveProgram == {<< "Forward" >>}
=============================================================================

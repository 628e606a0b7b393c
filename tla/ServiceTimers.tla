---------------------------- MODULE ServiceTimers ----------------------------
(***************************************************************************)
(* The timers of BraveRewardsServiceImpl and the threads they run on.      *)
(*                                                                         *)
(* SetTimer checks the limit set by AllowTimersRun, emplaces a             *)
(* deadline_timer into the vector timers_, arms it on the shared           *)
(* io_service io_, and starts one more thread whose whole body is          *)
(* io_.run(); io_.reset().  The handler of an expired timer runs on one of *)
(* those threads and starts a further thread that calls                    *)
(* ledger_->OnTimer, which may set the next timer.                         *)
(*                                                                         *)
(* Threads are those of TaskRunner, instantiated as T.  A task is named    *)
(* <<kind, number>>: <<"ledger", k>> runs library code, <<"wait", i>> is   *)
(* the thread SetTimer starts for timer i, <<"timer", i>> the one that     *)
(* runs OnTimer(i).  The library (bat-native-ledger) is external: a thread *)
(* in library code may start a task, call SetTimer, or finish.             *)
(*                                                                         *)
(* io_ is boost's io_service, external, kept to the contract this code     *)
(* meets: run() returns at once if no work is outstanding; a thread that   *)
(* finishes the last handler stops the service; a thread in run() returns  *)
(* when it FINDS the service stopped; reset() clears the flag.             *)
(***************************************************************************)
EXTENDS Naturals, Sequences, FiniteSets

CONSTANTS
  MaxTimers,   \* bound: timers ever granted
  MaxLedger,   \* bound: library tasks ever started
  Limits       \* the arguments given to AllowTimersRun, 0 not among them

ASSUME BoundsAssumption ==
  /\ MaxTimers \in Nat /\ MaxLedger \in Nat
  /\ Limits \subseteq Nat \ {0}

Timer == 1 .. MaxTimers
LedgerTask == {<<"ledger", k>> : k \in 1 .. MaxLedger}
WaitTask   == {<<"wait", i>> : i \in Timer}
TimerTask  == {<<"timer", i>> : i \in Timer}
Task   == LedgerTask \cup WaitTask \cup TimerTask
Main   == <<"main", 0>>
NoTask == <<"none", 0>>
Caller == Task \cup {Main}

VARIABLES
  tasks_in_progress_, thread, main, joining,   \* see TaskRunner
  pc,                  \* pc[c]: where thread c is in the code modelled here
  id,                  \* id[c]: the timer c is setting or handling, or 0
  timer_id_,           \* last id granted; also timers_.size()
  max_number_timers_,  \* the limit; 0 is no limit
  capacity,            \* timers_.capacity()
  ref,                 \* ref[c]: capacity of timers_ when c took its "t"
  pending,             \* timers armed on io_ whose handler has not started
  stopped              \* io_'s stopped flag

taskVars  == <<tasks_in_progress_, thread, main, joining>>
timerVars == <<timer_id_, max_number_timers_, capacity, ref>>
ioVars    == <<pending, stopped>>
vars == <<taskVars, pc, id, timerVars, ioVars>>

T == INSTANCE TaskRunner WITH
       Task <- Task, NoTask <- NoTask,
       tasks_in_progress_ <- tasks_in_progress_, thread <- thread,
       main <- main, joining <- joining

Init ==
  /\ T!Init
  /\ pc = [c \in Caller |-> IF c = Main THEN "start"
                            ELSE IF c \in WaitTask THEN "enter" ELSE "code"]
  /\ id = [c \in Caller |-> 0]
  /\ timer_id_ = 0 /\ max_number_timers_ = 0 /\ capacity = 0
  /\ ref = [c \in Caller |-> 0]
  /\ pending = {} /\ stopped = FALSE

Running(c) == IF c = Main THEN main = "out" ELSE thread[c] = "running"
At(c, step) == Running(c) /\ pc[c] = step
Goto(c, step) == pc' = [pc EXCEPT ![c] = step]
-----------------------------------------------------------------------------
(***************************************************************************)
(* The main thread.  The driver calls AllowTimersRun before Init() and     *)
(* again only after a join, so no other thread runs meanwhile.             *)
(***************************************************************************)
AllowTimersRun(timers) ==
  /\ main = "out" /\ pc[Main] \in {"start", "code"}
  /\ T!Quiescent
  /\ timer_id_ + timers <= MaxTimers
  /\ max_number_timers_' = timer_id_ + timers
  /\ Goto(Main, "code")
  /\ UNCHANGED <<taskVars, id, timer_id_, capacity, ref, ioVars>>

JoinCall ==
  /\ pc[Main] = "code"
  /\ T!JoinCall
  /\ UNCHANGED <<pc, id, timerVars, ioVars>>

Join ==
  /\ T!JoinPop \/ T!JoinThread \/ T!JoinReturn
  /\ UNCHANGED <<pc, id, timerVars, ioVars>>

(***************************************************************************)
(* Library code.                                                           *)
(***************************************************************************)
StartLedgerTask(c, k) ==
  /\ At(c, "code")
  /\ \A j \in 1 .. k - 1 : thread[<<"ledger", j>>] # "none"
  /\ T!RunTask(<<"ledger", k>>)
  /\ UNCHANGED <<pc, id, timerVars, ioVars>>

TaskEnd(t) ==
  /\ pc[t] = IF t \in WaitTask THEN "exit" ELSE "code"
  /\ T!TaskEnd(t)
  /\ UNCHANGED <<pc, id, timerVars, ioVars>>

(***************************************************************************)
(* SetTimer.  The part under timer_mx_ is one step; arming the timer       *)
(* through the reference t, and RunTask, come after the unlock.            *)
(***************************************************************************)
\* Mutated form of LimitReached: > for >=.
LimitReachedLate ==
  max_number_timers_ # 0 /\ timer_id_ > max_number_timers_

LimitReached ==
  max_number_timers_ # 0 /\ timer_id_ >= max_number_timers_

\* A FAKED_TIMER_ID is handed out and nothing is armed.
SetTimerRefused(c) ==
  /\ At(c, "code")
  /\ LimitReached
  /\ UNCHANGED vars

\* Mutated form of NewId: timer_id_++ for ++timer_id_.
NewIdPost == timer_id_
NewId == timer_id_ + 1

\* Growth of std::vector when full: by half, by at least one.
Grown(n) == IF n < 2 THEN n + 1 ELSE n + n \div 2

SetTimerGranted(c) ==
  /\ At(c, "code")
  /\ ~ LimitReached
  /\ timer_id_ < MaxTimers
  /\ timer_id_' = timer_id_ + 1
  /\ capacity' = IF timer_id_ = capacity THEN Grown(capacity) ELSE capacity
  /\ id' = [id EXCEPT ![c] = NewId]
  /\ ref' = [ref EXCEPT ![c] = capacity']
  /\ Goto(c, "await")
  /\ UNCHANGED <<taskVars, max_number_timers_, ioVars>>

AsyncWait(c) ==
  /\ At(c, "await")
  /\ pending' = pending \cup {id[c]}
  /\ Goto(c, "runtask")
  /\ UNCHANGED <<taskVars, id, timerVars, stopped>>

\* Mutated form of RunWaitTask: a thread of its own, detached.
RunWaitTaskDetached(c) ==
  /\ At(c, "runtask")
  /\ thread' = [thread EXCEPT ![<<"wait", id[c]>>] = "running"]
  /\ Goto(c, "code")
  /\ UNCHANGED <<tasks_in_progress_, main, joining, id, timerVars, ioVars>>

RunWaitTask(c) ==
  /\ At(c, "runtask")
  /\ T!RunTask(<<"wait", id[c]>>)
  /\ Goto(c, "code")
  /\ UNCHANGED <<id, timerVars, ioVars>>

(***************************************************************************)
(* The wait thread: io_.run(); io_.reset().                                *)
(***************************************************************************)
Handling == {w \in WaitTask : pc[w] \in {"handler", "handled"}}
NoWork == pending = {} /\ Handling = {}

IoRun(w) ==
  /\ At(w, "enter")
  /\ stopped' = (stopped \/ NoWork)
  /\ Goto(w, IF NoWork THEN "reset" ELSE "run")
  /\ UNCHANGED <<taskVars, id, timerVars, pending>>

\* Mutated form of Expire: the timer stays armed.
ExpireKeep(w) ==
  /\ At(w, "run")
  /\ \E i \in pending : id' = [id EXCEPT ![w] = i]
  /\ Goto(w, "handler")
  /\ UNCHANGED <<taskVars, timerVars, ioVars>>

\* A timer has expired; this thread gets its handler.
Expire(w) ==
  /\ At(w, "run")
  /\ \E i \in pending :
       /\ pending' = pending \ {i}
       /\ id' = [id EXCEPT ![w] = i]
  /\ Goto(w, "handler")
  /\ UNCHANGED <<taskVars, timerVars, stopped>>

\* The lambda given to async_wait: RunTask of the OnTimer task.
HandlerRunTask(w) ==
  /\ At(w, "handler")
  /\ T!RunTask(<<"timer", id[w]>>)
  /\ Goto(w, "handled")
  /\ UNCHANGED <<id, timerVars, ioVars>>

HandlerDone(w) ==
  /\ At(w, "handled")
  /\ stopped' = (stopped \/ (pending = {} /\ Handling = {w}))
  /\ Goto(w, "run")
  /\ UNCHANGED <<taskVars, id, timerVars, pending>>

IoReturn(w) ==
  /\ At(w, "run")
  /\ stopped
  /\ Goto(w, "reset")
  /\ UNCHANGED <<taskVars, id, timerVars, ioVars>>

\* Mutated form of IoReset: io_.reset() missing.
IoNoReset(w) ==
  /\ At(w, "reset")
  /\ Goto(w, "exit")
  /\ UNCHANGED <<taskVars, id, timerVars, ioVars>>

IoReset(w) ==
  /\ At(w, "reset")
  /\ stopped' = FALSE
  /\ Goto(w, "exit")
  /\ UNCHANGED <<taskVars, id, timerVars, pending>>
-----------------------------------------------------------------------------
SetTimerStep(c) == AsyncWait(c) \/ RunWaitTask(c)
WaitStep(w) ==
  \/ IoRun(w) \/ Expire(w) \/ HandlerRunTask(w) \/ HandlerDone(w)
  \/ IoReturn(w) \/ IoReset(w)

Next ==
  \/ \E n \in Limits : AllowTimersRun(n)
  \/ JoinCall \/ Join
  \/ \E c \in Caller : \/ \E k \in 1 .. MaxLedger : StartLedgerTask(c, k)
                       \/ SetTimerRefused(c) \/ SetTimerGranted(c)
                       \/ SetTimerStep(c)
  \/ \E w \in WaitTask : WaitStep(w)
  \/ \E t \in Task : TaskEnd(t)

(***************************************************************************)
(* Threads are scheduled, timers expire and library code finishes.  Which  *)
(* of two enabled branches a thread in library code takes is not fair.     *)
(***************************************************************************)
Fairness ==
  /\ WF_vars(Join)
  /\ \A c \in Caller : WF_vars(SetTimerStep(c))
  /\ \A w \in WaitTask : WF_vars(WaitStep(w))
  /\ \A t \in Task : WF_vars(TaskEnd(t))

Spec == Init /\ [][Next]_vars /\ Fairness
-----------------------------------------------------------------------------
TypeOK ==
  /\ T!TypeOK
  /\ pc \in [Caller -> {"start", "code", "await", "runtask", "enter", "run",
                        "handler", "handled", "reset", "exit"}]
  /\ id \in [Caller -> 0 .. MaxTimers]
  /\ timer_id_ \in 0 .. MaxTimers
  /\ max_number_timers_ \in 0 .. MaxTimers
  /\ capacity \in Nat /\ timer_id_ <= capacity
  /\ ref \in [Caller -> 0 .. capacity]
  /\ pending \subseteq 1 .. timer_id_
  /\ stopped \in BOOLEAN

\* AllowTimersRun(n) (README "Testing"): however many threads call SetTimer
\* at once, no timer beyond the limit is granted.
TimerBudget == max_number_timers_ # 0 => timer_id_ <= max_number_timers_

\* SetTimer arms the timer through a reference taken before the unlock:
\* timers_ has not been reallocated in between.
NoDanglingTimer == \A c \in Caller : pc[c] = "await" => ref[c] = capacity

\* io_.reset() is called at the end of every wait thread: no other thread is
\* inside io_.run() at that moment (it would miss the stop and never return).
NoResetUnderRun ==
  \A v, w \in WaitTask :
    ~ (pc[w] = "reset" /\ pc[v] \in {"run", "handler", "handled"})

\* README "Testing": the join waits for all callbacks.  When it returns, no
\* timer that was granted is still waiting for its handler.
JoinLeavesNoTimer == [][main = "loop" /\ main' = "out" => pending = {}]_vars

\* The service's threads are a task runner: in particular every started
\* thread, the ones blocked in io_.run() included, ends.
TasksAreRun == T!Spec

\* SetTimer, io_ and the wait threads together implement OneShotTimers: no timer
\* beyond the budget, none armed or expired twice, and no expiry lost or made up
\* on its way to OnTimer, with any number of wait threads.
OneShot == INSTANCE OneShotTimers WITH
  limit <- max_number_timers_, granted <- timer_id_, armed <- pending,
  fired <- {id[w] : w \in {v \in WaitTask : pc[v] = "handler"}},
  called <- {i \in Timer : thread[<<"timer", i>>] # "none"}
TimersAreOneShot == OneShot!Spec

\* README "Testing": TestingJoinAllRunningTasks returns when the number of
\* timers is limited.
JoinReturns == T!JoinReturns

\* Every granted timer gets its OnTimer call.
TimerFires ==
  \A i \in Timer : timer_id_ >= i ~> thread[<<"timer", i>>] # "none"
=============================================================================

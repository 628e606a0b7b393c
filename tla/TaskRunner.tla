----------------------------- MODULE TaskRunner -----------------------------
(***************************************************************************)
(* The threads of BraveRewardsServiceImpl: RunTask starts one std::thread  *)
(* per task and keeps its handle in tasks_in_progress_;                    *)
(* TestingJoinAllRunningTasks, called by the main thread between tests,    *)
(* takes handles from the back of the vector and joins them until it finds *)
(* the vector empty.  A task may itself call RunTask, so the vector grows  *)
(* while it is being drained.                                              *)
(*                                                                         *)
(* vec_mx_ is held over the whole of emplace_back and over the test and    *)
(* the pop, so each of these is one atomic step.  The lock is released     *)
(* before join(), which blocks.                                            *)
(***************************************************************************)
EXTENDS Naturals, Sequences

CONSTANTS Task,      \* the tasks that may ever be started
          NoTask     \* the moved-from std::thread: no handle

ASSUME NoTaskAssumption == NoTask \notin Task

VARIABLES
  tasks_in_progress_,  \* the vector of thread handles
  thread,              \* thread[t]: the life of the thread started for t
  main,                \* where the main thread is
  joining              \* the local "t" of TestingJoinAllRunningTasks

vars == <<tasks_in_progress_, thread, main, joining>>

Init ==
  /\ tasks_in_progress_ = << >>
  /\ thread = [t \in Task |-> "none"]
  /\ main = "out"
  /\ joining = NoTask

(***************************************************************************)
(* RunTask(task).  It is called by the main thread when it is not joining  *)
(* and by any thread that is running a task.                               *)
(***************************************************************************)
CanCall == main = "out" \/ \E c \in Task : thread[c] = "running"

RunTask(t) ==
  /\ CanCall
  /\ thread[t] = "none"
  /\ thread' = [thread EXCEPT ![t] = "running"]
  /\ tasks_in_progress_' = Append(tasks_in_progress_, t)
  /\ UNCHANGED <<main, joining>>

\* The lambda given to std::thread returns.
TaskEnd(t) ==
  /\ thread[t] = "running"
  /\ thread' = [thread EXCEPT ![t] = "ended"]
  /\ UNCHANGED <<tasks_in_progress_, main, joining>>

JoinCall ==
  /\ main = "out"
  /\ main' = "loop"
  /\ UNCHANGED <<tasks_in_progress_, thread, joining>>

\* Mutated forms of JoinPop: without the std::move, and without pop_back.
JoinPopNoMove ==
  /\ main = "loop"
  /\ tasks_in_progress_ # << >>
  /\ tasks_in_progress_' =
       SubSeq(tasks_in_progress_, 1, Len(tasks_in_progress_) - 1)
  /\ main' = "join"
  /\ UNCHANGED <<thread, joining>>

JoinPopKeep ==
  /\ main = "loop"
  /\ tasks_in_progress_ # << >>
  /\ joining' = tasks_in_progress_[Len(tasks_in_progress_)]
  /\ main' = "join"
  /\ UNCHANGED <<tasks_in_progress_, thread>>

\* t = std::move(back()); pop_back(); unlock.
JoinPop ==
  /\ main = "loop"
  /\ tasks_in_progress_ # << >>
  /\ joining' = tasks_in_progress_[Len(tasks_in_progress_)]
  /\ tasks_in_progress_' =
       SubSeq(tasks_in_progress_, 1, Len(tasks_in_progress_) - 1)
  /\ main' = "join"
  /\ UNCHANGED thread

\* Mutated form of JoinThread: detach() in place of join().
JoinThreadDetach ==
  /\ main = "join"
  /\ joining' = NoTask
  /\ main' = "loop"
  /\ UNCHANGED <<tasks_in_progress_, thread>>

\* t.join() returns once the thread has ended; then the loop goes round.
JoinThread ==
  /\ main = "join"
  /\ thread[joining] = "ended"
  /\ thread' = [thread EXCEPT ![joining] = "joined"]
  /\ joining' = NoTask
  /\ main' = "loop"
  /\ UNCHANGED tasks_in_progress_

JoinReturn ==
  /\ main = "loop"
  /\ tasks_in_progress_ = << >>
  /\ main' = "out"
  /\ UNCHANGED <<tasks_in_progress_, thread, joining>>

Next ==
  \/ \E t \in Task : RunTask(t) \/ TaskEnd(t)
  \/ JoinCall \/ JoinPop \/ JoinThread \/ JoinReturn

(***************************************************************************)
(* Every task ends (the tasks that block are modelled in ServiceTimers)    *)
(* and the main thread, once in TestingJoinAllRunningTasks, keeps going.   *)
(* Nothing obliges anyone to start a task or to call join.                 *)
(***************************************************************************)
Fairness ==
  /\ \A t \in Task : WF_vars(TaskEnd(t))
  /\ WF_vars(JoinPop) /\ WF_vars(JoinThread) /\ WF_vars(JoinReturn)

SafeSpec == Init /\ [][Next]_vars
Spec == SafeSpec /\ Fairness
-----------------------------------------------------------------------------
Live(t) == thread[t] \in {"running", "ended"}
Listed(t) ==
  \E i \in 1 .. Len(tasks_in_progress_) : tasks_in_progress_[i] = t
Held(t) == main = "join" /\ joining = t

\* Types; "none" and "joined" threads have no handle anywhere.
TypeOK ==
  /\ tasks_in_progress_ \in Seq(Task)
  /\ thread \in [Task -> {"none", "running", "ended", "joined"}]
  /\ main \in {"out", "loop", "join"}
  /\ joining \in Task \cup {NoTask}
  /\ main = "join" => joining \in Task

\* A started thread that has not been joined is owned by exactly one
\* std::thread object: one slot of tasks_in_progress_, or the local of
\* TestingJoinAllRunningTasks (RunTask, TestingJoinAllRunningTasks).  A live
\* thread without a handle is one nobody waits for, and a handle met twice
\* would be joined twice.
HandleOwnership ==
  /\ \A t \in Task : Live(t) <=> (Listed(t) \/ Held(t))
  /\ \A t \in Task : ~(Listed(t) /\ Held(t))
  /\ \A i, j \in 1 .. Len(tasks_in_progress_) :
       tasks_in_progress_[i] = tasks_in_progress_[j] => i = j

\* README "Testing": TestingJoinAllRunningTasks waits for ALL spawned tasks.
\* When it returns no thread is running, the ones started by other tasks
\* while it was draining the vector included.
Quiescent == \A t \in Task : ~ Live(t)
JoinWaitsForAll == [][main = "loop" /\ main' = "out" => Quiescent]_vars

\* TestingJoinAllRunningTasks returns, if each task ends and only finitely
\* many are started.
JoinReturns == main # "out" ~> main = "out"
=============================================================================

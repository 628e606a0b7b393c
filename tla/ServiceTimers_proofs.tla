------------------------- MODULE ServiceTimers_proofs -------------------------
(***************************************************************************)
(* The safety properties of ServiceTimers.                                 *)
(*                                                                         *)
(* For any limits: the types, the budget, that the service's threads are   *)
(* those of a task runner, and that its timers are one-shot.  For the      *)
(* limit of one timer per round, which is what the driver sets: at any     *)
(* time one thread at most is busy with a timer, setting it or in the      *)
(* thread that waits for it, and the budget is spent as long as there is   *)
(* one.  From this follow the three properties that a higher limit breaks  *)
(* or strains: no reset under a running io_service, no dangling reference  *)
(* into timers_, and no timer left behind by a join.                       *)
(***************************************************************************)
EXTENDS ServiceTimers, TLAPS

R == INSTANCE TaskRunner_proofs WITH
       Task <- Task, NoTask <- NoTask,
       tasks_in_progress_ <- tasks_in_progress_, thread <- thread,
       main <- main, joining <- joining

\* A thread other than a wait thread is in library code or in SetTimer; a wait
\* thread is in io_.run() and around it.  What a thread has in hand it has only
\* while it runs.
SetSteps == {"code", "await", "runtask"}
WaitSteps == {"enter", "run", "handler", "handled", "reset", "exit"}
Placed ==
  /\ pc[Main] \in SetSteps \cup {"start"}
  /\ \A t \in Task \ WaitTask : pc[t] \in SetSteps
  /\ \A w \in WaitTask : pc[w] \in WaitSteps
  /\ \A w \in WaitTask : thread[w] = "none" => pc[w] = "enter"
  /\ \A c \in Caller : pc[c] \notin {"start", "code", "enter", "exit"} => Running(c)

\* The timer in a thread's hand is one that was granted.
InHand ==
  \A c \in Caller :
    /\ id[c] <= timer_id_
    /\ pc[c] \in {"await", "runtask", "handler"} => id[c] # 0

\* Before AllowTimersRun there is nothing but the main thread.
Started == max_number_timers_ = 0 => pc[Main] = "start" /\ T!Quiescent

\* A thread that is setting a timer, or runs io_ for one.
Busy(c) ==
  IF c \in WaitTask THEN thread[c] = "running" ELSE pc[c] \in {"await", "runtask"}

\* With a limit of one timer per round one thread at most is busy, and none if
\* another timer may be granted.
OneBusy ==
  /\ \A c, d \in Caller : Busy(c) /\ Busy(d) => c = d
  /\ \A c \in Caller : Busy(c) => timer_id_ = max_number_timers_
  /\ timer_id_ + 1 >= max_number_timers_

\* An armed timer is the last one granted, and has a thread that will wait for
\* it: the one that armed it, or its wait thread, before or in io_.run().
Waiter(c) == Busy(c) /\ pc[c] \in {"runtask", "enter", "run"}
Armed ==
  /\ \A c \in Caller : pc[c] \in {"await", "runtask"} => id[c] = timer_id_
  /\ pending \subseteq {timer_id_}
  /\ pending # {} => \E c \in Caller : Waiter(c)

\* io_ is stopped only when the wait thread has nothing to wait for.
StoppedIdle ==
  stopped => pending = {} /\ \E w \in WaitTask : Busy(w) /\ pc[w] \in {"run", "reset"}

AnyLimit == TypeOK /\ Placed /\ InHand /\ Started /\ TimerBudget
OneLimit == OneBusy /\ Armed /\ StoppedIdle /\ NoDanglingTimer /\ NoResetUnderRun
-----------------------------------------------------------------------------
\* The names of threads do not collide.
LEMMA Names ==
  /\ Main \notin Task /\ NoTask \notin Task
  /\ WaitTask \subseteq Task /\ Main \in Caller /\ Task \subseteq Caller
  /\ \A i \in Timer : /\ <<"wait", i>> \in WaitTask
                      /\ <<"timer", i>> \in Task \ WaitTask
  /\ \A k \in 1 .. MaxLedger : <<"ledger", k>> \in Task \ WaitTask
BY DEF Main, NoTask, Task, LedgerTask, WaitTask, TimerTask, Caller

LEMMA Numbers ==
  /\ MaxTimers \in Nat /\ Limits \subseteq Nat \ {0} /\ Timer = 1 .. MaxTimers
BY BoundsAssumption DEF Timer

\* A thread with a timer in hand can name the threads it starts for it.
LEMMA HandIsTimer ==
  ASSUME AnyLimit, NEW c \in Caller, pc[c] \in {"await", "runtask", "handler"}
  PROVE  id[c] \in Timer /\ id[c] <= timer_id_
BY Numbers DEF AnyLimit, TypeOK, InHand

\* Every step is one of a task runner, or leaves the threads alone.
LEMMA TaskStep == AnyLimit /\ [Next]_vars => [T!Next]_(T!vars)
<1> SUFFICES ASSUME AnyLimit, [Next]_vars PROVE [T!Next]_(T!vars)
  OBVIOUS
<1> USE DEF T!vars, T!Next
<1>1. CASE \E n \in Limits : AllowTimersRun(n)
  BY <1>1 DEF AllowTimersRun, taskVars
<1>2. CASE JoinCall \/ Join
  BY <1>2 DEF JoinCall, Join
<1>3. ASSUME NEW c \in Caller, NEW k \in 1 .. MaxLedger, StartLedgerTask(c, k)
      PROVE  [T!Next]_(T!vars)
  BY <1>3, Names DEF StartLedgerTask
<1>4. ASSUME NEW c \in Caller,
             SetTimerRefused(c) \/ SetTimerGranted(c) \/ AsyncWait(c)
      PROVE  [T!Next]_(T!vars)
  BY <1>4 DEF SetTimerRefused, SetTimerGranted, AsyncWait, taskVars, vars
<1>5. ASSUME NEW c \in Caller, RunWaitTask(c) PROVE [T!Next]_(T!vars)
  BY <1>5, Names, HandIsTimer DEF RunWaitTask, At
<1>6. ASSUME NEW w \in WaitTask, HandlerRunTask(w) PROVE [T!Next]_(T!vars)
  BY <1>6, Names, HandIsTimer DEF HandlerRunTask, At
<1>7. ASSUME NEW w \in WaitTask,
             IoRun(w) \/ Expire(w) \/ HandlerDone(w) \/ IoReturn(w) \/ IoReset(w)
      PROVE  [T!Next]_(T!vars)
  BY <1>7 DEF IoRun, Expire, HandlerDone, IoReturn, IoReset, taskVars
<1>8. ASSUME NEW t \in Task, TaskEnd(t) PROVE [T!Next]_(T!vars)
  BY <1>8 DEF TaskEnd
<1>9. CASE UNCHANGED vars
  BY <1>9 DEF vars, taskVars
<1> QED
  BY <1>1, <1>2, <1>3, <1>4, <1>5, <1>6, <1>7, <1>8, <1>9
     DEF Next, SetTimerStep, WaitStep

\* TaskRunner_proofs, for the threads of the service.
LEMMA RunnerInit == T!Init => T!TypeOK /\ T!HandleOwnership
BY Names, R!InitOwnership
   DEF R!IInv, R!Init, R!TypeOK, R!HandleOwnership, R!Live, R!Listed, R!Held,
       T!Init, T!TypeOK, T!HandleOwnership, T!Live, T!Listed, T!Held

LEMMA RunnerTyping == T!TypeOK /\ [T!Next]_(T!vars) => T!TypeOK'
BY Names, R!NextTyping
   DEF R!TypeOK, R!Next, R!vars, R!RunTask, R!CanCall, R!TaskEnd, R!JoinCall,
       R!JoinPop, R!JoinThread, R!JoinReturn,
       T!TypeOK, T!Next, T!vars, T!RunTask, T!CanCall, T!TaskEnd, T!JoinCall,
       T!JoinPop, T!JoinThread, T!JoinReturn

LEMMA RunnerOwnership ==
  T!TypeOK /\ T!HandleOwnership /\ [T!Next]_(T!vars) => T!HandleOwnership'
BY Names, R!NextOwnership
   DEF R!IInv, R!HandleOwnership, R!Live, R!Listed, R!Held,
       R!TypeOK, R!Next, R!vars, R!RunTask, R!CanCall, R!TaskEnd, R!JoinCall,
       R!JoinPop, R!JoinThread, R!JoinReturn,
       T!HandleOwnership, T!Live, T!Listed, T!Held,
       T!TypeOK, T!Next, T!vars, T!RunTask, T!CanCall, T!TaskEnd, T!JoinCall,
       T!JoinPop, T!JoinThread, T!JoinReturn
-----------------------------------------------------------------------------
\* A full vector grows.
LEMMA GrownIsLarger == ASSUME NEW n \in Nat PROVE Grown(n) \in Nat /\ Grown(n) > n
BY DEF Grown

\* One lemma per group of actions: what holds for any limits is preserved.
LEMMA AnyLimitMain ==
  ASSUME AnyLimit, T!TypeOK', (\E n \in Limits : AllowTimersRun(n)) \/ JoinCall \/ Join
  PROVE  AnyLimit'
<1> USE Names, Numbers DEF AnyLimit, TypeOK
<1>1. ASSUME NEW n \in Limits, AllowTimersRun(n) PROVE AnyLimit'
  BY <1>1 DEF AllowTimersRun, Goto, taskVars, ioVars, Placed, InHand, Started,
              TimerBudget, SetSteps, Running
<1>2. CASE JoinCall
  BY <1>2 DEF JoinCall, T!JoinCall, timerVars, ioVars, Placed, InHand, Started,
              TimerBudget, SetSteps, Running, T!Quiescent, T!Live
<1>3. CASE Join
  <2> USE DEF Join, timerVars, ioVars, Placed, InHand, Started, TimerBudget,
              Running, T!Quiescent, T!Live
  <2>1. CASE T!JoinPop \/ T!JoinReturn
    BY <1>3, <2>1 DEF T!JoinPop, T!JoinReturn
  <2>2. CASE T!JoinThread
    <3>1. \A t \in Task : \/ thread'[t] = thread[t]
                          \/ thread[t] = "ended" /\ thread'[t] = "joined"
      BY <2>2 DEF T!JoinThread, T!TypeOK
    <3> QED
      BY <1>3, <2>2, <3>1 DEF T!JoinThread
  <2> QED
    BY <1>3, <2>1, <2>2
<1> QED
  BY <1>1, <1>2, <1>3

\* A thread other than main at its start runs only after AllowTimersRun.
LEMMA RunningStarted ==
  ASSUME AnyLimit, NEW c \in Caller, Running(c), pc[c] # "start"
  PROVE  max_number_timers_ # 0
BY Names DEF AnyLimit, Started, Running, T!Quiescent, T!Live, Caller

\* RunTask from c changes one thread, from "none" to "running".
LEMMA AnyLimitRunTask ==
  ASSUME AnyLimit, T!TypeOK', NEW c \in Caller, NEW t \in Task,
         Running(c), pc[c] \notin {"start"}, T!RunTask(t),
         NEW step \in SetSteps \cup WaitSteps,
         pc' = [pc EXCEPT ![c] = step],
         IF c \in WaitTask THEN step \in WaitSteps ELSE step \in SetSteps,
         step \in {"handler", "await", "runtask"} => step = pc[c],
         UNCHANGED <<id, timerVars, ioVars>>
  PROVE  AnyLimit'
<1> USE Names, Numbers DEF AnyLimit, TypeOK
<1>1. /\ thread[t] = "none" /\ UNCHANGED main
      /\ \A u \in Task : thread'[u] = IF u = t THEN "running" ELSE thread[u]
  BY DEF T!RunTask, T!TypeOK
<1>2. max_number_timers_ # 0 /\ UNCHANGED <<max_number_timers_, timer_id_>>
  BY RunningStarted DEF timerVars
<1>3. c # t /\ Running(c)'
  BY <1>1 DEF Running, Caller
<1>4. Placed'
  <2>1. pc'[c] = step /\ \A d \in Caller \ {c} : pc'[d] = pc[d]
    OBVIOUS
  <2>2. \A d \in Caller : Running(d) => Running(d)'
    BY <1>1 DEF Running, Caller
  <2>3. \A w \in WaitTask : thread'[w] = "none" => thread[w] = "none" /\ w # c
    BY <1>1, <1>3 DEF Running
  <2>4. /\ pc'[Main] \in SetSteps \cup {"start"}
        /\ \A u \in Task \ WaitTask : pc'[u] \in SetSteps
        /\ \A w \in WaitTask : pc'[w] \in WaitSteps
    BY <2>1 DEF Placed
  <2>5. \A w \in WaitTask : thread'[w] = "none" => pc'[w] = "enter"
    BY <2>1, <2>3 DEF Placed
  <2>6. \A d \in Caller :
          pc'[d] \notin {"start", "code", "enter", "exit"} => Running(d)'
    BY <1>3, <2>1, <2>2 DEF Placed
  <2> QED
    BY <2>4, <2>5, <2>6 DEF Placed
<1>5. InHand'
  BY <1>2 DEF InHand
<1> QED
  BY <1>2, <1>4, <1>5 DEF timerVars, ioVars, SetSteps, WaitSteps, Started,
                          TimerBudget

LEMMA AnyLimitCode ==
  ASSUME AnyLimit, T!TypeOK', NEW c \in Caller,
         \/ \E k \in 1 .. MaxLedger : StartLedgerTask(c, k)
         \/ SetTimerRefused(c) \/ SetTimerGranted(c) \/ SetTimerStep(c)
  PROVE  AnyLimit'
<1> USE Names, Numbers DEF AnyLimit, TypeOK
<1>1. ASSUME NEW k \in 1 .. MaxLedger, StartLedgerTask(c, k) PROVE AnyLimit'
  <2>1. pc' = [pc EXCEPT ![c] = "code"] /\ c \notin WaitTask
    BY <1>1 DEF StartLedgerTask, At, Placed, WaitSteps
  <2> QED
    BY <1>1, <2>1, AnyLimitRunTask DEF StartLedgerTask, At, SetSteps
<1>2. CASE SetTimerRefused(c)
  BY <1>2 DEF SetTimerRefused, vars, taskVars, timerVars, ioVars, Placed,
       InHand, Started, TimerBudget, Running, T!Quiescent, T!Live
<1>3. CASE SetTimerGranted(c)
  <2>1. c \notin WaitTask /\ max_number_timers_ # 0 /\ Running(c)
    BY <1>3, RunningStarted DEF SetTimerGranted, At, Placed, WaitSteps
  <2>2. /\ timer_id_ \in Nat /\ timer_id_' = timer_id_ + 1
        /\ timer_id_' \in 0 .. MaxTimers
        /\ timer_id_' <= max_number_timers_
        /\ UNCHANGED <<taskVars, max_number_timers_, ioVars>>
    BY <1>3, <2>1 DEF SetTimerGranted, LimitReached, TimerBudget
  <2>3. capacity' \in Nat /\ capacity' >= capacity /\ timer_id_' <= capacity'
    <3>1. CASE timer_id_ = capacity
      <4>1. capacity' = Grown(capacity)
        BY <1>3, <3>1 DEF SetTimerGranted
      <4>2. capacity \in Nat /\ Grown(capacity) \in Nat /\ Grown(capacity) > capacity
        BY GrownIsLarger
      <4> QED
        BY <2>2, <3>1, <4>1, <4>2
    <3>2. CASE timer_id_ # capacity
      BY <1>3, <2>2, <3>2 DEF SetTimerGranted
    <3> QED
      BY <3>1, <3>2
  <2>4. /\ id' = [id EXCEPT ![c] = timer_id_ + 1]
        /\ ref' = [ref EXCEPT ![c] = capacity']
        /\ pc' = [pc EXCEPT ![c] = "await"]
    BY <1>3 DEF SetTimerGranted, NewId, Goto
  <2>5. Placed'
    BY <2>1, <2>2, <2>4 DEF Placed, taskVars, Running, SetSteps, WaitSteps
  <2>6. InHand'
    BY <2>2, <2>4 DEF InHand
  <2>7. Started' /\ TimerBudget'
    BY <2>1, <2>2 DEF Started, TimerBudget
  <2>8. ref' \in [Caller -> 0 .. capacity'] /\ pending' \subseteq 1 .. timer_id_'
    BY <2>2, <2>3, <2>4 DEF ioVars
  <2> QED
    BY <2>2, <2>3, <2>4, <2>5, <2>6, <2>7, <2>8 DEF ioVars
<1>4. CASE AsyncWait(c)
  <2>1. c \notin WaitTask /\ Running(c) /\ pc[c] = "await"
    BY <1>4 DEF AsyncWait, At, Placed, WaitSteps
  <2>2. id[c] \in 1 .. timer_id_
    BY <2>1, HandIsTimer
  <2>3. /\ pc' = [pc EXCEPT ![c] = "runtask"] /\ pending' \subseteq 1 .. timer_id_
        /\ UNCHANGED <<taskVars, id, timerVars, stopped>>
    BY <1>4, <2>2 DEF AsyncWait, Goto
  <2>4. Placed'
    BY <2>1, <2>3 DEF Placed, taskVars, Running, SetSteps
  <2>5. InHand' /\ Started' /\ TimerBudget'
    BY <2>1, <2>3 DEF InHand, taskVars, timerVars, Started, TimerBudget,
         T!Quiescent, T!Live
  <2> QED
    BY <2>3, <2>4, <2>5 DEF timerVars
<1>5. CASE RunWaitTask(c)
  <2>1. c \notin WaitTask /\ id[c] \in Timer
    BY <1>5, HandIsTimer DEF RunWaitTask, At, Placed, WaitSteps
  <2> QED
    BY <1>5, <2>1, AnyLimitRunTask DEF RunWaitTask, At, Goto, SetSteps
<1> QED
  BY <1>1, <1>2, <1>3, <1>4, <1>5 DEF SetTimerStep

LEMMA AnyLimitWait ==
  ASSUME AnyLimit, T!TypeOK', NEW w \in WaitTask, WaitStep(w)
  PROVE  AnyLimit'
<1> USE Names, Numbers DEF AnyLimit, TypeOK
<1>1. CASE HandlerRunTask(w)
  <2>1. id[w] \in Timer
    BY <1>1, HandIsTimer DEF HandlerRunTask, At
  <2> QED
    BY <1>1, <2>1, AnyLimitRunTask DEF HandlerRunTask, At, Goto, WaitSteps
<1>2. CASE IoRun(w) \/ Expire(w) \/ HandlerDone(w) \/ IoReturn(w) \/ IoReset(w)
  <2>1. /\ Running(w) /\ max_number_timers_ # 0
        /\ UNCHANGED <<taskVars, timerVars>> /\ stopped' \in BOOLEAN
        /\ pending' \subseteq pending
    BY <1>2, RunningStarted
       DEF IoRun, Expire, HandlerDone, IoReturn, IoReset, At, ioVars
  <2>2. \E step \in WaitSteps : pc' = [pc EXCEPT ![w] = step]
    BY <1>2 DEF IoRun, Expire, HandlerDone, IoReturn, IoReset, Goto, WaitSteps
  <2>3. \/ id' = id /\ pc'[w] # "handler"
        \/ \E i \in pending : id' = [id EXCEPT ![w] = i]
    BY <1>2 DEF IoRun, Expire, HandlerDone, IoReturn, IoReset, Goto
  <2>4. Placed'
    BY <2>1, <2>2 DEF Placed, taskVars, Running, WaitSteps
  <2>5. InHand' /\ id' \in [Caller -> 0 .. MaxTimers]
    BY <2>1, <2>2, <2>3 DEF InHand, timerVars, WaitSteps
  <2>6. Started' /\ TimerBudget'
    BY <2>1 DEF Started, TimerBudget, timerVars
  <2>7. pc' \in [Caller -> SetSteps \cup WaitSteps \cup {"start"}]
    BY <2>2 DEF WaitSteps, SetSteps
  <2>8. TypeOK'
    BY <2>1, <2>5, <2>7 DEF timerVars, WaitSteps, SetSteps
  <2> QED
    BY <2>4, <2>5, <2>6, <2>8
<1> QED
  BY <1>1, <1>2 DEF WaitStep

LEMMA AnyLimitTaskEnd ==
  ASSUME AnyLimit, T!TypeOK', NEW t \in Task, TaskEnd(t)
  PROVE  AnyLimit'
<1> USE Names, Numbers DEF AnyLimit, TypeOK
<1>1. /\ thread[t] = "running" /\ UNCHANGED <<main, pc, id, timerVars, ioVars>>
      /\ pc[t] \in {"exit", "code"}
      /\ \A u \in Task : thread'[u] = IF u = t THEN "ended" ELSE thread[u]
  BY DEF TaskEnd, T!TaskEnd, T!TypeOK
<1>2. max_number_timers_ # 0
  BY <1>1, RunningStarted DEF Running
<1>3. Placed'
  BY <1>1 DEF Placed, Running, Caller
<1> QED
  BY <1>1, <1>2, <1>3 DEF timerVars, ioVars, InHand, Started, TimerBudget

LEMMA NextAnyLimit == AnyLimit /\ [Next]_vars => AnyLimit'
<1> SUFFICES ASSUME AnyLimit, [Next]_vars PROVE AnyLimit'
  OBVIOUS
<1>1. T!TypeOK'
  BY TaskStep, RunnerTyping DEF AnyLimit, TypeOK
<1>2. CASE UNCHANGED vars
  BY <1>1, <1>2 DEF vars, taskVars, timerVars, ioVars, AnyLimit, TypeOK, Placed,
       InHand, Started, TimerBudget, Running, T!Quiescent, T!Live
<1>3. CASE Next
  BY <1>1, <1>3, AnyLimitMain, AnyLimitCode, AnyLimitWait, AnyLimitTaskEnd
     DEF Next
<1> QED
  BY <1>2, <1>3

LEMMA InitAnyLimit == Init => AnyLimit
<1> SUFFICES ASSUME Init PROVE AnyLimit
  OBVIOUS
<1> USE Names, Numbers DEF Init
<1>1. T!TypeOK
  BY RunnerInit
<1>2. T!Quiescent /\ main = "out" /\ \A t \in Task : thread[t] = "none"
  BY DEF T!Init, T!Quiescent, T!Live
<1>3. stopped \in BOOLEAN
  OBVIOUS
<1>4. Placed
  BY <1>2 DEF Placed, Running, SetSteps, WaitSteps, Caller
<1> QED
  BY <1>1, <1>2, <1>3, <1>4 DEF AnyLimit, TypeOK, InHand, Started, TimerBudget

THEOREM AnyLimitInvariant == Spec => []AnyLimit
BY InitAnyLimit, NextAnyLimit, PTL DEF Spec

\* The types of the service's state.
THEOREM TimerTyping == Spec => []TypeOK
BY AnyLimitInvariant, PTL DEF AnyLimit

\* AllowTimersRun: no timer is granted beyond the limit, for any limits.
THEOREM Budget == Spec => []TimerBudget
BY AnyLimitInvariant, PTL DEF AnyLimit

\* The threads that ledger tasks, SetTimer and timer handlers start are those
\* of a task runner, whatever else the service does.
THEOREM TimersRefineTaskRunner == Spec => T!SafeSpec
<1>1. Init => T!Init
  BY DEF Init
<1> QED
  BY <1>1, TaskStep, AnyLimitInvariant, PTL DEF Spec, T!SafeSpec
-----------------------------------------------------------------------------
\* Who has a timer in hand is busy.
LEMMA HandIsBusy ==
  ASSUME AnyLimit, NEW c \in Caller,
         pc[c] \in {"await", "runtask", "run", "handler", "handled", "reset"}
  PROVE  Busy(c)
BY Names DEF AnyLimit, Placed, Busy, Running, SetSteps, WaitSteps, Caller

\* If nobody is busy there is nothing for io_ to do.
LEMMA NobodyBusy ==
  ASSUME OneLimit, \A c \in Caller : ~ Busy(c)
  PROVE  pending = {} /\ ~ stopped
BY Names DEF OneLimit, Armed, Waiter, StoppedIdle

\* If somebody is, it is for the last timer, and nobody else is.
LEMMA AloneBusy ==
  ASSUME OneLimit, NEW c \in Caller, Busy(c)
  PROVE  /\ \A d \in Caller : Busy(d) => d = c
         /\ timer_id_ = max_number_timers_
         /\ pending # {} => pc[c] \in {"runtask", "enter", "run"}
         /\ stopped => c \in WaitTask /\ pending = {} /\ pc[c] \in {"run", "reset"}
BY Names DEF OneLimit, OneBusy, Armed, Waiter, StoppedIdle

\* One busy thread cannot reset io_ under another.
LEMMA OneBusyNoReset ==
  ASSUME AnyLimit', OneBusy' PROVE NoResetUnderRun'
<1>1. \A w \in WaitTask :
        pc'[w] \in {"run", "handler", "handled", "reset"} => Busy(w)'
  BY Names DEF AnyLimit, Placed, Busy, Running
<1> QED
  BY <1>1, Names DEF OneBusy, NoResetUnderRun

\* A step that changes no more than which other threads run.
LEMMA OneLimitOtherThreads ==
  ASSUME OneLimit, UNCHANGED <<pc, id, timerVars, ioVars>>,
         \A w \in WaitTask : (thread[w] = "running") <=> (thread'[w] = "running")
  PROVE  OneLimit'
<1>1. \A c \in Caller : Busy(c)' <=> Busy(c)
  BY DEF Busy
<1> QED
  BY <1>1, Names DEF OneLimit, OneBusy, Armed, Waiter, StoppedIdle,
     NoDanglingTimer, NoResetUnderRun, timerVars, ioVars

\* When the last thread that was busy is no longer, or nobody was.
LEMMA OneLimitNobody ==
  ASSUME AnyLimit', \A c \in Caller : ~ Busy(c)', pending' = {}, ~ stopped',
         timer_id_' + 1 >= max_number_timers_'
  PROVE  OneLimit'
<1>1. \A c \in Caller : pc'[c] \notin {"await", "runtask", "run", "handler",
                                       "handled", "reset"}
  BY Names DEF AnyLimit, Placed, Busy, Running, SetSteps, WaitSteps, Caller
<1>2. OneBusy' /\ NoDanglingTimer' /\ NoResetUnderRun'
  BY <1>1, Names DEF OneBusy, NoDanglingTimer, NoResetUnderRun
<1> QED
  BY <1>1, <1>2 DEF OneLimit, Armed, StoppedIdle

LEMMA OneLimitMain ==
  ASSUME Limits = {1}, AnyLimit, AnyLimit', OneLimit,
         (\E n \in Limits : AllowTimersRun(n)) \/ JoinCall \/ Join
  PROVE  OneLimit'
<1> USE Names
<1>1. CASE AllowTimersRun(1)
  <2>1. \A c \in Caller : ~ Busy(c)
    BY <1>1 DEF AllowTimersRun, AnyLimit, Placed, Busy, Running, T!Quiescent,
                T!Live, Caller
  <2>2. \A c \in Caller : ~ Busy(c)'
    BY <1>1, <2>1 DEF AllowTimersRun, AnyLimit, TypeOK, Busy, Goto, taskVars
  <2>3. pending' = {} /\ ~ stopped'
    BY <1>1, <2>1, NobodyBusy DEF AllowTimersRun, ioVars
  <2>4. timer_id_' + 1 >= max_number_timers_'
    BY <1>1, Numbers DEF AllowTimersRun, AnyLimit, TypeOK
  <2> QED
    BY <2>2, <2>3, <2>4, OneLimitNobody
<1>2. CASE JoinCall
  BY <1>2, OneLimitOtherThreads DEF JoinCall, T!JoinCall
<1>3. CASE Join
  <2>1. \A w \in WaitTask : (thread[w] = "running") <=> (thread'[w] = "running")
    BY <1>3 DEF Join, T!JoinPop, T!JoinThread, T!JoinReturn, AnyLimit, TypeOK,
                T!TypeOK
  <2> QED
    BY <1>3, <2>1, OneLimitOtherThreads DEF Join
<1> QED
  BY <1>1, <1>2, <1>3

\* SetTimer grants a timer only when nobody is busy; then its caller is, until
\* it has started the wait thread, which is busy in its place.
LEMMA OneLimitCode ==
  ASSUME AnyLimit, AnyLimit', OneLimit, NEW c \in Caller,
         \/ \E k \in 1 .. MaxLedger : StartLedgerTask(c, k)
         \/ SetTimerRefused(c) \/ SetTimerGranted(c) \/ SetTimerStep(c)
  PROVE  OneLimit'
<1> USE Names, Numbers
<1>1. ASSUME NEW k \in 1 .. MaxLedger, StartLedgerTask(c, k) PROVE OneLimit'
  <2>1. c \notin WaitTask /\ pc[c] = "code" /\ pc' = pc
    BY <1>1 DEF StartLedgerTask, At, AnyLimit, Placed, WaitSteps
  <2>2. \A w \in WaitTask : (thread[w] = "running") <=> (thread'[w] = "running")
    BY <1>1 DEF StartLedgerTask, T!RunTask, AnyLimit, TypeOK, T!TypeOK
  <2> QED
    BY <1>1, <2>1, <2>2, OneLimitOtherThreads DEF StartLedgerTask
<1>2. CASE SetTimerRefused(c)
  BY <1>2, OneLimitOtherThreads DEF SetTimerRefused, vars, taskVars
<1>3. CASE SetTimerGranted(c)
  <2>1. /\ c \notin WaitTask /\ max_number_timers_ # 0
        /\ ~ LimitReached /\ UNCHANGED <<taskVars, max_number_timers_, ioVars>>
    BY <1>3, RunningStarted
       DEF SetTimerGranted, At, AnyLimit, Placed, WaitSteps
  <2>2. timer_id_ < max_number_timers_ /\ timer_id_' = max_number_timers_
    BY <1>3, <2>1 DEF SetTimerGranted, LimitReached, OneLimit, OneBusy,
                      AnyLimit, TypeOK
  <2>3. \A d \in Caller : ~ Busy(d)
    BY <2>2 DEF OneLimit, OneBusy, AnyLimit, TypeOK
  <2>4. /\ pc' = [pc EXCEPT ![c] = "await"] /\ id' = [id EXCEPT ![c] = timer_id_']
        /\ ref' = [ref EXCEPT ![c] = capacity']
    BY <1>3 DEF SetTimerGranted, NewId, Goto
  <2>5. \A d \in Caller : Busy(d)' <=> d = c
    BY <2>1, <2>3, <2>4 DEF Busy, taskVars, AnyLimit, TypeOK
  <2>6. \A d \in Caller : pc'[d] \in {"await", "runtask"} => d = c
    BY <2>3, <2>4, HandIsBusy DEF AnyLimit, TypeOK
  <2>7. OneBusy'
    BY <2>1, <2>2, <2>5 DEF OneBusy, AnyLimit, TypeOK
  <2>8. pending' = {} /\ ~ stopped'
    BY <2>1, <2>3, NobodyBusy DEF ioVars
  <2>9. Armed' /\ StoppedIdle' /\ NoDanglingTimer'
    BY <2>4, <2>6, <2>8 DEF Armed, StoppedIdle, NoDanglingTimer, AnyLimit, TypeOK
  <2> QED
    BY <2>7, <2>9, OneBusyNoReset DEF OneLimit
<1>4. CASE AsyncWait(c)
  <2>1. c \notin WaitTask /\ Busy(c) /\ pc[c] = "await"
    BY <1>4, HandIsBusy DEF AsyncWait, At, AnyLimit, Placed, WaitSteps
  <2>2. /\ pc' = [pc EXCEPT ![c] = "runtask"]
        /\ pending' = pending \cup {id[c]}
        /\ UNCHANGED <<taskVars, id, timerVars, stopped>>
    BY <1>4 DEF AsyncWait, Goto
  <2>3. \A d \in Caller : Busy(d)' <=> Busy(d)
    BY <2>1, <2>2 DEF Busy, taskVars, AnyLimit, TypeOK
  <2>4. OneBusy'
    BY <2>2, <2>3 DEF OneLimit, OneBusy, timerVars
  <2>5. ~ stopped' /\ Waiter(c)'
    BY <2>1, <2>2, <2>3, AloneBusy DEF Waiter, AnyLimit, TypeOK
  <2>6. Armed' /\ StoppedIdle'
    BY <2>1, <2>2, <2>5 DEF OneLimit, Armed, StoppedIdle, timerVars, AnyLimit,
                            TypeOK
  <2>7. NoDanglingTimer'
    BY <2>2 DEF OneLimit, NoDanglingTimer, timerVars, AnyLimit, TypeOK
  <2> QED
    BY <2>4, <2>6, <2>7, OneBusyNoReset DEF OneLimit
<1>5. CASE RunWaitTask(c)
  <2>1. c \notin WaitTask /\ Busy(c) /\ pc[c] = "runtask"
    BY <1>5, HandIsBusy DEF RunWaitTask, At, AnyLimit, Placed, WaitSteps
  <2>2. PICK w \in WaitTask : w = <<"wait", id[c]>>
    BY <2>1, HandIsTimer
  <2>3. /\ pc' = [pc EXCEPT ![c] = "code"]
        /\ UNCHANGED <<id, timerVars, ioVars>>
        /\ \A t \in Task : thread'[t] = IF t = w THEN "running" ELSE thread[t]
        /\ thread[w] = "none"
    BY <1>5, <2>2 DEF RunWaitTask, T!RunTask, Goto, AnyLimit, TypeOK, T!TypeOK
  <2>4. pc'[w] = "enter"
    BY <2>1, <2>3 DEF AnyLimit, TypeOK, Placed
  <2>5. \A d \in Caller : Busy(d)' <=> d = w
    <3>1. \A d \in Caller \ {c} : ~ Busy(d)
      BY <2>1, AloneBusy
    <3>2. \A d \in WaitTask : Busy(d)' <=> d = w
      BY <2>1, <2>3, <3>1, Names DEF Busy
    <3>3. /\ pc'[c] = "code"
          /\ \A d \in Caller \ {c} : pc'[d] = pc[d]
      BY <2>3 DEF AnyLimit, TypeOK
    <3>4. \A d \in Caller \ WaitTask : ~ Busy(d)'
      BY <3>1, <3>3 DEF Busy
    <3> QED
      BY <2>2, <3>2, <3>4
  <2>6. \A d \in Caller : pc'[d] \notin {"await", "runtask"}
    <3>1. \A d \in Caller \ {c} : pc[d] \notin {"await", "runtask"}
      BY <2>1, AloneBusy, HandIsBusy
    <3> QED
      BY <2>3, <3>1 DEF AnyLimit, TypeOK
  <2>7. OneBusy'
    BY <2>1, <2>3, <2>5, AloneBusy DEF OneLimit, OneBusy, timerVars
  <2>8. ~ stopped' /\ Waiter(w)'
    BY <2>1, <2>3, <2>4, <2>5, AloneBusy DEF Waiter, ioVars
  <2>9. Armed' /\ StoppedIdle' /\ NoDanglingTimer'
    BY <2>3, <2>6, <2>8 DEF OneLimit, Armed, StoppedIdle, NoDanglingTimer,
                            timerVars, ioVars
  <2> QED
    BY <2>7, <2>9, OneBusyNoReset DEF OneLimit
<1> QED
  BY <1>1, <1>2, <1>3, <1>4, <1>5 DEF SetTimerStep

\* In io_.run() the wait thread takes the one handler there is; it leaves when
\* no timer is armed, and the reset finds nobody else inside.
LEMMA OneLimitWait ==
  ASSUME AnyLimit, AnyLimit', OneLimit, NEW w \in WaitTask, WaitStep(w)
  PROVE  OneLimit'
<1> USE Names, Numbers
<1>1. Busy(w) /\ w \in Caller /\ UNCHANGED timerVars
  BY DEF WaitStep, IoRun, Expire, HandlerRunTask, HandlerDone, IoReturn,
         IoReset, At, Running, Busy
<1>2. /\ \A v \in WaitTask : (thread[v] = "running") <=> (thread'[v] = "running")
      /\ \A d \in Caller : d # w => pc'[d] = pc[d]
      /\ pc'[w] \in WaitSteps
  <2>1. CASE HandlerRunTask(w)
    <3>1. PICK t \in Task \ WaitTask : t = <<"timer", id[w]>>
      BY <2>1, HandIsTimer DEF HandlerRunTask, At
    <3>2. thread' = [thread EXCEPT ![t] = "running"]
      BY <2>1, <3>1 DEF HandlerRunTask, T!RunTask
    <3>3. \A v \in WaitTask : thread'[v] = thread[v]
      BY <3>1, <3>2 DEF AnyLimit, TypeOK, T!TypeOK
    <3>4. pc' = [pc EXCEPT ![w] = "handled"]
      BY <2>1 DEF HandlerRunTask, Goto
    <3> QED
      BY <3>3, <3>4 DEF AnyLimit, TypeOK, WaitSteps
  <2>2. CASE ~ HandlerRunTask(w)
    BY <2>2 DEF WaitStep, IoRun, Expire, HandlerDone, IoReturn, IoReset, Goto,
                AnyLimit, TypeOK, taskVars, WaitSteps
  <2> QED
    BY <2>1, <2>2
<1>3. \A d \in Caller : Busy(d)' <=> Busy(d)
  BY <1>1, <1>2 DEF Busy
<1>4. OneBusy' /\ NoResetUnderRun'
  BY <1>1, <1>3, OneBusyNoReset DEF OneLimit, OneBusy, timerVars
<1>5. \A d \in Caller : pc'[d] \notin {"await", "runtask"}
  BY <1>1, <1>2, AloneBusy, HandIsBusy DEF WaitSteps
<1>6. NoDanglingTimer'
  BY <1>5 DEF NoDanglingTimer
<1>7. ASSUME pending' = {} \/ (pending' = pending /\ pc'[w] \in {"enter", "run"})
      PROVE  Armed'
  <2>1. pending' # {} => Waiter(w)'
    BY <1>1, <1>3, <1>7 DEF Waiter
  <2> QED
    BY <1>1, <1>5, <1>7, <2>1 DEF OneLimit, Armed, timerVars
<1>8. ASSUME stopped' => pending' = {} /\ pc'[w] \in {"run", "reset"}
      PROVE  StoppedIdle'
  BY <1>1, <1>3, <1>8 DEF StoppedIdle
<1>9. \A v \in WaitTask : v \in Handling => v = w
  BY <1>1, AloneBusy, HandIsBusy DEF Handling
<1>10. CASE IoRun(w)
  <2>1. pc[w] = "enter" /\ ~ stopped /\ UNCHANGED pending
    BY <1>1, <1>10, AloneBusy DEF IoRun, At
  <2>2. NoWork <=> pending = {}
    BY <1>9, <2>1 DEF NoWork, Handling
  <2>3. /\ stopped' => pending = {}
        /\ pc'[w] = IF pending = {} THEN "reset" ELSE "run"
    BY <1>10, <2>1, <2>2 DEF IoRun, Goto, AnyLimit, TypeOK
  <2> QED
    BY <1>4, <1>6, <1>7, <1>8, <2>1, <2>3 DEF OneLimit
<1>11. CASE Expire(w)
  <2>1. pc[w] = "run" /\ pending' = {} /\ ~ stopped'
    BY <1>1, <1>11, AloneBusy DEF Expire, At, OneLimit, Armed
  <2> QED
    BY <1>4, <1>6, <1>7, <1>8, <2>1 DEF OneLimit
<1>12. CASE HandlerRunTask(w)
  <2>1. pending' = {} /\ ~ stopped'
    BY <1>1, <1>12, AloneBusy DEF HandlerRunTask, At, ioVars
  <2> QED
    BY <1>4, <1>6, <1>7, <1>8, <2>1 DEF OneLimit
<1>13. CASE HandlerDone(w)
  <2>1. pending' = {} /\ pc'[w] = "run"
    BY <1>1, <1>13, AloneBusy DEF HandlerDone, At, Goto, AnyLimit, TypeOK
  <2> QED
    BY <1>4, <1>6, <1>7, <1>8, <2>1 DEF OneLimit
<1>14. CASE IoReturn(w)
  <2>1. pending' = {} /\ pc'[w] = "reset"
    BY <1>1, <1>14, AloneBusy DEF IoReturn, Goto, ioVars, AnyLimit, TypeOK
  <2> QED
    BY <1>4, <1>6, <1>7, <1>8, <2>1 DEF OneLimit
<1>15. CASE IoReset(w)
  <2>1. pending' = {} /\ ~ stopped'
    BY <1>1, <1>15, AloneBusy DEF IoReset, At
  <2> QED
    BY <1>4, <1>6, <1>7, <1>8, <2>1 DEF OneLimit
<1> QED
  BY <1>10, <1>11, <1>12, <1>13, <1>14, <1>15 DEF WaitStep

\* A wait thread ends when it has left io_.run(), with no timer armed.
LEMMA OneLimitTaskEnd ==
  ASSUME AnyLimit, AnyLimit', OneLimit, NEW t \in Task, TaskEnd(t)
  PROVE  OneLimit'
<1> USE Names
<1>1. /\ thread[t] = "running" /\ UNCHANGED <<pc, id, timerVars, ioVars>>
      /\ \A u \in Task : thread'[u] = IF u = t THEN "ended" ELSE thread[u]
      /\ t \in WaitTask => pc[t] = "exit"
  BY DEF TaskEnd, T!TaskEnd, AnyLimit, TypeOK, T!TypeOK
<1>2. CASE t \notin WaitTask
  BY <1>1, <1>2, OneLimitOtherThreads
<1>3. CASE t \in WaitTask
  <2>1. Busy(t) /\ t \in Caller
    BY <1>1, <1>3 DEF Busy
  <2>2. \A c \in Caller : ~ Busy(c)'
    BY <1>1, <1>3, <2>1, AloneBusy DEF Busy
  <2>3. pending' = {} /\ ~ stopped'
    BY <1>1, <1>3, <2>1, AloneBusy DEF ioVars
  <2>4. timer_id_' + 1 >= max_number_timers_'
    BY <1>1 DEF OneLimit, OneBusy, timerVars
  <2> QED
    BY <2>2, <2>3, <2>4, OneLimitNobody
<1> QED
  BY <1>2, <1>3

\* With a limit of one timer per round the invariant is preserved.
LEMMA NextOneLimit ==
  ASSUME Limits = {1}
  PROVE  AnyLimit /\ AnyLimit' /\ OneLimit /\ [Next]_vars => OneLimit'
<1> SUFFICES ASSUME AnyLimit, AnyLimit', OneLimit, [Next]_vars PROVE OneLimit'
  OBVIOUS
<1>1. CASE UNCHANGED vars
  BY <1>1, OneLimitOtherThreads DEF vars, taskVars
<1>2. CASE Next
  BY <1>2, OneLimitMain, OneLimitCode, OneLimitWait, OneLimitTaskEnd DEF Next
<1> QED
  BY <1>1, <1>2

LEMMA InitOneLimit == Init => OneLimit
<1> SUFFICES ASSUME Init PROVE OneLimit
  OBVIOUS
<1> USE Names DEF Init
<1>1. \A c \in Caller : pc[c] \in {"start", "code", "enter"}
  OBVIOUS
<1>2. \A c \in Caller : ~ Busy(c)
  BY <1>1 DEF T!Init, Busy
<1> QED
  BY <1>1, <1>2 DEF OneLimit, OneBusy, Armed, StoppedIdle, NoDanglingTimer,
                    NoResetUnderRun

\* All that holds of the driver's way to set the limit.
THEOREM OneLimitInvariant ==
  ASSUME Limits = {1}
  PROVE  Spec => [](AnyLimit /\ OneLimit)
<1>1. AnyLimit /\ AnyLimit' /\ OneLimit /\ [Next]_vars => OneLimit'
  BY NextOneLimit
<1> QED
  BY <1>1, InitOneLimit, AnyLimitInvariant, PTL DEF Spec

\* SetTimer: the reference t still refers to a timer when it is used.
THEOREM NoDangling == ASSUME Limits = {1} PROVE Spec => []NoDanglingTimer
<1>1. Spec => [](AnyLimit /\ OneLimit)
  BY OneLimitInvariant
<1> QED
  BY <1>1, PTL DEF OneLimit

\* io_.reset() is not called while another thread is in io_.run().
THEOREM NoReset == ASSUME Limits = {1} PROVE Spec => []NoResetUnderRun
<1>1. Spec => [](AnyLimit /\ OneLimit)
  BY OneLimitInvariant
<1> QED
  BY <1>1, PTL DEF OneLimit

\* When TestingJoinAllRunningTasks returns, no armed timer is left: it would
\* need a thread to wait for it, and all threads have been joined.
THEOREM JoinLeavesNone == ASSUME Limits = {1} PROVE Spec => JoinLeavesNoTimer
<1>1. Spec => [](AnyLimit /\ OneLimit)
  BY OneLimitInvariant
<1>2. Spec => []T!HandleOwnership
  <2>1. Init => T!HandleOwnership
    BY RunnerInit DEF Init
  <2>2. AnyLimit /\ T!HandleOwnership /\ [Next]_vars => T!HandleOwnership'
    BY TaskStep, RunnerOwnership DEF AnyLimit, TypeOK
  <2> QED
    BY <2>1, <2>2, AnyLimitInvariant, PTL DEF Spec
<1>3. AnyLimit /\ OneLimit /\ T!HandleOwnership /\ [Next]_vars
        => [main = "loop" /\ main' = "out" => pending = {}]_vars
  <2> SUFFICES ASSUME AnyLimit, OneLimit, T!HandleOwnership, Next,
                      main = "loop", main' = "out"
               PROVE  pending = {}
    OBVIOUS
  <2>1. tasks_in_progress_ = << >>
    BY Names DEF Next, AllowTimersRun, JoinCall, Join, StartLedgerTask,
       SetTimerRefused, SetTimerGranted, SetTimerStep, AsyncWait, RunWaitTask,
       WaitStep, IoRun, Expire, HandlerRunTask, HandlerDone, IoReturn, IoReset,
       TaskEnd, T!RunTask, T!TaskEnd, T!JoinCall, T!JoinPop, T!JoinThread,
       T!JoinReturn, taskVars, vars
  <2>2. \A t \in Task : ~ T!Listed(t) /\ ~ T!Held(t)
    BY <2>1 DEF T!Listed, T!Held
  <2>3. \A t \in Task : thread[t] # "running"
    BY <2>2 DEF T!HandleOwnership, T!Live
  <2>4. \A c \in Caller : ~ Running(c)
    BY <2>3 DEF Running, Caller
  <2>5. \A c \in Caller : ~ Busy(c)
    BY <2>3, <2>4, Names DEF AnyLimit, Placed, Busy
  <2> QED
    BY <2>5, NobodyBusy
<1> QED
  BY <1>1, <1>2, <1>3, PTL DEF Spec, JoinLeavesNoTimer
-----------------------------------------------------------------------------
(***************************************************************************)
(* TimersAreOneShot, for any limits.  A timer in the hand of a thread that *)
(* has not armed it yet, or that has its handler, is in no other thread's  *)
(* hand, is not armed, and has no OnTimer task; neither has an armed one.  *)
(***************************************************************************)
Holding(c) == pc[c] \in {"await", "handler"}
called == {i \in Timer : thread[<<"timer", i>>] # "none"}
Stages ==
  /\ \A i \in Timer : i \in pending \/ i > timer_id_ => i \notin called
  /\ \A c \in Caller : Holding(c) => id[c] \notin pending /\ id[c] \notin called
  /\ \A c, d \in Caller : Holding(c) /\ Holding(d) /\ id[c] = id[d] => c = d

\* A step that moves no timer from one stage to the next.
Quiet ==
  /\ UNCHANGED <<timer_id_, pending, id, called>>
  /\ \A c \in Caller : Holding(c)' <=> Holding(c)

\* The threads that were never started stay the same: so do the timers called.
LEMMA CalledStays ==
  ASSUME \A t \in TimerTask : thread'[t] = "none" <=> thread[t] = "none"
  PROVE  called' = called
<1>1. \A i \in Timer : <<"timer", i>> \in TimerTask
  BY DEF TimerTask
<1>2. \A i \in Timer : thread'[<<"timer", i>>] = "none" <=> thread[<<"timer", i>>] = "none"
  BY <1>1, Zenon
<1> QED
  BY <1>2 DEF called

LEMMA QuietMain ==
  ASSUME AnyLimit, (\E n \in Limits : AllowTimersRun(n)) \/ JoinCall \/ Join
  PROVE  Quiet
<1> USE Names DEF Quiet, Holding, AnyLimit, TypeOK
<1>1. ASSUME NEW n \in Limits, AllowTimersRun(n) PROVE Quiet
  <2>1. UNCHANGED <<thread, timer_id_, pending, id>>
    BY <1>1 DEF AllowTimersRun, taskVars, ioVars
  <2>2. \A c \in Caller : Holding(c)' <=> Holding(c)
    BY <1>1 DEF AllowTimersRun, Goto
  <2> QED
    BY <2>1, <2>2, CalledStays
<1>2. CASE JoinCall
  BY <1>2, CalledStays DEF JoinCall, T!JoinCall, timerVars, ioVars
<1>3. CASE Join
  <2>1. \A t \in TimerTask : thread'[t] = "none" <=> thread[t] = "none"
    <3>1. CASE T!JoinPop \/ T!JoinReturn
      BY <3>1 DEF T!JoinPop, T!JoinReturn
    <3>2. CASE T!JoinThread
      BY <3>2 DEF T!JoinThread, T!TypeOK, Task
    <3> QED
      BY <1>3, <3>1, <3>2 DEF Join
  <2> QED
    BY <1>3, <2>1, CalledStays DEF Join, timerVars, ioVars
<1> QED
  BY <1>1, <1>2, <1>3

\* Starting or ending a task other than the OnTimer task of a timer.
LEMMA QuietTasks ==
  ASSUME AnyLimit,
         \/ \E c \in Caller : \/ \E k \in 1 .. MaxLedger : StartLedgerTask(c, k)
                              \/ RunWaitTask(c)
         \/ \E t \in Task : TaskEnd(t)
  PROVE  Quiet
<1> USE Names DEF Quiet, Holding, AnyLimit, TypeOK
<1>1. ASSUME NEW t \in Task \ TimerTask, T!RunTask(t) PROVE called' = called
  <2>1. thread' = [thread EXCEPT ![t] = "running"]
    BY <1>1 DEF T!RunTask
  <2>2. \A u \in TimerTask : thread'[u] = thread[u]
    BY <2>1 DEF Task, T!TypeOK
  <2> QED
    BY <2>2, CalledStays
<1>2. ASSUME NEW c \in Caller, NEW k \in 1 .. MaxLedger, StartLedgerTask(c, k)
      PROVE  Quiet
  <2>1. PICK t : t = <<"ledger", k>>
    OBVIOUS
  <2>2. t \in Task \ TimerTask
    BY <2>1 DEF TimerTask
  <2>3. T!RunTask(t) /\ UNCHANGED <<pc, id, timerVars, ioVars>>
    BY <1>2, <2>1 DEF StartLedgerTask
  <2> QED
    BY <1>1, <2>2, <2>3 DEF timerVars, ioVars
<1>3. ASSUME NEW c \in Caller, RunWaitTask(c) PROVE Quiet
  <2>1. PICK t : t = <<"wait", id[c]>>
    OBVIOUS
  <2>2. t \in Task \ TimerTask
    <3>1. id[c] \in Timer
      BY <1>3, HandIsTimer DEF RunWaitTask, At
    <3> QED
      BY <2>1, <3>1 DEF TimerTask
  <2>3. /\ T!RunTask(t) /\ pc[c] = "runtask"
        /\ pc' = [pc EXCEPT ![c] = "code"] /\ UNCHANGED <<id, timerVars, ioVars>>
    BY <1>3, <2>1 DEF RunWaitTask, At, Goto
  <2>4. \A d \in Caller : Holding(d)' <=> Holding(d)
    BY <2>3
  <2> QED
    BY <1>1, <2>2, <2>3, <2>4 DEF timerVars, ioVars
<1>4. ASSUME NEW t \in Task, TaskEnd(t) PROVE Quiet
  <2>1. /\ \A u \in TimerTask : thread'[u] = "none" <=> thread[u] = "none"
        /\ UNCHANGED <<pc, id, timerVars, ioVars>>
    BY <1>4 DEF TaskEnd, T!TaskEnd, T!TypeOK, Task
  <2> QED
    BY <2>1, CalledStays DEF timerVars, ioVars
<1> QED
  BY <1>2, <1>3, <1>4

LEMMA QuietWait ==
  ASSUME AnyLimit, NEW w \in WaitTask,
         IoRun(w) \/ HandlerDone(w) \/ IoReturn(w) \/ IoReset(w)
  PROVE  Quiet
<1> USE Names DEF AnyLimit, TypeOK
<1>1. /\ UNCHANGED <<taskVars, id, timerVars, pending>>
      /\ pc[w] \in {"enter", "handled", "run", "reset"}
      /\ \E step \in {"reset", "run", "exit"} : pc' = [pc EXCEPT ![w] = step]
  BY DEF IoRun, HandlerDone, IoReturn, IoReset, At, Goto, ioVars
<1>2. \A c \in Caller : Holding(c)' <=> Holding(c)
  BY <1>1 DEF Holding
<1> QED
  BY <1>1, <1>2, CalledStays DEF Quiet, taskVars, timerVars

\* The four steps that move a timer on.
LEMMA GrantedMoves ==
  ASSUME AnyLimit, NEW c \in Caller, SetTimerGranted(c)
  PROVE  /\ timer_id_ \in Nat /\ timer_id_' = timer_id_ + 1 /\ timer_id_' \in Timer
         /\ UNCHANGED <<called, pending>> /\ c \notin WaitTask /\ ~ Holding(c)
         /\ \A d \in Caller : /\ id'[d] = IF d = c THEN timer_id_' ELSE id[d]
                              /\ pc'[d] = IF d = c THEN "await" ELSE pc[d]
<1>1. /\ pc[c] = "code" /\ timer_id_ < MaxTimers /\ timer_id_' = timer_id_ + 1
      /\ id' = [id EXCEPT ![c] = timer_id_'] /\ pc' = [pc EXCEPT ![c] = "await"]
      /\ UNCHANGED <<thread, pending>>
  BY DEF SetTimerGranted, At, NewId, Goto, taskVars, ioVars
<1>2. timer_id_ \in Nat /\ timer_id_' \in Timer
  BY <1>1, Numbers DEF AnyLimit, TypeOK
<1>3. c \notin WaitTask /\ ~ Holding(c) /\ called' = called
  BY <1>1 DEF AnyLimit, Placed, WaitSteps, Holding, called
<1>4. \A d \in Caller : /\ id'[d] = IF d = c THEN timer_id_' ELSE id[d]
                       /\ pc'[d] = IF d = c THEN "await" ELSE pc[d]
  BY <1>1 DEF AnyLimit, TypeOK
<1> QED
  BY <1>1, <1>2, <1>3, <1>4

LEMMA ArmMoves ==
  ASSUME AnyLimit, NEW c \in Caller, AsyncWait(c)
  PROVE  /\ id[c] \in Timer /\ id[c] <= timer_id_
         /\ pending' = pending \cup {id[c]} /\ UNCHANGED <<called, id, timer_id_>>
         /\ c \notin WaitTask /\ Holding(c)
         /\ \A d \in Caller : pc'[d] = IF d = c THEN "runtask" ELSE pc[d]
BY HandIsTimer DEF AsyncWait, At, Goto, AnyLimit, TypeOK, Placed, WaitSteps,
   Holding, called, taskVars, timerVars

LEMMA ExpireMoves ==
  ASSUME AnyLimit, NEW w \in WaitTask, Expire(w)
  PROVE  /\ UNCHANGED <<called, timer_id_>> /\ pc[w] = "run"
         /\ \A d \in Caller : pc'[d] = IF d = w THEN "handler" ELSE pc[d]
         /\ \E i \in pending :
              /\ i \in Timer /\ pending' = pending \ {i}
              /\ \A d \in Caller : id'[d] = IF d = w THEN i ELSE id[d]
<1> USE Names, Numbers DEF AnyLimit, TypeOK
<1>1. PICK i \in pending : pending' = pending \ {i} /\ id' = [id EXCEPT ![w] = i]
  BY DEF Expire
<1>2. i \in Timer
  OBVIOUS
<1>3. UNCHANGED <<thread, timer_id_>> /\ pc[w] = "run"
      /\ pc' = [pc EXCEPT ![w] = "handler"]
  BY DEF Expire, At, Goto, taskVars, timerVars
<1>4. called' = called
  BY <1>3 DEF called
<1> QED
  BY <1>1, <1>2, <1>3, <1>4

LEMMA CallMoves ==
  ASSUME AnyLimit, NEW w \in WaitTask, HandlerRunTask(w)
  PROVE  /\ id[w] \in Timer /\ id[w] <= timer_id_
         /\ UNCHANGED <<pending, id, timer_id_>> /\ pc[w] = "handler"
         /\ \A d \in Caller : pc'[d] = IF d = w THEN "handled" ELSE pc[d]
         /\ id[w] \notin called /\ called' = called \cup {id[w]}
<1> USE Names DEF AnyLimit, TypeOK
<1>1. pc[w] = "handler" /\ UNCHANGED <<pending, id, timer_id_>>
      /\ pc' = [pc EXCEPT ![w] = "handled"]
  BY DEF HandlerRunTask, At, Goto, timerVars, ioVars
<1>2. PICK j \in Timer : j = id[w] /\ j <= timer_id_
  BY <1>1, HandIsTimer
<1>3. PICK t \in Task : t = <<"timer", j>>
  OBVIOUS
<1>4. thread[t] = "none" /\ thread' = [thread EXCEPT ![t] = "running"]
  BY <1>2, <1>3 DEF HandlerRunTask, T!RunTask
<1>5. \A u \in Task : thread'[u] # "none" <=> u = t \/ thread[u] # "none"
  BY <1>4 DEF T!TypeOK
<1>6. ASSUME NEW i \in Timer
      PROVE  <<"timer", i>> \in Task /\ (<<"timer", i>> = t <=> i = j)
  <2>1. <<"timer", i>> = <<"timer", j>> => i = j
    OBVIOUS
  <2>2. <<"timer", i>> \in Task
    BY Zenon
  <2> QED
    BY <1>3, <2>1, <2>2, Zenon
<1>7. \A i \in Timer : i \in called' <=> i = j \/ i \in called
  <2> TAKE i \in Timer
  <2>1. PICK u \in Task : u = <<"timer", i>> /\ (u = t <=> i = j)
    BY <1>6
  <2>2. thread'[u] # "none" <=> i = j \/ thread[u] # "none"
    BY <1>5, <2>1
  <2> QED
    BY <2>1, <2>2 DEF called
<1>8. j \notin called
  BY <1>3, <1>4 DEF called
<1>9. called' = called \cup {j}
  BY <1>7 DEF called
<1> QED
  BY <1>1, <1>2, <1>8, <1>9

LEMMA StagesStep ==
  ASSUME AnyLimit, Stages, [Next]_vars PROVE Stages'
<1> USE Names
<1>0. \A c \in Caller : Holding(c) => id[c] \in Timer /\ id[c] <= timer_id_
  BY HandIsTimer DEF Holding
<1>1. ASSUME Quiet PROVE Stages'
  BY <1>1 DEF Quiet, Stages
<1>2. ASSUME NEW c \in Caller, SetTimerGranted(c) PROVE Stages'
  <2>1. /\ timer_id_ \in Nat /\ timer_id_' = timer_id_ + 1 /\ timer_id_' \in Timer
        /\ UNCHANGED <<called, pending>>
        /\ \A d \in Caller : /\ id'[d] = IF d = c THEN timer_id_' ELSE id[d]
                             /\ pc'[d] = IF d = c THEN "await" ELSE pc[d]
    BY <1>2, GrantedMoves
  <2>2. \A d \in Caller : Holding(d) => id[d] # timer_id_'
    BY <1>0, <2>1, Numbers
  <2>3. timer_id_' \notin pending /\ timer_id_' \notin called
    <3>1. pending \subseteq 1 .. timer_id_
      BY DEF AnyLimit, TypeOK
    <3>2. timer_id_' > timer_id_ /\ timer_id_' \notin 1 .. timer_id_
      BY <2>1
    <3> QED
      BY <2>1, <3>1, <3>2 DEF Stages
  <2>4. \A i \in Timer : i > timer_id_' => i > timer_id_
    BY <2>1, Numbers
  <2> QED
    BY <2>1, <2>2, <2>3, <2>4 DEF Stages, Holding
<1>3. ASSUME NEW c \in Caller, AsyncWait(c) PROVE Stages'
  <2>1. /\ id[c] \in Timer /\ id[c] <= timer_id_
        /\ pending' = pending \cup {id[c]} /\ UNCHANGED <<called, id, timer_id_>>
        /\ Holding(c)
        /\ \A d \in Caller : pc'[d] = IF d = c THEN "runtask" ELSE pc[d]
    BY <1>3, ArmMoves
  <2>2. \A d \in Caller : Holding(d)' => Holding(d) /\ d # c
    BY <2>1 DEF Holding
  <2> QED
    BY <2>1, <2>2 DEF Stages
<1>4. ASSUME NEW w \in WaitTask, Expire(w) PROVE Stages'
  <2>1. PICK i \in pending : /\ i \in Timer /\ pending' = pending \ {i}
                             /\ \A d \in Caller : id'[d] = IF d = w THEN i ELSE id[d]
    BY <1>4, ExpireMoves
  <2>2. /\ UNCHANGED <<called, timer_id_>>
        /\ \A d \in Caller : pc'[d] = IF d = w THEN "handler" ELSE pc[d]
    BY <1>4, ExpireMoves
  <2>3. \A d \in Caller : Holding(d)' => d = w \/ Holding(d)
    BY <2>2 DEF Holding
  <2>4. i \notin called /\ \A d \in Caller : Holding(d) => id[d] # i
    BY <2>1 DEF Stages
  <2> QED
    BY <2>1, <2>2, <2>3, <2>4 DEF Stages
<1>5. ASSUME NEW w \in WaitTask, HandlerRunTask(w) PROVE Stages'
  <2>1. /\ id[w] \in Timer /\ id[w] <= timer_id_
        /\ UNCHANGED <<pending, id, timer_id_>> /\ pc[w] = "handler"
        /\ \A d \in Caller : pc'[d] = IF d = w THEN "handled" ELSE pc[d]
        /\ id[w] \notin called /\ called' = called \cup {id[w]}
    BY <1>5, CallMoves
  <2>2. \A d \in Caller : Holding(d)' => Holding(d) /\ d # w
    BY <2>1 DEF Holding
  <2>3. id[w] \notin pending /\ ~ (id[w] > timer_id_)
    BY <2>1, Numbers DEF Stages, Holding, AnyLimit, TypeOK
  <2>4. \A d \in Caller : Holding(d)' => id[d] # id[w]
    BY <2>1, <2>2 DEF Stages, Holding
  <2> QED
    BY <2>1, <2>2, <2>3, <2>4 DEF Stages
<1>6. CASE UNCHANGED vars \/ \E c \in Caller : SetTimerRefused(c)
  <2>1. Quiet
    BY <1>6 DEF SetTimerRefused, vars, taskVars, timerVars, ioVars, Quiet, Holding,
       called
  <2> QED
    BY <1>1, <2>1
<1> QED
  BY <1>1, <1>2, <1>3, <1>4, <1>5, <1>6, QuietMain, QuietTasks, QuietWait
     DEF Next, SetTimerStep, WaitStep

LEMMA StagesInvariant == Spec => [](AnyLimit /\ Stages)
<1>1. Init => Stages
  <2> SUFFICES ASSUME Init PROVE Stages
    OBVIOUS
  <2>1. called = {} /\ \A c \in Caller : ~ Holding(c)
    BY Names DEF Init, T!Init, called, Holding
  <2> QED
    BY <2>1 DEF Stages
<1>2. AnyLimit /\ Stages /\ [Next]_vars => Stages'
  BY StagesStep
<1> QED
  BY <1>1, <1>2, AnyLimitInvariant, PTL DEF Spec

\* The timers whose handler a wait thread has.
fired == {id[w] : w \in {v \in WaitTask : pc[v] = "handler"}}

LEMMA FiredStays ==
  ASSUME \A w \in WaitTask : /\ pc'[w] = "handler" <=> pc[w] = "handler"
                             /\ pc[w] = "handler" => id'[w] = id[w]
  PROVE  fired' = fired
BY DEF fired

LEMMA QuietIsStutter ==
  ASSUME AnyLimit, AnyLimit', Quiet, max_number_timers_' = max_number_timers_
  PROVE  UNCHANGED OneShot!vars
<1>1. \A w \in WaitTask : pc'[w] = "handler" <=> pc[w] = "handler"
  BY Names DEF AnyLimit, Placed, WaitSteps, Quiet, Holding
<1>2. fired' = fired
  BY <1>1, FiredStays DEF Quiet
<1>3. UNCHANGED <<timer_id_, pending, called>>
  BY DEF Quiet
<1> QED
  BY <1>2, <1>3 DEF OneShot!vars, fired, called

\* Every step moves one timer on, or sets the limit, or is not seen.
LEMMA OneShotSteps ==
  ASSUME AnyLimit, AnyLimit', Stages, [Next]_vars
  PROVE  [OneShot!Next]_(OneShot!vars)
<1> USE Names
<1>0. \A i \in Timer : OneShot!Arm(i) \/ OneShot!Expire(i) \/ OneShot!CallOnTimer(i)
                      => OneShot!Next
  BY DEF OneShot!Next
<1>1. ASSUME NEW n \in Limits, AllowTimersRun(n) PROVE OneShot!Next
  <2>1. max_number_timers_' = timer_id_ + n /\ UNCHANGED <<timer_id_, pending, thread>>
    BY <1>1 DEF AllowTimersRun, taskVars, ioVars
  <2>2. fired' = fired
    BY <1>1, FiredStays DEF AllowTimersRun, Goto, AnyLimit, TypeOK
  <2>3. OneShot!Allow(n)
    BY <2>1, <2>2 DEF OneShot!Allow, fired
  <2> QED
    BY <2>3 DEF OneShot!Next
<1>2. ASSUME NEW c \in Caller, SetTimerGranted(c) PROVE OneShot!Next
  <2>1. /\ timer_id_ \in Nat /\ timer_id_' = timer_id_ + 1 /\ timer_id_' \in Timer
        /\ UNCHANGED <<called, pending>> /\ c \notin WaitTask
        /\ \A d \in Caller : /\ id'[d] = IF d = c THEN timer_id_' ELSE id[d]
                             /\ pc'[d] = IF d = c THEN "await" ELSE pc[d]
    BY <1>2, GrantedMoves
  <2>2. /\ max_number_timers_' = max_number_timers_
        /\ max_number_timers_ # 0 => timer_id_ < max_number_timers_
    BY <1>2, <2>1, Numbers DEF SetTimerGranted, LimitReached, AnyLimit, TypeOK
  <2>3. fired' = fired
    BY <2>1, FiredStays
  <2>4. OneShot!Grant
    BY <2>1, <2>2, <2>3 DEF OneShot!Grant, fired, called
  <2> QED
    BY <2>4 DEF OneShot!Next
<1>3. ASSUME NEW c \in Caller, AsyncWait(c) PROVE OneShot!Next
  <2>1. /\ id[c] \in Timer /\ id[c] <= timer_id_
        /\ pending' = pending \cup {id[c]} /\ UNCHANGED <<called, id, timer_id_>>
        /\ c \notin WaitTask /\ Holding(c)
        /\ \A d \in Caller : pc'[d] = IF d = c THEN "runtask" ELSE pc[d]
    BY <1>3, ArmMoves
  <2>2. id[c] \notin pending /\ id[c] \notin called
    BY <2>1 DEF Stages
  <2>3. id[c] \notin fired
    BY <2>1 DEF Stages, Holding, fired
  <2>4. fired' = fired
    BY <2>1, FiredStays
  <2>5. PICK i \in Timer : i = id[c]
    BY <2>1
  <2>6. max_number_timers_' = max_number_timers_
    BY <1>3 DEF AsyncWait, timerVars
  <2>7. OneShot!Arm(i)
    BY <2>1, <2>2, <2>3, <2>4, <2>5, <2>6 DEF OneShot!Arm, fired, called
  <2> QED
    BY <1>0, <2>7
<1>4. ASSUME NEW w \in WaitTask, Expire(w) PROVE OneShot!Next
  <2>1. PICK i \in pending : /\ i \in Timer /\ pending' = pending \ {i}
                             /\ \A d \in Caller : id'[d] = IF d = w THEN i ELSE id[d]
    BY <1>4, ExpireMoves
  <2>2. /\ UNCHANGED <<called, timer_id_>> /\ pc[w] = "run"
        /\ \A d \in Caller : pc'[d] = IF d = w THEN "handler" ELSE pc[d]
    BY <1>4, ExpireMoves
  <2>3. max_number_timers_' = max_number_timers_
    BY <1>4 DEF Expire, timerVars
  <2>4. fired' = fired \cup {i}
    BY <2>1, <2>2 DEF fired
  <2>5. OneShot!Expire(i)
    BY <2>1, <2>2, <2>3, <2>4 DEF OneShot!Expire, fired, called
  <2> QED
    BY <1>0, <2>1, <2>5
<1>5. ASSUME NEW w \in WaitTask, HandlerRunTask(w) PROVE OneShot!Next
  <2>1. /\ id[w] \in Timer
        /\ UNCHANGED <<pending, id, timer_id_>> /\ pc[w] = "handler"
        /\ \A d \in Caller : pc'[d] = IF d = w THEN "handled" ELSE pc[d]
        /\ id[w] \notin called /\ called' = called \cup {id[w]}
    BY <1>5, CallMoves
  <2>2. PICK i \in Timer : i = id[w]
    BY <2>1
  <2>3. \A v \in WaitTask : pc[v] = "handler" /\ id[v] = i => v = w
    BY <2>1, <2>2 DEF Stages, Holding
  <2>4. i \in fired /\ fired' = fired \ {i}
    BY <2>1, <2>2, <2>3 DEF fired
  <2>5. max_number_timers_' = max_number_timers_
    BY <1>5 DEF HandlerRunTask, timerVars
  <2>6. OneShot!CallOnTimer(i)
    BY <2>1, <2>2, <2>4, <2>5 DEF OneShot!CallOnTimer, fired, called
  <2> QED
    BY <1>0, <2>6
<1>6. ASSUME JoinCall \/ Join PROVE UNCHANGED OneShot!vars
  <2>1. max_number_timers_' = max_number_timers_
    BY <1>6 DEF JoinCall, Join, timerVars
  <2> QED
    BY <1>6, <2>1, QuietMain, QuietIsStutter
<1>7. ASSUME \/ \E c \in Caller : \/ \E k \in 1 .. MaxLedger : StartLedgerTask(c, k)
                                  \/ RunWaitTask(c)
             \/ \E t \in Task : TaskEnd(t)
      PROVE  UNCHANGED OneShot!vars
  <2>1. max_number_timers_' = max_number_timers_
    BY <1>7 DEF StartLedgerTask, RunWaitTask, TaskEnd, timerVars
  <2> QED
    BY <1>7, <2>1, QuietTasks, QuietIsStutter
<1>8. ASSUME NEW w \in WaitTask,
             IoRun(w) \/ HandlerDone(w) \/ IoReturn(w) \/ IoReset(w)
      PROVE  UNCHANGED OneShot!vars
  <2>1. max_number_timers_' = max_number_timers_
    BY <1>8 DEF IoRun, HandlerDone, IoReturn, IoReset, timerVars
  <2> QED
    BY <1>8, <2>1, QuietWait, QuietIsStutter
<1>9. CASE UNCHANGED vars \/ \E c \in Caller : SetTimerRefused(c)
  BY <1>9 DEF SetTimerRefused, vars, taskVars, timerVars, ioVars, OneShot!vars
<1> QED
  BY <1>1, <1>2, <1>3, <1>4, <1>5, <1>6, <1>7, <1>8, <1>9
     DEF Next, SetTimerStep, WaitStep

\* SetTimer, io_ and the wait threads implement OneShotTimers, for any limits
\* and any number of threads in io_.run(): no timer beyond the budget, none armed,
\* expired or given to OnTimer twice, and none given to OnTimer that did not
\* expire.
THEOREM TimersImplementOneShot == Spec => TimersAreOneShot
<1>1. Init => OneShot!Init
  BY Names DEF Init, T!Init, OneShot!Init
<1>2. AnyLimit /\ AnyLimit' /\ Stages /\ [Next]_vars => [OneShot!Next]_(OneShot!vars)
  BY OneShotSteps
<1> QED
  BY <1>1, <1>2, StagesInvariant, PTL DEF Spec, TimersAreOneShot, OneShot!Spec
=============================================================================

--------------------------- MODULE Lifecycle_proofs ---------------------------
(***************************************************************************)
(* The safety properties of Lifecycle, for any tasks and any programs.     *)
(* Every step of the process is a step of its task runner, so what         *)
(* TaskRunner_proofs shows of the threads holds here.  On top of it the    *)
(* inductive invariant says where main can be in its program: in a join    *)
(* main stands at a "Join"; a null ledger_ has a Shutdown behind it; and a *)
(* thread that lives is owed to a library call main has not joined since.  *)
(***************************************************************************)
EXTENDS Lifecycle, TaskRunner_proofs

\* Main is in the library or in a join only at such a call.
AtCall ==
  /\ at = "library" => /\ main = "out" /\ next <= Len(script)
                       /\ script[next] \in LibraryCalls
  /\ main # "out" => /\ at = "ready" /\ next <= Len(script)
                     /\ script[next] = "Join"

\* The destructor runs at the end of the program, or while an exception
\* unwinds the stack.
AtEnd == at \in {"dying", "gone"} => thrown \/ next = Len(script) + 1

\* ledger_ is null after a Shutdown or the destructor.
Reset ==
  ledger_ \/ at = "gone" \/ \E i \in 1 .. next - 1 : script[i] = "Shutdown"

\* Call i is a library call, in progress or past, with no join after it.
Unjoined(i) ==
  /\ script[i] \in LibraryCalls
  /\ i < next \/ (i = next /\ at = "library")
  /\ \A k \in i .. next - 1 : script[k] # "Join"

\* Threads are there only on account of an unjoined call.
Owed == Quiescent \/ thrown \/ \E i \in 1 .. Len(script) : Unjoined(i)

LifecycleInv ==
  /\ LifecycleTypeOK /\ AtCall /\ AtEnd /\ Reset /\ Owed
  /\ NothingOutlivesService /\ SafePrograms
-----------------------------------------------------------------------------
\* Every step of the process is a step of the task runner.
LEMMA LifecycleStep == [LifecycleNext]_allVars => [Next]_vars
<1> SUFFICES ASSUME [LifecycleNext]_allVars PROVE [Next]_vars
  OBVIOUS
<1> USE DEF vars
<1>1. CASE MainStep \/ LibraryThrows
  BY <1>1 DEF MainStep, LibraryThrows, Forward, CreateWallet, EnterLibrary,
       CreateWalletAgain, LibraryReturn, Shutdown, Join, JoinStep, JoinEnd,
       Destroy, DestroyTasks, Exit, Next
<1>2. ASSUME NEW t \in Task,
             StartTask(t) \/ EndTask(t) \/ TaskThrows(t) \/ UseDestroyed(t)
      PROVE  [Next]_vars
  BY <1>2 DEF StartTask, EndTask, TaskThrows, UseDestroyed, Next
<1>3. CASE UNCHANGED allVars
  BY <1>3 DEF allVars
<1> QED
  BY <1>1, <1>2, <1>3 DEF LifecycleNext

\* The threads of the process are a task runner, which is how RunTask and
\* TestingJoinAllRunningTasks are reasoned about apart from their callers.
THEOREM LifecycleIsTaskRunner == LifecycleSafe => SafeSpec
<1>1. LifecycleInit => Init
  BY DEF LifecycleInit
<1> QED
  BY <1>1, LifecycleStep, PTL DEF LifecycleSafe, SafeSpec
\* What the types and the invariants of TaskRunner say of a process.
LEMMA Threads == LifecycleSafe => [](TypeOK /\ HandleOwnership)
BY LifecycleIsTaskRunner, Typing, Ownership, PTL

\* The program main runs is a finite sequence of calls.
LEMMA ScriptIsSequence ==
  ASSUME LifecycleTypeOK
  PROVE  /\ Len(script) \in Nat /\ next \in Nat
         /\ \A i \in 1 .. Len(script) : script[i] \in Calls
BY ProgramsAssumption DEF LifecycleTypeOK

\* A thread that is listed, held or running keeps the process from being
\* quiescent; main alone with an empty vector has no threads.
LEMMA QuiescentWithoutHandles ==
  ASSUME TypeOK, HandleOwnership, main = "out", tasks_in_progress_ = << >>
  PROVE  Quiescent
<1>1. \A t \in Task : ~ Listed(t) /\ ~ Held(t)
  BY DEF Listed, Held
<1> QED
  BY <1>1 DEF Quiescent, HandleOwnership

LEMMA HandleMeansThread ==
  ASSUME TypeOK, HandleOwnership, tasks_in_progress_ # << >>
  PROVE  ~ Quiescent
<1>1. 1 \in 1 .. Len(tasks_in_progress_) /\ tasks_in_progress_[1] \in Task
  BY EmptySeq DEF TypeOK
<1> QED
  BY <1>1 DEF Quiescent, HandleOwnership, Listed

\* The types, and where main is.
LEMMA NextAtCall ==
  LifecycleTypeOK /\ AtCall /\ [LifecycleNext]_allVars
    => LifecycleTypeOK' /\ AtCall'
<1> SUFFICES ASSUME LifecycleTypeOK, AtCall, [LifecycleNext]_allVars
             PROVE  LifecycleTypeOK' /\ AtCall'
  OBVIOUS
<1> USE ScriptIsSequence DEF LifecycleTypeOK, AtCall
<1>1. CASE Forward \/ CreateWallet
  BY <1>1 DEF Forward, CreateWallet, EnterLibrary, Calling, Die, vars,
              LibraryCalls
<1>2. CASE CreateWalletAgain
  BY <1>2 DEF CreateWalletAgain, Calling, Return, vars
<1>9. CASE LibraryThrows
  BY <1>9 DEF LibraryThrows, vars
<1>10. CASE Shutdown
  <2>1. /\ main' = "out" /\ at' = "ready" /\ next' = next + 1
        /\ next <= Len(script)
        /\ UNCHANGED <<script, created_wallet, process, thrown>>
    BY <1>10 DEF Shutdown, Calling, Return, vars
  <2>2. ledger_' \in BOOLEAN
    BY <1>10 DEF Shutdown
  <2> QED
    BY <2>1, <2>2
<1>8. CASE LibraryReturn
  <2>1. created_wallet' \in BOOLEAN
    BY <1>8 DEF LibraryReturn
  <2> QED
    BY <1>8, <2>1 DEF LibraryReturn, Return, vars
<1>3. CASE Join \/ JoinStep
  BY <1>3 DEF Join, JoinStep, JoinCall, JoinPop, JoinThread, Calling, lifeVars
<1>4. CASE JoinEnd
  BY <1>4 DEF JoinEnd, JoinReturn, Return
<1>5. CASE Destroy \/ DestroyTasks \/ Exit
  BY <1>5 DEF Destroy, DestroyTasks, Exit, Die, vars
<1>6. ASSUME NEW t \in Task,
             StartTask(t) \/ EndTask(t) \/ TaskThrows(t) \/ UseDestroyed(t)
      PROVE  LifecycleTypeOK' /\ AtCall'
  BY <1>6 DEF StartTask, EndTask, TaskThrows, UseDestroyed, RunTask, TaskEnd,
              lifeVars, vars, Die
<1>7. CASE UNCHANGED allVars
  BY <1>7 DEF allVars, lifeVars, vars
<1> QED
  BY <1>1, <1>2, <1>3, <1>4, <1>5, <1>6, <1>7, <1>8, <1>9, <1>10
  DEF LifecycleNext, MainStep

\* Main comes to its end only at the end of the program or by an exception,
\* and ledger_ is null only after a Shutdown or the end.
LEMMA NextReset ==
  LifecycleInv /\ [LifecycleNext]_allVars => AtEnd' /\ Reset'
<1> SUFFICES ASSUME LifecycleInv, [LifecycleNext]_allVars
             PROVE  AtEnd' /\ Reset'
  OBVIOUS
<1> USE ScriptIsSequence DEF LifecycleInv, LifecycleTypeOK, AtCall, AtEnd, Reset
<1>1. CASE Forward \/ CreateWallet
  BY <1>1 DEF Forward, CreateWallet, EnterLibrary, Calling, Die, vars
<1>2. CASE CreateWalletAgain \/ LibraryReturn \/ LibraryThrows
  BY <1>2 DEF CreateWalletAgain, LibraryReturn, LibraryThrows, Calling, Return
<1>3. CASE Shutdown
  <2>1. next' - 1 = next /\ script'[next] = "Shutdown" /\ at' = "ready"
    BY <1>3 DEF Shutdown, Return, Calling
  <2> QED
    BY <2>1
<1>4. CASE Join \/ JoinStep
  BY <1>4 DEF Join, JoinStep, lifeVars
<1>5. CASE JoinEnd
  BY <1>5 DEF JoinEnd, JoinReturn, Return
<1>6. CASE Destroy \/ DestroyTasks \/ Exit
  BY <1>6 DEF Destroy, DestroyTasks, Exit, Die, vars
<1>7. ASSUME NEW t \in Task,
             StartTask(t) \/ EndTask(t) \/ TaskThrows(t) \/ UseDestroyed(t)
      PROVE  AtEnd' /\ Reset'
  BY <1>7 DEF StartTask, EndTask, TaskThrows, UseDestroyed, lifeVars, Die
<1>8. CASE UNCHANGED allVars
  BY <1>8 DEF allVars, lifeVars
<1> QED
  BY <1>1, <1>2, <1>3, <1>4, <1>5, <1>6, <1>7, <1>8 DEF LifecycleNext, MainStep

\* Outside the library a process without threads gets no new ones.
LEMMA QuiescentStays ==
  ASSUME TypeOK, Quiescent, at # "library", [LifecycleNext]_allVars
  PROVE  Quiescent'
<1> USE DEF TypeOK, Quiescent, Live
<1>1. [Next]_vars
  BY LifecycleStep
<1>2. ASSUME NEW t \in Task PROVE ~ RunTask(t) \/ UNCHANGED thread
  <2>1. CASE MainStep \/ LibraryThrows
    BY <2>1 DEF MainStep, LibraryThrows, Forward, CreateWallet, EnterLibrary,
         CreateWalletAgain, LibraryReturn, Shutdown, Join, JoinStep, JoinEnd,
         Destroy, DestroyTasks, Exit, JoinCall, JoinPop, JoinThread,
         JoinReturn, RunTask, vars
  <2>2. ASSUME NEW u \in Task,
               StartTask(u) \/ EndTask(u) \/ TaskThrows(u) \/ UseDestroyed(u)
        PROVE  ~ RunTask(t) \/ UNCHANGED thread
    BY <2>2 DEF StartTask, EndTask, TaskThrows, UseDestroyed, TaskEnd, vars
  <2>3. CASE UNCHANGED allVars
    BY <2>3 DEF allVars, vars
  <2> QED
    BY <2>1, <2>2, <2>3 DEF LifecycleNext
<1> QED
  BY <1>1, <1>2 DEF Next, RunTask, TaskEnd, JoinCall, JoinPop, JoinThread,
                    JoinReturn, vars

\* Once the service is gone there are no threads, and none come.
LEMMA NextNothingOutlives ==
  LifecycleInv /\ TypeOK /\ HandleOwnership /\ [LifecycleNext]_allVars
    => NothingOutlivesService'
<1> SUFFICES ASSUME LifecycleInv, TypeOK, HandleOwnership,
                    [LifecycleNext]_allVars, at' = "gone"
             PROVE  Quiescent'
  BY DEF NothingOutlivesService
<1>1. CASE at = "gone"
  BY <1>1, QuiescentStays DEF LifecycleInv, NothingOutlivesService
<1>2. CASE at # "gone"
  <2>1. DestroyTasks
    BY <1>2 DEF LifecycleNext, MainStep, LibraryThrows, Forward, CreateWallet,
         EnterLibrary, CreateWalletAgain, LibraryReturn, Shutdown, Join,
         JoinStep, JoinEnd, Destroy, DestroyTasks, Exit, StartTask, EndTask,
         TaskThrows, UseDestroyed, Return, allVars, lifeVars
  <2>2. at = "dying" /\ tasks_in_progress_ = << >>
    BY <1>2, <2>1 DEF DestroyTasks
  <2>3. main = "out"
    BY <2>2 DEF LifecycleInv, AtCall
  <2> QED
    BY <2>2, <2>3, QuiescentWithoutHandles, QuiescentStays
<1> QED
  BY <1>1, <1>2

\* Threads stay owed to an unjoined library call: a call of main's moves it on,
\* and when a join ends there are no threads left.
LEMMA NextOwed ==
  LifecycleInv /\ TypeOK /\ HandleOwnership /\ [LifecycleNext]_allVars => Owed'
<1> SUFFICES ASSUME LifecycleInv, TypeOK, HandleOwnership,
                    [LifecycleNext]_allVars
             PROVE  Owed'
  OBVIOUS
<1> USE ScriptIsSequence DEF LifecycleInv, LifecycleTypeOK, AtCall
<1>1. CASE at = "library" /\ at' = "library" /\ UNCHANGED <<script, next>>
  BY <1>1 DEF Owed, Unjoined
<1>2. CASE at # "library" /\ UNCHANGED <<script, next, thrown>>
  <2>1. Quiescent => Quiescent'
    BY <1>2, QuiescentStays
  <2> QED
    BY <1>2, <2>1 DEF Owed, Unjoined
<1>3. CASE CreateWalletAgain \/ Shutdown
  <2>1. /\ next <= Len(script) /\ script[next] # "Join" /\ next' = next + 1
        /\ at # "library" /\ UNCHANGED <<script, thrown>>
    BY <1>3 DEF CreateWalletAgain, Shutdown, Calling, Return
  <2>2. Quiescent => Quiescent'
    BY <2>1, QuiescentStays
  <2>3. ASSUME NEW i \in 1 .. Len(script), Unjoined(i) PROVE Unjoined(i)'
    BY <2>1, <2>3 DEF Unjoined
  <2> QED
    BY <2>1, <2>2, <2>3 DEF Owed
<1>4. CASE LibraryReturn
  <2>1. /\ next <= Len(script) /\ script[next] \in LibraryCalls
        /\ next' = next + 1 /\ UNCHANGED script
    BY <1>4 DEF LibraryReturn, Return
  <2>2. PICK i \in 1 .. Len(script) : i = next
    BY <2>1
  <2>3. Unjoined(i)'
    BY <2>1, <2>2 DEF Unjoined, LibraryCalls
  <2> QED
    BY <2>1, <2>3 DEF Owed
<1>5. CASE LibraryThrows
  BY <1>5 DEF LibraryThrows, Owed
<1>6. CASE JoinEnd
  <2>1. Quiescent
    <3>1. \A t \in Task : ~ Listed(t) /\ ~ Held(t)
      BY <1>6 DEF JoinEnd, JoinReturn, Listed, Held
    <3> QED
      BY <3>1 DEF Quiescent, HandleOwnership
  <2> QED
    BY <1>6, <2>1 DEF JoinEnd, JoinReturn, Owed, Quiescent, Live
<1>7. CASE \E t \in Task : TaskThrows(t)
  BY <1>7 DEF TaskThrows, Owed
<1>8. \/ /\ at = "library" => at' = "library"
         /\ UNCHANGED <<script, next, thrown>>
      \/ CreateWalletAgain \/ Shutdown \/ LibraryReturn \/ LibraryThrows
      \/ JoinEnd \/ \E t \in Task : TaskThrows(t)
  BY DEF LifecycleNext, MainStep, Forward, CreateWallet, EnterLibrary, Join,
       JoinStep, Destroy, DestroyTasks, Exit, StartTask, EndTask,
       UseDestroyed, Calling, allVars, lifeVars
<1> QED
  BY <1>1, <1>2, <1>3, <1>4, <1>5, <1>6, <1>7, <1>8

\* What a disciplined program has done when its threads could be in danger.
LEMMA DisciplineHolds ==
  ASSUME LifecycleTypeOK, Disciplined(script), Owed, ~ Quiescent, ~ thrown
  PROVE  /\ next <= Len(script) \/ at = "library"
         /\ \A j \in 1 .. next - 1 : script[j] # "Shutdown"
<1> USE ScriptIsSequence DEF LifecycleTypeOK
<1>1. PICK i \in 1 .. Len(script) : Unjoined(i)
  BY DEF Owed
<1>2. script[i] \in LibraryCalls /\ i <= next
  BY <1>1 DEF Unjoined
<1>3. ASSUME NEW j \in i .. Len(script) + 1,
             j = Len(script) + 1 \/ script[j] = "Shutdown", j <= next
      PROVE  FALSE
  <2>1. PICK k \in i .. j - 1 : script[k] = "Join"
    BY <1>2, <1>3 DEF Disciplined
  <2> QED
    BY <1>1, <1>3, <2>1 DEF Unjoined
<1>4. next # Len(script) + 1
  BY <1>2, <1>3
<1>5. ASSUME NEW j \in 1 .. next - 1, script[j] = "Shutdown" PROVE FALSE
  <2>1. CASE j <= i
    BY <1>2, <1>5, <2>1 DEF Disciplined
  <2>2. CASE i <= j
    BY <1>2, <1>3, <1>5, <2>2
  <2> QED
    BY <2>1, <2>2
<1> QED
  BY <1>4, <1>5

\* The three ways to die, for a disciplined program.
LEMMA NextSafePrograms ==
  LifecycleInv /\ TypeOK /\ HandleOwnership /\ [LifecycleNext]_allVars
    => SafePrograms'
<1> SUFFICES ASSUME LifecycleInv, TypeOK, HandleOwnership,
                    [LifecycleNext]_allVars,
                    Died', Disciplined(script)', ~ thrown'
             PROVE  FALSE
  BY DEF SafePrograms
<1> USE ScriptIsSequence DEF LifecycleInv, LifecycleTypeOK
<1>1. Disciplined(script) /\ ~ thrown
  <2>1. script' = script /\ (thrown => thrown')
    BY DEF LifecycleNext, MainStep, LibraryThrows, Forward, CreateWallet,
         EnterLibrary, CreateWalletAgain, LibraryReturn, Shutdown, Join,
         JoinStep, JoinEnd, Destroy, DestroyTasks, Exit, StartTask, EndTask,
         TaskThrows, UseDestroyed, allVars, lifeVars
  <2> QED
    BY <2>1 DEF Disciplined
<1>2. ~ Died
  BY <1>1 DEF SafePrograms
<1>3. \/ (Forward \/ CreateWallet) /\ ~ ledger_
      \/ DestroyTasks /\ tasks_in_progress_ # << >>
      \/ \E t \in Task : UseDestroyed(t)
  BY <1>2 DEF Died, LifecycleNext, MainStep, LibraryThrows, Forward,
       CreateWallet, EnterLibrary, CreateWalletAgain, LibraryReturn, Shutdown,
       Join, JoinStep, JoinEnd, Destroy, DestroyTasks, Exit, StartTask,
       EndTask, TaskThrows, UseDestroyed, Die, allVars, lifeVars
<1>4. ASSUME (Forward \/ CreateWallet) /\ ~ ledger_ PROVE FALSE
  <2>1. /\ next <= Len(script) /\ script[next] \in LibraryCalls
        /\ at = "ready"
    BY <1>4 DEF Forward, CreateWallet, Calling, LibraryCalls
  <2>2. PICK j \in 1 .. next - 1 : script[j] = "Shutdown"
    BY <1>4, <2>1 DEF Reset
  <2> QED
    BY <1>1, <2>1, <2>2 DEF Disciplined
<1>5. ASSUME ~ Quiescent, at = "dying" PROVE FALSE
  BY <1>1, <1>5, DisciplineHolds DEF AtEnd
<1>6. ASSUME DestroyTasks, tasks_in_progress_ # << >> PROVE FALSE
  BY <1>5, <1>6, HandleMeansThread DEF DestroyTasks
<1>7. ASSUME NEW t \in Task, UseDestroyed(t) PROVE FALSE
  <2>1. ~ Quiescent /\ (~ ledger_ \/ at = "dying")
    BY <1>7 DEF UseDestroyed, Quiescent, Live
  <2>2. ~ ledger_ /\ at # "gone"
    BY <1>5, <2>1 DEF NothingOutlivesService
  <2> QED
    BY <1>1, <2>1, <2>2, DisciplineHolds DEF Reset
<1> QED
  BY <1>3, <1>4, <1>6, <1>7

\* The invariant holds from the start and through every step.
THEOREM LifecycleInvariant == LifecycleSafe => []LifecycleInv
<1>1. LifecycleInit => LifecycleInv
  <2> SUFFICES ASSUME LifecycleInit PROVE LifecycleInv
    OBVIOUS
  <2> USE DEF LifecycleInit
  <2>1. LifecycleTypeOK
    <3>1. Len(script) \in Nat
      BY ProgramsAssumption
    <3>2. {ledger_, created_wallet, thrown} \subseteq BOOLEAN
      OBVIOUS
    <3> QED
      BY <3>1, <3>2 DEF LifecycleTypeOK
  <2>2. AtCall /\ AtEnd /\ Reset /\ NothingOutlivesService /\ SafePrograms
    BY DEF Init, AtCall, AtEnd, Reset, NothingOutlivesService, SafePrograms, Died
  <2>3. Owed
    BY DEF Init, Owed, Quiescent, Live
  <2> QED
    BY <2>1, <2>2, <2>3 DEF LifecycleInv
<1>2. LifecycleInv /\ TypeOK /\ HandleOwnership /\ [LifecycleNext]_allVars
        => LifecycleInv'
  BY NextAtCall, NextReset, NextOwed, NextNothingOutlives, NextSafePrograms
     DEF LifecycleInv
<1> QED
  BY <1>1, <1>2, Threads, PTL DEF LifecycleSafe

\* Main is always at a call of its program and the service in one of the four
\* stages of its life.
THEOREM LifecycleTyping == LifecycleSafe => []LifecycleTypeOK
BY LifecycleInvariant, PTL DEF LifecycleInv

\* Joining between the last library call and Shutdown or the destructor is
\* enough for any program with any tasks: only an exception kills it.
THEOREM DisciplineIsEnough == LifecycleSafe => []SafePrograms
BY LifecycleInvariant, PTL DEF LifecycleInv

\* The destructor returns only when no thread is left, or not at all.
THEOREM NothingOutlives == LifecycleSafe => []NothingOutlivesService
BY LifecycleInvariant, PTL DEF LifecycleInv

\* TestingJoinAllRunningTasks waits for all threads, in any program.
THEOREM LifecycleJoinIsComplete == LifecycleSafe => JoinWaitsForAll
BY LifecycleIsTaskRunner, JoinIsComplete, PTL
=============================================================================

------------------------------ MODULE Lifecycle ------------------------------
(***************************************************************************)
(* The life of the process: main creates a BraveRewardsServiceImpl, makes  *)
(* a sequence of calls on it and lets its destructor run, while the        *)
(* threads of TaskRunner use the service and the library.  Nothing in the  *)
(* service waits for those threads except TestingJoinAllRunningTasks, and  *)
(* none of the bound "this" pointers keeps the service alive.              *)
(*                                                                         *)
(* A program is the sequence of calls main makes.  "Forward" is Init, a    *)
(* setter, a getter or any other member that only calls ledger_->X();      *)
(* AllowTimersRun changes nothing modelled here.  driver.cpp is            *)
(* << "Forward", "Join", "CreateWallet", "Join" >>.                        *)
(*                                                                         *)
(* The library is external: called by main it runs for a while, may start  *)
(* tasks and may throw (URLFetcher's constructor does, and std::thread's). *)
(* Using a destroyed object is undefined; here the process dies of it or   *)
(* the thread gets away with it.                                           *)
(***************************************************************************)
EXTENDS TaskRunner

CONSTANT Programs

LibraryCalls == {"Forward", "CreateWallet"}
Calls == LibraryCalls \cup {"Join", "Shutdown"}

ASSUME ProgramsAssumption == Programs \subseteq Seq(Calls)

VARIABLES
  script,          \* the program main runs
  next,            \* its next call
  at,              \* "ready", in the "library", service "dying" or "gone"
  ledger_,         \* the pointer is not null
  created_wallet,
  process,         \* "running", "exited", "terminated" or "corrupt"
  thrown           \* has an exception been thrown

lifeVars == <<script, next, at, ledger_, created_wallet, process, thrown>>
allVars == <<vars, lifeVars>>

LifecycleInit ==
  /\ Init
  /\ script \in Programs
  /\ next = 1
  /\ at = "ready"
  /\ ledger_ = TRUE
  /\ created_wallet = FALSE
  /\ process = "running"
  /\ thrown = FALSE

Running == process = "running"
Calling(call) ==
  /\ Running /\ at = "ready" /\ main = "out"
  /\ next <= Len(script) /\ script[next] = call

\* Mutated form of Return: the next call is skipped.
ReturnTwice == at' = "ready" /\ next' = next + 2
Return == at' = "ready" /\ next' = next + 1
Die(how) == process' = how
-----------------------------------------------------------------------------
\* ledger_->X(): main enters the library, or follows the null pointer.
EnterLibrary ==
  /\ \/ ledger_ /\ at' = "library" /\ UNCHANGED process
     \/ ~ ledger_ /\ Die("corrupt") /\ UNCHANGED at
  /\ UNCHANGED <<vars, script, next, ledger_, created_wallet, thrown>>

Forward == Calling("Forward") /\ EnterLibrary

\* CreateWallet returns at once when the static flag is set; the flag is set
\* when ledger_->CreateWallet() has returned, whatever became of the wallet.
CreateWallet == Calling("CreateWallet") /\ ~ created_wallet /\ EnterLibrary
CreateWalletAgain ==
  /\ Calling("CreateWallet") /\ created_wallet
  /\ Return
  /\ UNCHANGED <<vars, script, ledger_, created_wallet, process, thrown>>

LibraryReturn ==
  /\ Running /\ at = "library"
  /\ Return
  /\ created_wallet' = (created_wallet \/ script[next] = "CreateWallet")
  /\ UNCHANGED <<vars, script, ledger_, process, thrown>>

\* An exception leaves the library on main: the try block of driver.cpp is
\* unwound, which destroys the service.
LibraryThrows ==
  /\ Running /\ at = "library"
  /\ thrown' = TRUE
  /\ at' = "dying"
  /\ UNCHANGED <<vars, script, next, ledger_, created_wallet, process>>

\* fetchers_.clear() without vec_mx_ and ledger_.reset().
Shutdown ==
  /\ Calling("Shutdown")
  /\ ledger_' = FALSE
  /\ Return
  /\ UNCHANGED <<vars, script, created_wallet, process, thrown>>

\* Mutated form of Join: main does not wait.
JoinNothing ==
  /\ Calling("Join") /\ Return
  /\ UNCHANGED <<vars, script, ledger_, created_wallet, process, thrown>>

Join == Calling("Join") /\ JoinCall /\ UNCHANGED lifeVars
JoinStep == Running /\ (JoinPop \/ JoinThread) /\ UNCHANGED lifeVars
JoinEnd ==
  /\ Running /\ JoinReturn
  /\ Return
  /\ UNCHANGED <<script, ledger_, created_wallet, process, thrown>>
-----------------------------------------------------------------------------
\* The scope of "service" ends: the destructor cancels the timers, then the
\* members are destroyed in reverse order.
Destroy ==
  /\ Running /\ at = "ready" /\ main = "out" /\ next = Len(script) + 1
  /\ at' = "dying"
  /\ UNCHANGED <<vars, script, next, ledger_, created_wallet, process, thrown>>

\* Mutated form of DestroyTasks: threads are detached.
DestroyTasksDetached ==
  /\ Running /\ at = "dying"
  /\ at' = "gone" /\ ledger_' = FALSE
  /\ UNCHANGED <<vars, script, next, created_wallet, process, thrown>>

\* ~vector<thread>: std::terminate if it holds a thread, ended or not.
\* The members declared before it, ledger_ among them, follow.
DestroyTasks ==
  /\ Running /\ at = "dying"
  /\ \/ /\ tasks_in_progress_ # << >>
        /\ Die("terminated") /\ UNCHANGED <<at, ledger_>>
     \/ /\ tasks_in_progress_ = << >>
        /\ at' = "gone" /\ ledger_' = FALSE /\ UNCHANGED process
  /\ UNCHANGED <<vars, script, next, created_wallet, thrown>>

\* The catch clauses print; curl_global_cleanup; main returns.
Exit ==
  /\ Running /\ at = "gone"
  /\ Die("exited")
  /\ UNCHANGED <<vars, script, next, at, ledger_, created_wallet, thrown>>
-----------------------------------------------------------------------------
\* Main starts tasks only from library code.
StartTask(t) ==
  /\ Running
  /\ at = "library" \/ \E c \in Task : thread[c] = "running"
  /\ RunTask(t)
  /\ UNCHANGED lifeVars

EndTask(t) == Running /\ TaskEnd(t) /\ UNCHANGED lifeVars

\* Nothing on a task's thread catches an exception.
TaskThrows(t) ==
  /\ Running /\ thread[t] = "running"
  /\ thrown' = TRUE
  /\ Die("terminated")
  /\ UNCHANGED <<vars, script, next, at, ledger_, created_wallet>>

\* A task, bound to a raw "this" and a raw handler, uses what is destroyed.
UseDestroyed(t) ==
  /\ Running /\ thread[t] = "running"
  /\ ~ ledger_ \/ at = "dying"
  /\ Die("corrupt")
  /\ UNCHANGED <<vars, script, next, at, ledger_, created_wallet, thrown>>

MainStep ==
  \/ Forward \/ CreateWallet \/ CreateWalletAgain \/ LibraryReturn
  \/ Shutdown \/ Join \/ JoinStep \/ JoinEnd
  \/ Destroy \/ DestroyTasks \/ Exit

LifecycleNext ==
  \/ MainStep \/ LibraryThrows
  \/ \E t \in Task :
       StartTask(t) \/ EndTask(t) \/ TaskThrows(t) \/ UseDestroyed(t)

\* Main keeps going, library code returns and every task ends.
LifecycleFairness ==
  WF_allVars(MainStep) /\ \A t \in Task : WF_allVars(EndTask(t))

LifecycleSafe == LifecycleInit /\ [][LifecycleNext]_allVars
LifecycleSpec == LifecycleSafe /\ LifecycleFairness
-----------------------------------------------------------------------------
LifecycleTypeOK ==
  /\ script \in Programs
  /\ next \in 1 .. Len(script) + 1
  /\ at \in {"ready", "library", "dying", "gone"}
  /\ ledger_ \in BOOLEAN /\ created_wallet \in BOOLEAN
  /\ process \in {"running", "exited", "terminated", "corrupt"}
  /\ thrown \in BOOLEAN

Died == process \in {"terminated", "corrupt"}

\* Between every library call and the next Shutdown, and the end, there is a
\* join; no library call follows a Shutdown.
Disciplined(p) ==
  \A i \in 1 .. Len(p) : p[i] \in LibraryCalls =>
    /\ \A j \in i .. Len(p) + 1 :
         (j = Len(p) + 1 \/ p[j] = "Shutdown") =>
           \E k \in i .. j - 1 : p[k] = "Join"
    /\ \A j \in 1 .. i : p[j] # "Shutdown"

\* The service has no protection against its own threads: Shutdown destroys
\* the library under them and the destructor terminates the process over them.
\* Joining before both is enough: a program that does, as driver.cpp does, dies
\* only of an exception.
SafePrograms == Died /\ Disciplined(script) => thrown

\* Once the destructor has returned no thread is left that could use the
\* service or, in curl_global_cleanup and at the return of main, what main
\* takes down (~BraveRewardsServiceImpl, main).
NothingOutlivesService == at = "gone" => Quiescent

\* A program that joins as it should gets through all its joins and exits,
\* if nothing throws.
DisciplinedProgramsExit ==
  Disciplined(script) ~> (process = "exited" \/ thrown)

\* PostWriteCallback, comment "`callback` has a WeakPtr so this won't crash if
\* the file finishes writing after BraveRewardsServiceImpl has been destroyed":
\* a reply started before the service is destroyed does not bring the process
\* down.
WriteCallbackIsSafe == Died => thrown
=============================================================================

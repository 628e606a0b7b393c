# A TLA+ model of the bat-native-ledger isolation driver

The repository runs the bat-native-ledger library outside the browser: a test
driver (`driver/driver.cpp`) creates a `BraveRewardsServiceImpl`, which is the
library's client. It gives the library threads, timers, URL fetches, state files
and a SQLite database. This directory models that client. The library itself is
not in the repository; where a module needs it, it is an arbitrary caller that
obeys the interface and is named external.

## Inventory

| Component | State | Operations | Interacts with | Model |
|---|---|---|---|---|
| Driver `main` | none | `AllowTimersRun`, `Init`, `CreateWallet`, join, twice over | service | actions of the main thread in `TaskRunner`, `ServiceTimers`, `Lifecycle` |
| Task runner | `tasks_in_progress_`, `vec_mx_` | `RunTask`, `RunIOTask`, `TestingJoinAllRunningTasks` | everybody starts threads through it | `TaskRunner` |
| Timers | `timers_`, `io_`, `timer_id_`, `max_number_timers_`, `timer_mx_` | `SetTimer`, `AllowTimersRun`, the handler of an expired timer | task runner, library | `ServiceTimers`, abstractly `OneShotTimers` |
| URL loading | `fetchers_`, static `next_id`; per fetcher `response_code_` and buffers | `LoadURL`, `Start`, `OnURLFetchComplete` | curl, task runner, library | `UrlFetch`, abstractly `Callbacks` |
| Publisher database | SQLite file, `db_`, `initialized_` | `Init`, inserts, `Find` and the getters | every `Save...`/`Load...` of the service | `PublisherInfoDatabase`, abstractly `DurableSaves` |
| Paged lists | none (a page is a call) | `GetContentSiteList`, `LoadCurrentPublisherInfoList`, `OnPublisherInfoListLoaded` | database | `PublisherPaging` |
| State files | three files | load, save, `PostWriteCallback` | task runner, library | `StateFiles`, abstractly `Callbacks` |
| Donations and tips | two tables | `OnDonate`, `SaveContributionInfo`, `OnRemoveRecurring`, list updates | database, task runner, observers | `Donations` |
| Observers and triggers | `observers_` | `AddObserver`, `RemoveObserver`, `TriggerOn...` and the other loops | embedder's thread and every task's thread | `Observers`, in `Donations` |
| Lifecycle | `ledger_`, `created_wallet`, everything above | constructor, `Init`, `CreateWallet`, `Shutdown`, destructor, the try block of `main` | everything above | `Lifecycle` |
| Wallet facade | none | forwarders to `ledger_` | library | one call is `Lifecycle`'s `Forward` |
| `PublisherInfoBackend` | a leveldb | `Put`, `Get`, `Search`, `Load` | nothing: no object of it is made | not modelled |

Who calls whom: the driver calls the service from the main thread. The library
calls the service back from whatever thread it happens to run on: the main
thread, or any thread of the task runner. The service answers by starting a new
thread (`RunTask`) that calls the library. So nearly every member function may
run on several threads at once, and only `vec_mx_` and `timer_mx_` protect
anything.

### What is hard here, and the property that makes each part correct

* Task runner: the vector of handles grows while the join drains it, and the
  lock is dropped between taking a handle and joining it. Correct means each
  started thread has exactly one owner until it is joined, and the join returns
  only when all threads have ended.
* Timers: several threads share one `io_service`, each calls `io_.run()` and
  then `io_.reset()`. A reset can hide a stop from another runner; an armed
  timer needs somebody inside `run()`. A reference into `timers_` is used after
  the unlock. Correct means: never more timers than allowed, every granted timer
  fires, every wait thread ends, the reference is valid.
* URL loading: a table keyed by the address of a heap object that is deleted on
  completion, an id read without the lock that orders it, and a result field
  that is only written on success. Correct means each filed request gets exactly
  its own answer and that answer tells failure from success.
* Database: a transaction around the schema and none around operations of
  several statements; SQLite may fail at any statement; the process may die.
  Correct means Init is all or nothing, what was acknowledged is on disk, a key
  has one row, and files from a later version are refused.
* Paging: `next_record` and SQL's `OFFSET` must agree at a page's boundary
  while rows are being added.
* Lifecycle: tasks hold raw pointers to the service, and neither `Shutdown` nor
  the destructor waits for them. Correct means that a program which joins first
  dies of nothing but an exception, and leaves no thread behind.
* Observers: loops over an unlocked list that changes under them. Correct means
  that whoever stays registered is told once.
* Donations: several threads per call, lists that overtake one another, results
  that do not say what happened.
* State files: rewritten in place, read while they are written; replies come
  from threads that may overtake each other.

`PROJECT.json` lists the hazards one by one, each at its line.

## Modules

`TaskRunner` - one variable per member (`tasks_in_progress_`), the life of each
thread (`thread`), the main thread's place (`main`) and the local of the join
(`joining`). `RunTask` is one step because the lock covers `emplace_back`;
`JoinPop` is one step because the lock covers the test, the move and the pop;
`JoinThread` is the blocking `join()` outside the lock.

`Lifecycle` - extends `TaskRunner`: main runs a program, a sequence of calls on
the service, of which `driver.cpp`'s is one, and then its destructor. `ledger_`
and `created_wallet` are the members of that name, `at` the main thread's place
(in the library, in the destructor, beyond it), `process` how the process ended.
`Shutdown`, `Destroy` and `DestroyTasks` are the code's two ways of taking the
service away from its threads; `LibraryThrows` and `TaskThrows` are exceptions
on main and on a task's thread. A use of what is destroyed may kill the process
or go unnoticed.

`ServiceTimers` - `T == INSTANCE TaskRunner` with structured task names: threads
in library code, wait threads (`io_.run(); io_.reset()`), and threads that call
`OnTimer`. The body of `SetTimer` is cut at its unlocks: `SetTimerGranted` (under
`timer_mx_`), `AsyncWait`, `RunWaitTask`. `io_service` is external and reduced to
its contract: `run()` returns at once without work and stops the service; the
thread that finishes the last handler stops it; a thread leaves `run()` when it
finds it stopped; `reset()` clears the flag. `capacity` and `ref` record whether
a reallocation of `timers_` came between taking a reference and using it.
`TasksAreRun == T!Spec` states that the composed system still implements
`TaskRunner`'s specification, its fairness (every started thread ends) included.

`OneShotTimers` - what `SetTimer` promises the library: numbers of timers that are
granted within the budget, armed, expired and given to `OnTimer`, each once and in
this order, on whatever thread. `ServiceTimers` implements it (`OneShot`): `fired`
are the timers whose handler a wait thread has, `called` those whose `OnTimer`
task has been started.

`UrlFetch` - `LoadURL` cut into `Create`, `Bind` (reads `next_id` unlocked) and
`Register` (under `vec_mx_`), `Perform` for curl, `LookUp` (under the lock) and
`ReadAndDelete`. Addresses are a small set, so they are reused. `overlapped` is a
history variable: have two threads ever been inside `LoadURL` together.

`Callbacks` - what the service promises the library of a call that takes a
handler: it is made, its result is made, and the result is given to the handler
once, the results in any order; a process that dies answers no more. `UrlFetch`
implements it until calls of `LoadURL` overlap, with the ids under which the
library files its requests for calls; `StateFiles` implements it unconditionally.

`PublisherInfoDatabase` - `disk` is what is committed and `work` what the
connection sees; `Init` is one action per statement of its transaction, each
later operation one action per SQL statement. `InitFails`, `StatementFails` and
`Crash` may strike between any two. Rows are reduced to keys, and
`activity_info`, which has no unique key, to the number of rows per key. A media
key that is looked up and not found is a crash, as in the code.

`DurableSaves` - what a database promises: a set of saved items that only grows
and a set of acknowledged ones within it. `PublisherInfoDatabase` implements it
twice (`Saves`, `MediaSaves`), with `SavedKeys` and `SavedMedia`, defined from the
committed image as the getters' joins would see it, for `saved`.

`PublisherPaging` - the rows in order of insertion, a reader that goes from page
to page by `next_record`, and a writer that appends rows meanwhile.

`StateFiles` - one of the three state files, written and read in pieces by the
calling thread, and the answers that new threads deliver. A piece carries the
number of the save that wrote it. Streams may fail at any operation and never
throw, so a failed save is answered as a success, as in the code.

`Donations` - calls that store, remove and list recurring donations and tips, each
a chain of tasks that carries its call's number. `succeded` is the constant that
three database functions return; `RemoveRecurring` and `GetTips` never get past
SQLite's parser. An amount is the number of the call that stored it. A list ends
in a loop of `Observers`, one action per step of the range-for: begin, callback,
`++`, end.

`Observers` - `observers_` and any number of loops over it. Adding and removing are
single steps (each is one store to the pointer a loop reads); an observer removed
under a loop's iterator leaves the iterator on freed memory, and reading it sets
`undefined`, after which nothing is modelled. `due`, `told` and `twice` are history.

`TaskRunner_proofs`, `Lifecycle_proofs`, `ServiceTimers_proofs`, `UrlFetch_proofs`,
`PublisherInfoDatabase_proofs`, `PublisherPaging_proofs`, `StateFiles_proofs` and
`Donations_proofs` (which also covers `Observers`) - the theorems about these
modules.

The three files of `StateFiles` share their code and nothing else, so one is
modelled; the calls that load and save them differ only in the error code of an
answer.

## Runs

| Run | Shows | Bounds and why they suffice |
|---|---|---|
| `lifecycle` | ownership of handles, completeness of the join, and that joining first is enough for a clean end | every program of up to four calls and `driver.cpp`'s followed by `Shutdown`; 3 tasks: one being joined, one still listed, one started during the drain; exceptions anywhere |
| `lifecycle_write_callback` | violation: a reply outlives the service | one library call that starts one reply |
| `timers_limit_1` | no dangling reference, no reset under a runner, every timer fires, refinements of `TaskRunner` and of `OneShotTimers` (which has the budget) | limit 1 as in the driver, two rounds, so the second timer reuses the reset `io_`; two library tasks compete for `SetTimer` |
| `timers_limit_2_hang` | violation: the join may never return | limit 2, the smallest above the driver's |
| `url_fetch` | ownership, registration, ids and answers, refinement of `Callbacks` | two threads, two addresses, three requests: an address is reused while the other thread is between any two steps |
| `url_fetch_failure` | violation: a failed fetch reported as HTTP 200 | as above |
| `database` | schema atomic, durability of acknowledged saves, bounded duplicates, references of activity rows, refinement of `DurableSaves` | two threads, two publishers, a media key, a period and no period, new, current and later files; crashes unlimited |
| `database_ambiguous` | violation: a load answers `TOO_MANY_RESULTS` | as above |
| `database_too_new` | violation: a later file is accepted | as above |
| `state_files` | a load never mixes two states unless calls overlap; every call is answered, once (refinement of `Callbacks`) | two threads, three calls, states of one or two pieces: a shorter state follows a longer one and is read; crashes unlimited |
| `donations` | each loop tells the observers that stay once; what they are shown is or was stored; every removal is answered and followed by a list | three calls, two lists on their way at once, two observers: an amount replaced and two lists that overtake one another, each loop with an observer added, removed ahead, behind and under it |
| `paging` | no row twice, bounded misses, the reading ends | 8 rows, page sizes 1 to 3: more than two page boundaries each |

Deadlock checking is off where the model stops by design: all requests made
(`UrlFetch`), the reading over (`PublisherPaging`), the process ended
(`Lifecycle`), freed memory read (`Donations`), and with a limit of two timers,
where the system may hang (`timers_limit_2_hang`).

### What the violations say

1. `timers_limit_2_hang`: with a limit of two, one wait thread can reset `io_`
   between the stop and the moment another wait thread looks, and that one stays
   in `run()` for ever; so does the join. The driver uses one timer per round,
   for which `timers_limit_1` shows the opposite. With two, a timer may also be
   left armed with nobody inside `run()`: then the join returns without its
   callback (`JoinLeavesNoTimer` does not hold either). What does hold with two
   is `TimersAreOneShot` (`TimersImplementOneShot`, for all limits): a timer may
   never come, but none comes twice or under another's number. With two, a setter can also be left with a reference into
   a `timers_` that has moved (`NoDanglingTimer` does not hold), which is
   undefined behaviour; the model goes on as if it did no harm.
2. `url_fetch_failure`: `response_code_` has no initialiser.
3. `database_ambiguous`: select and insert are separate statements, threads are
   not sequenced.
4. `database_too_new`: `MetaTableInit` overwrites the version that
   `EnsureCurrentVersion` then reads.
5. `lifecycle_write_callback`: the comment on `PostWriteCallback` speaks of a
   `WeakPtr`; the code binds a raw `this`, and a reply that is still listed
   when the service goes makes `~vector<thread>` terminate the process.

Observed while modelling and not made a run: foreign keys of `media_publisher_info`,
`contribution_info` and `recurring_donation` are declared and not enforced; with
overlapping `LoadURL` calls two requests can get each other's ids; the README says
the limit of timers is 1 by default while the constructor sets 0 (no limit) and
the driver passes 1 explicitly; several database functions return false although
they succeed, so the observers of a donation are never told; `next_record` is
`start + limit + 1` while `OFFSET` counts from 0, so paging skips the row behind
each full page (`MissesAreBounded` says no more than that); two observers can be left with different lists of
donations, since loops overtake one another; an embedder that keeps removing and
adding observers ahead of a loop keeps the loop going; `PublisherInfoBackend::Search`
compares the value with the prefix where its index would have the key.

## Fairness

Threads are scheduled: every step a thread takes on its own has weak fairness
(`TaskEnd`, the steps of the join, `SetTimerStep`, `WaitStep`, `FetchStep`, `FileStep`, `Deliver`, `Step`, `MainStep`, `EndTask`).
Mutexes are held for single steps only, so weak fairness is enough. Timers
expire and curl returns, which the operating system provides. Nobody is obliged
to start a task, set a timer, make a request or call the join. A thread in
library code may loop through refused `SetTimer` calls but ends eventually:
`TaskEnd` stays enabled. In `Lifecycle` the library's calls on
main return and every task ends, which is the external library's part; main has
no other thread to wait for outside the join. In `Donations` the observers'
callbacks return. The database has no fairness and no liveness property.

## Proofs

Every invariant and every action property that a passing run checks is also a
theorem, for every value of the constants that the module's assumptions allow,
except as said at the end of this section. Each inductive invariant was checked
as an invariant of TLC on the run's bounds before it was proved.

`TaskRunner_proofs` proves, for every set of tasks:

* `Typing`: `SafeSpec => []TypeOK`. Inductive as it stands.
* `Ownership`: `SafeSpec => []HandleOwnership`. `HandleOwnership` is inductive
  together with `TypeOK`: a thread is live exactly if it has a handle, no handle
  is both listed and held, no handle is listed twice. Each of the three parts
  needs the others: the pop keeps "listed once" true only if it was, and
  `RunTask` can append a thread without making it listed twice only because a
  thread not started is not listed. One lemma per interesting action;
  `PopBack` says what `SubSeq` leaves of the vector.
* `JoinIsComplete`: `SafeSpec => JoinWaitsForAll`. The join returns only on an
  empty vector with nothing held, and then, by ownership, no thread is live.

The only assumption on the constants is `NoTask \notin Task`. They use
`SafeSpec`, without fairness.

`Lifecycle_proofs` proves, for every set of programs made of the service's calls
and every set of tasks, `LifecycleTyping`, `DisciplineIsEnough` (`SafePrograms`),
`NothingOutlives` and `LifecycleJoinIsComplete`. It starts from a refinement,
`LifecycleIsTaskRunner`: each step of a process is a step of the task runner or
leaves its variables alone, so `HandleOwnership` and `JoinWaitsForAll` hold of every
process. `LifecycleInv` then adds:

* `AtCall`, `AtEnd`: where the main thread is in the join, or in nothing at all,
  given its place in the program; past the destructor all threads are over.
* `Reset`: a null `ledger_` has a `Shutdown` behind it in the program. Without it
  a program could seem to die of a call on a null `ledger_` that discipline forbids.
* `Owed`: a thread is listed only on account of a library call that the program
  has made and not joined since (`Unjoined`). It is what ties threads to the
  text of the program: a disciplined one has no such call left at `Shutdown`
  or at the destructor. That a join leaves nothing owed is ownership again.

`ServiceTimers_proofs` proves in three parts. For all limits, `AnyLimit`
(`TypeOK`, `Placed`, `InHand`, `Started`, `TimerBudget`) gives `TimerTyping`,
`Budget` and `TimersRefineTaskRunner`, the safety part of the refinement
`TasksAreRun`: `Placed` says at which steps a caller of each kind can be and that a
caller past its first step is a running thread, `InHand` that a timer in a
caller's hand was granted, `Started` that nothing runs before `AllowTimersRun`,
without which the budget would be set under timers already granted. For `Limits = {1}`, what the driver asks for,
`OneLimit` gives `NoDangling`, `NoReset` and `JoinLeavesNone`: of the threads in
`SetTimer` and the wait threads at most one is busy, and none while another timer
may be granted (`OneBusy`); an armed timer is the last one granted and has a
thread that waits or will wait for it (`Armed`); a stopped `io_` has nothing armed
and its one wait thread on the way out (`StoppedIdle`). The
limit is a hypothesis of these three and has to be: the run
`timers_limit_2_hang` refutes what they say for a limit of two. The third part is
for all limits again: `TimersImplementOneShot`, the refinement of `OneShotTimers`.
Its invariant is `Stages`: a timer that a thread has been granted and has not armed,
or whose handler a thread has, is in no other thread's hand, is not armed and has
no `OnTimer` task; neither has an armed one or one not granted yet. Without it a
timer could be armed again after its handler ran, since `async_wait` comes after
the unlock. Four steps move one timer on (`GrantedMoves`, `ArmMoves`,
`ExpireMoves`, `CallMoves`), and all others are `Quiet`.

`UrlFetch_proofs` proves, for every set of threads and (non-empty) set of
addresses, `FetchersAreOwned`, `EntriesBelong`, `CompletionFindsCallback`,
`LoadersDistinct` and `AnswersMatch` (`AnswersMatchRequests`), from one inductive invariant `TableInv`:

* `FetcherOwnership` is inductive with the types: `Create` takes an address that
  is not allocated, hence not owned.
* `EntriesSound` needs ownership (an entry is made and erased at an address its
  thread alone owns) and `CallbackBound`, which says that a registered fetcher's
  entry is the id bound for it and not the 0 of an empty entry; `next_id` starts
  at 1, so 0 is never bound.
* `IdsSound` adds to distinctness that a loader's id is below `next_id`.
* `IdsAgree` is the reason why answers match until calls overlap: the thread
  alone in `LoadURL` finds `next_id` unchanged between `Bind` and `Register`.

`Typing` needs one more, `IdsLeft`: a thread inside `LoadURL` holds back an id, so
`next_id` and these threads together stay within `MaxRequests + 1`. This also
shows that finitely many are inside, with no assumption on the threads.
`NoRequestLost` (`RequestsPending`) is the safety part of `RequestsAnswered`: each
request not yet answered is still with a thread whose steps lead to the answer.

`RequestsImplementCallbacks` (`AnsweredOnce`) proves the step mapping to `Callbacks`:
filing is `Make`, `ReadAndDelete` is `Complete`, `Deliver` is `Answer`, and no other
step is seen. `FiledInv` is what it needs until calls overlap: an answer on its way
is that of a filed request, and the only one; a request being fetched has none
yet; a loader that has not been filed has an id that no request in the table
has, which in turn needs every filed id to be below `next_id`. That the answer
closes the request it was fetched for, and no other, is `IdsAgree`: `ready` names
the request fetched, while the library closes the one the answer names.

`PublisherInfoDatabase_proofs` proves, for every set of threads, publishers,
periods and media keys and with SQLite errors and crashes anywhere,
`TypesAreCorrect`, `SchemaIsAtomic`, `InitializedIsCommitted`,
`AckedSavesAreDurable`, `ActivityRowsHavePublishers` and the refinement
`SavesImplementDurableSaves`. From
`DatabaseAssumption` only (`NoPeriod` is no period, `NoPublisher` no publisher,
versions are numbers) and `Call`'s rule that one caller at a time runs `Init`
until it has committed. The inductive invariant `DatabaseInv` has these parts:

* `Types`, and `OpsFit`: a save past its first statement has a key of the
  activity table.
* `Phases`: until `Init` has committed at most one caller is active, and it is
  in `Init`; afterwards nobody is. `Transaction` counts the tables created so
  far, so that the commit finds them all, and says that outside a transaction
  the connection sees exactly what is committed. Without it a retried `Init`
  could commit what an earlier one left in `work`.
* `RowsSound`: `Init`'s transaction writes no rows, and a save's position says
  what it has put on disk already: its publisher from the first statement on,
  its activity row before the update. `AckedIsDurable` and
  `ActivityHasPublisher` follow statement by statement.
* `MediaSound`: the same of the media keys, which one statement saves.

`SavesImplementDurableSaves` maps `saved` to `SavedKeys` and `SavedMedia`. With the
invariant at hand each step is mapped: the publisher's statement and the row's
statement store one key (a row is saved only with its publisher, hence
`ActivityHasPublisher`), a media statement stores and acknowledges, an update
acknowledges a key that `SavesProgress` says is there, and every other step,
`Init`'s commit included, leaves the rows alone (`OtherStepsKeepRows`).

`WriteFits` is the lemma the last parts rest on: every statement that writes
runs after `Init` and outside a transaction, hence commits at once.

`RowsAreBounded` proves `ActivityRowsBounded` for every finite set of threads.
The bound is not inductive; `RowsLeft` is: the rows of a key and the threads
between its select and its insert are together no more than the threads. A
select that finds a row keeps its thread out of that count, and a row is
never removed, so nobody joins it after the first insert. Its corollary
`OneThreadIsUnambiguous` is the other side of `database_ambiguous`: with one thread
`LoadIsUnambiguous` holds, through errors, crashes and repeated saves.

`PublisherPaging_proofs` proves `Typing`, `GivenOnce` (`RowOnce`) and `FewMissed`
(`MissesAreBounded`) for any page sizes, 0 (no `LIMIT`) included. `PagesInv` says
that with a `LIMIT` all rows given lie before the current `OFFSET`, hence before
the page, and that after k full pages k * limit rows have been given and `start` is
k * (limit + 1) past where it began. `MissesInv` is the property itself: what
is missing before a row given is at most what lies before it less what was given. The lemmas `FullPages`
(division) and `Misses` (cardinalities) are about numbers and sets only. `FewMissed`
has `limit > 0` as a hypothesis, since the bound divides by the limit.

`StateFiles_proofs` proves `Typing`, `OneState` (`LoadsOneState`) and `NoAnswerLost`
for any number of callers, calls and pieces. `OneStateInv` holds until two calls
overlap: at most one caller is at the file, it writes or reads on from where it
is, and the file, what a caller has read and what the replies carry are each a
beginning of one saved state (`Good`). `PutProperty` says what writing a piece at the stream's
position leaves of the sequence. `AnswersInv`, a waiting call is at the file or has
its reply on the way and never both, gives `CallsPending`, the safety part of
`CallsAnswered`, and the step mapping of `CallsImplementCallbacks` (`AnsweredOnce`):
a load or save that begins is `Make`, `Post` is `Complete`, `Deliver` is `Answer`, a
crash is `Die`, and what happens at the file in between is not seen.

`Donations_proofs` proves `Typing`, `StoredShown` (`ShownWasStored`), `EveryoneTold`
(`ToldOnce`) and `NoRemoveLost` for any publishers, observers and numbers of calls.
`LoopsInv` is the part about `Observers`: no observer is registered twice, and each
loop has a `Cursor` that splits the list into those told and those still to be
told; whoever was registered all along is on one side. An addition goes behind
every cursor; a removal (lemma `RemoveAtProperty`) moves up what stands behind it,
the cursor included where a loop has passed it, and removing the observer a loop
stands at leaves nothing to model (`undefined`). `DonationsInv` is about the tables and the tasks: a call has
one task at a time, a list on its way was stored when it was read, and it stays
"was stored" since an amount is the number of the call that saved it, numbers
only grow and publishers are never deleted. `RemovesPending`, the safety part of
`RemovesAnswered`, says that a removal not yet shown has a task that leads there.

What stays with TLC:

* Liveness, and anything with `ENABLED`: `JoinReturns`, `TimerFires`, the fairness
  half of `TasksAreRun`, `RequestsAnswered`, `CallsAnswered`, `RemovesAnswered`,
  `PagingEnds`, `DisciplinedProgramsExit`. Four of them have their safety part
  proved (`NoRequestLost`, `NoAnswerLost`, `NoRemoveLost`, `TimersRefineTaskRunner`).
* The violations: each is one behaviour, which TLC exhibits.

## Assumptions and what is left out

* The library never calls `PublisherInfoDatabase::Init` from two threads at once
  before it has committed (`Call`); two at once is a data race on `db_`.
* `io_service`, curl, SQLite, the heap and the library are external and kept to
  the contract the code relies on.
* Counters (`timer_id_`, `next_id`) stay far below their width; bounds are named
  in the modules. `AllowTimersRun`'s 32-bit sum can only wrap after 2^32 timers.
* The embedder changes the observers from one thread, and does not register one
  twice.
* `PublisherInfoBackend` is compiled and never instantiated, so no state of it is
  one the program can be in. `URL` parsing and the record types have no state.
  By lines the repository is mostly the vendored SQLite shell and headers and the
  configuration of third-party libraries, which the models leave alone or treat
  as external; of the driver's own code about two fifths are mapped, and the rest
  is forwarding, parsing and records.
* Foreign builds: `BAT_CLIENT_SINGLE_THREAD` is not modelled.
* Request headers, bodies, URL parsing, image and text formatting are data no
  property reads.

## Plan

1. Done: task runner, lifecycle, timers, URL loading, database, paging, state
   files, donations with observers; the theorems above and the refinement of
   `DurableSaves`.
2. Done: every safety property of the passing runs as a theorem, and the
   refinements `LifecycleIsTaskRunner` and `TimersRefineTaskRunner`.
3. Done: `Callbacks`, implemented by `UrlFetch` and `StateFiles`, and
   `OneShotTimers`, implemented by `ServiceTimers` for any limits, with their step
   mappings proved.
4. Left: a sharper `RowsAreBounded`, for threads that come and go; the arguments
   of the ledger facade that a property could read.

------------------------------ MODULE Donations ------------------------------
(***************************************************************************)
(* Recurring donations and tips: what is stored, what the library is       *)
(* answered and what the observers are shown.                              *)
(*                                                                         *)
(* Every operation is one SQL statement (see PublisherInfoDatabase) on the *)
(* calling thread and then RunTask; the task may make the next operation   *)
(* and start the next task.  A statement and the RunTask that follows are  *)
(* one step here: RunTask only adds to the set of tasks that may run next, *)
(* in any order.  A call and the tasks that follow from it carry its       *)
(* number, and the amount of a recurring donation is known by the number   *)
(* of the call that stored it.  Any statement may fail.                    *)
(*                                                                         *)
(* The lists end in loops over the observers, which are those of           *)
(* Observers, instantiated as O: a loop is known by its call.              *)
(***************************************************************************)
EXTENDS Naturals, FiniteSets, Sequences

CONSTANTS
  Publisher,
  Observer,
  MaxCalls,    \* bound: calls of the embedder and the library
  MaxLists,    \* bound: lists on their way at once
  MaxAdds      \* bound: calls of AddObserver

ASSUME DonationsAssumption == MaxCalls \in Nat /\ MaxAdds \in Nat

VARIABLES
  known,           \* publishers with a row in publisher_info
  amount,          \* recurring_donation: amount[p], 0 if p has no row
  calls,           \* calls made so far
  tasks,           \* threads about to do the next step of a call
  removing,        \* OnRemoveRecurring calls whose callback has not run
  owed,            \* ... and whose list has not reached the observers
  shown,           \* shown[o]: the list last given to o's
                   \* OnRecurringDonationUpdated
  observers_, adds, loop, undefined   \* see Observers

tableVars == <<known, amount>>
observerVars == <<observers_, adds, loop, undefined>>
vars == <<tableVars, calls, tasks, removing, owed, shown, observerVars>>

O == INSTANCE Observers WITH
       Observer <- Observer, Trigger <- 1 .. MaxCalls, MaxAdds <- MaxAdds,
       observers_ <- observers_, adds <- adds, loop <- loop,
       undefined <- undefined

List == [Publisher -> 0 .. MaxCalls]
Empty == [p \in Publisher |-> 0]

Init ==
  /\ known = {} /\ amount = Empty
  /\ calls = 0 /\ tasks = {} /\ removing = {} /\ owed = {}
  /\ shown = [o \in Observer |-> Empty]
  /\ O!Init

Task(n, kind, list) == [call |-> n, kind |-> kind, list |-> list]

\* Mutated form of Then: the former task stays.
ThenKeep(t, kind, list) ==
  tasks' = tasks \cup {Task(t.call, kind, list)}

\* The next step of task t is another task.
Then(t, kind, list) ==
  tasks' = (tasks \ {t}) \cup {Task(t.call, kind, list)}

NewCall(kind) ==
  /\ calls < MaxCalls
  /\ calls' = calls + 1
  /\ tasks' = tasks \cup {Task(calls', kind, Empty)}

NewList(kind) ==
  /\ Cardinality({t \in tasks : t.kind \notin {"donation_saved", "contribution_saved"}})
       < MaxLists
  /\ NewCall(kind)

\* InsertContributionInfo, InsertOrUpdateRecurringDonation and RemoveRecurring
\* never set "succeded": they return false whatever SQLite did.
succeded == FALSE
-----------------------------------------------------------------------------
\* Another thread's SavePublisherInfo.
SavePublisherInfo(p) ==
  /\ known' = known \cup {p}
  /\ UNCHANGED <<amount, calls, tasks, removing, owed, shown, observerVars>>

\* OnDonate(p, amount, true): INSERT OR REPLACE INTO recurring_donation.
SaveRecurringDonation(p) ==
  /\ NewCall("donation_saved")
  /\ amount' \in {amount, [amount EXCEPT ![p] = calls']}
  /\ UNCHANGED <<known, removing, owed, shown, observerVars>>

OnRecurringDonationSaved(t) ==
  /\ t.kind = "donation_saved"
  /\ IF succeded THEN Then(t, "update", Empty) ELSE tasks' = tasks \ {t}
  /\ UNCHANGED <<tableVars, calls, removing, owed, shown, observerVars>>

\* The library reports a contribution; the row it adds is read only by GetTips,
\* which cannot read (below).
SaveContributionInfo ==
  /\ NewCall("contribution_saved")
  /\ UNCHANGED <<tableVars, removing, owed, shown, observerVars>>

OnContributionInfoSaved(t) ==
  /\ t.kind = "contribution_saved"
  /\ IF succeded THEN Then(t, "update_tips", Empty) ELSE tasks' = tasks \ {t}
  /\ UNCHANGED <<tableVars, calls, removing, owed, shown, observerVars>>

\* RemoveRecurring's DELETE has no operand: it cannot be prepared and throws.
OnRemoveRecurring ==
  /\ NewList("removed")
  /\ removing' = removing \cup {calls'}
  /\ owed' = owed \cup {calls'}
  /\ UNCHANGED <<tableVars, shown, observerVars>>

\* Mutated form of OnRemovedRecurring: the list is updated only on success.
OnRemovedIfSucceded(t) ==
  /\ t.kind = "removed"
  /\ removing' = removing \ {t.call}
  /\ IF succeded THEN Then(t, "update", Empty) ELSE tasks' = tasks \ {t}
  /\ UNCHANGED <<tableVars, calls, owed, shown, observerVars>>

\* The library's callback, then UpdateRecurringDonationsList.
OnRemovedRecurring(t) ==
  /\ t.kind = "removed"
  /\ removing' = removing \ {t.call}
  /\ Then(t, "update", Empty)
  /\ UNCHANGED <<tableVars, calls, owed, shown, observerVars>>
-----------------------------------------------------------------------------
(***************************************************************************)
(* The lists.  The embedder may ask for them too.                          *)
(***************************************************************************)
Ask ==
  /\ NewList("update") \/ NewList("update_tips")
  /\ UNCHANGED <<tableVars, removing, owed, shown, observerVars>>

\* Mutated form of Donations: the publisher need not be known (LEFT JOIN).
DonationsOfAnyone == amount

\* recurring_donation INNER JOIN publisher_info.
Donations == [p \in Publisher |-> IF p \in known THEN amount[p] ELSE 0]

\* Whatever goes wrong in the query, the list is empty and handed on.
GetRecurringDonations(t) ==
  /\ t.kind = "update"
  /\ \E list \in {Donations, Empty} : Then(t, "show", list)
  /\ UNCHANGED <<tableVars, calls, removing, owed, shown, observerVars>>

\* OnRecurringDonationsData calls OnRecurringDonationUpdated: the loop.
OnRecurringDonationUpdated(t) ==
  /\ t.kind = "show"
  /\ \/ /\ O!Begin(t.call) \/ O!Advance(t.call) \/ O!ReadFreed(t.call)
        /\ UNCHANGED <<tasks, shown, owed>>
     \/ /\ \E o \in Observer :
             O!Tell(t.call, o) /\ shown' = [shown EXCEPT ![o] = t.list]
        /\ UNCHANGED <<tasks, owed>>
     \/ /\ O!End(t.call)
        /\ owed' = owed \ {t.call}
        /\ tasks' = tasks \ {t}
        /\ UNCHANGED shown
  /\ UNCHANGED <<tableVars, calls, removing>>

\* GetTips puts a number and OR together ("8OR"), which SQLite cannot parse:
\* the query throws and the list is empty.
TipsUpdated(t) ==
  /\ t.kind = "update_tips"
  /\ Then(t, "show_tips", Empty)
  /\ UNCHANGED <<tableVars, calls, removing, owed, shown, observerVars>>

\* OnCurrentTips is given the empty list.
OnTipsUpdatedData(t) ==
  /\ t.kind = "show_tips"
  /\ \/ /\ \/ O!Begin(t.call) \/ O!Advance(t.call) \/ O!ReadFreed(t.call)
           \/ \E o \in Observer : O!Tell(t.call, o)
        /\ UNCHANGED tasks
     \/ O!End(t.call) /\ tasks' = tasks \ {t}
  /\ UNCHANGED <<tableVars, calls, removing, owed, shown>>

\* The embedder's thread.
ChangeObservers ==
  /\ \E o \in Observer : O!AddObserver(o) \/ O!RemoveObserver(o)
  /\ UNCHANGED <<tableVars, calls, tasks, removing, owed, shown>>

Step(t) ==
  \/ OnRecurringDonationSaved(t) \/ OnContributionInfoSaved(t)
  \/ OnRemovedRecurring(t)
  \/ GetRecurringDonations(t) \/ OnRecurringDonationUpdated(t)
  \/ TipsUpdated(t) \/ OnTipsUpdatedData(t)

Next ==
  \/ ~ undefined /\ \/ \E p \in Publisher :
                            SavePublisherInfo(p) \/ SaveRecurringDonation(p)
                     \/ SaveContributionInfo \/ OnRemoveRecurring \/ Ask
                     \/ \E t \in tasks : Step(t)
  \/ ChangeObservers

\* Threads are scheduled, and the observers' callbacks return.
Fairness ==
  \A n \in 1 .. MaxCalls : WF_vars(~ undefined /\ \E t \in tasks : t.call = n /\ Step(t))

Spec == Init /\ [][Next]_vars /\ Fairness
-----------------------------------------------------------------------------
TypeOK ==
  /\ known \subseteq Publisher
  /\ amount \in List /\ shown \in [Observer -> List]
  /\ calls \in 0 .. MaxCalls
  /\ removing \subseteq owed /\ owed \subseteq 1 .. calls
  /\ \A t \in tasks : t.call \in 1 .. calls /\ t.list \in List
  /\ \A s, t \in tasks : s.call = t.call => s = t
  /\ O!TypeOK

\* Lists overtake one another on their way to OnRecurringDonationUpdated, and
\* two observers may be left with different ones.  What an observer sees may be
\* out of date, but it is never made up: each donation shown has its publisher,
\* and its amount is stored or was stored.
ShownWasStored ==
  \A o \in Observer, p \in Publisher :
    shown[o][p] # 0 => p \in known /\ shown[o][p] <= amount[p]

\* The loops over observers_: whoever is registered throughout is told once.
ToldOnce == O!ToldOnce

\* OnRemoveRecurring: the library's callback runs, and afterwards a list that
\* was read after the removal has gone to all observers (ToldOnce), whether or
\* not anything was removed (OnRemovedRecurring, UpdateRecurringDonationsList);
\* only an observer removed while it is being told can prevent it.
RemovesAnswered ==
  \A n \in 1 .. MaxCalls :
    n \in owed ~> undefined \/ (n \notin owed /\ n \notin removing)
=============================================================================

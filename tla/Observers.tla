------------------------------ MODULE Observers ------------------------------
(***************************************************************************)
(* observers_, a std::list, and the loops over it.  Each trigger of the    *)
(* service is "for (auto& observer : observers_) observer->On...", run by  *)
(* whichever thread triggers it, while the embedder's thread adds and      *)
(* removes observers.  Nothing is locked, so loops overlap one another     *)
(* and the list changes under them.                                        *)
(*                                                                         *)
(* Linking or unlinking a node is one store to the pointer a loop's ++     *)
(* reads, hence one step.  A node that is removed is freed: a loop that    *)
(* stands on it has undefined behaviour as soon as it reads the node       *)
(* again, and nothing is modelled after that.  The embedder uses one       *)
(* thread and does not add an observer that is in the list.                *)
(***************************************************************************)
EXTENDS Naturals, Sequences, SequencesExt

CONSTANTS
  Observer,
  Trigger,     \* threads that may run a loop
  MaxAdds      \* bound: calls of AddObserver

VARIABLES
  observers_,
  adds,        \* calls of AddObserver so far
  loop,        \* loop[t]: the iterator of t's loop, and its history
  undefined    \* a freed node was read

vars == <<observers_, adds, loop, undefined>>

Registered == ToSet(observers_)

\* A loop: "out", "at" a node it has not read, "in" the callback of its
\* observer, the same two with the node "freed", or at the "end" of the list.
\* Its history: the observers registered all the time since it began, which of
\* them it told, and which more than once.
Places == {"out", "at", "in", "freed", "end"}
Loop == [place : Places, at : SUBSET Observer,
         due : SUBSET Observer, told : SUBSET Observer, twice : SUBSET Observer]
Out == [place |-> "out", at |-> {}, due |-> {}, told |-> {}, twice |-> {}]

Init ==
  /\ observers_ = << >> /\ adds = 0
  /\ loop = [t \in Trigger |-> Out]
  /\ undefined = FALSE

\* An iterator at node i of the list; behind the last one it is end().
At(l, i) ==
  IF i > Len(observers_) THEN [l EXCEPT !.place = "end", !.at = {}]
  ELSE [l EXCEPT !.place = "at", !.at = {observers_[i]}]

Position(o) == CHOOSE i \in 1 .. Len(observers_) : observers_[i] = o
-----------------------------------------------------------------------------
AddObserver(o) ==
  /\ ~ undefined /\ adds < MaxAdds
  /\ o \notin Registered
  /\ observers_' = Append(observers_, o)
  /\ adds' = adds + 1
  /\ UNCHANGED <<loop, undefined>>

\* Mutated form of RemoveObserver: as if observers_ were a vector, whose
\* elements behind the erased one move under the iterators.
RemoveObserverByIndex(o) ==
  /\ ~ undefined /\ o \in Registered
  /\ observers_' = RemoveAt(observers_, Position(o))
  /\ loop' = [t \in Trigger |->
       LET l == [loop[t] EXCEPT !.due = @ \ {o}, !.told = @ \ {o}, !.twice = @ \ {o}]
       IN  IF \E x \in l.at : Position(x) >= Position(o)
           THEN LET x == CHOOSE x \in l.at : TRUE
                    i == Position(x) + 1
                IN  IF i > Len(observers_) THEN [l EXCEPT !.place = "end", !.at = {}]
                    ELSE [l EXCEPT !.at = {observers_[i]}]
           ELSE l]
  /\ UNCHANGED <<adds, undefined>>

\* observers_.remove(observer); the list holds an observer once.
RemoveObserver(o) ==
  /\ ~ undefined /\ o \in Registered
  /\ observers_' = RemoveAt(observers_, Position(o))
  /\ loop' = [t \in Trigger |->
       LET l == [loop[t] EXCEPT !.due = @ \ {o}, !.told = @ \ {o}, !.twice = @ \ {o}]
       IN  IF o \in l.at THEN [l EXCEPT !.place = "freed", !.at = {}] ELSE l]
  /\ UNCHANGED <<adds, undefined>>

Begin(t) ==
  /\ ~ undefined /\ loop[t].place = "out"
  /\ loop' = [loop EXCEPT ![t] = At([Out EXCEPT !.due = Registered], 1)]
  /\ UNCHANGED <<observers_, adds, undefined>>

\* The callback is entered.  What it does to the list it does before Advance.
Tell(t, o) ==
  /\ ~ undefined /\ loop[t].place = "at" /\ o \in loop[t].at
  /\ loop' = [loop EXCEPT ![t].place = "in",
                          ![t].told = @ \cup ({o} \cap loop[t].due),
                          ![t].twice = @ \cup ({o} \cap loop[t].told)]
  /\ UNCHANGED <<observers_, adds, undefined>>

Advance(t) ==
  /\ ~ undefined /\ loop[t].place = "in"
  /\ \E o \in loop[t].at :
       loop' = [loop EXCEPT ![t] = At(@, Position(o) + 1)]
  /\ UNCHANGED <<observers_, adds, undefined>>

ReadFreed(t) ==
  /\ ~ undefined /\ loop[t].place = "freed"
  /\ undefined' = TRUE
  /\ UNCHANGED <<observers_, adds, loop>>

End(t) ==
  /\ ~ undefined /\ loop[t].place = "end"
  /\ loop' = [loop EXCEPT ![t] = Out]
  /\ UNCHANGED <<observers_, adds, undefined>>
-----------------------------------------------------------------------------
TypeOK ==
  /\ IsInjective(observers_) /\ Registered \subseteq Observer
  /\ adds \in 0 .. MaxAdds
  /\ loop \in [Trigger -> Loop]
  /\ undefined \in BOOLEAN
  /\ \A t \in Trigger : /\ loop[t].at \cup loop[t].due \subseteq Registered
                        /\ loop[t].twice \subseteq loop[t].told
                        /\ loop[t].told \subseteq loop[t].due

\* A loop that reaches the end has told each observer that was registered all
\* the while, and told it once, whatever was added and removed around it and
\* however many other loops ran.
ToldOnce ==
  \A t \in Trigger :
    loop[t].place = "end" => loop[t].told = loop[t].due /\ loop[t].twice = {}
=============================================================================

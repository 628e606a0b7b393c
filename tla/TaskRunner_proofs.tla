-------------------------- MODULE TaskRunner_proofs --------------------------
(***************************************************************************)
(* The safety properties of TaskRunner, for any set of tasks.  HandleOwner-*)
(* ship is inductive relative to TypeOK; JoinWaitsForAll follows, since an *)
(* empty vector and no handle in hand leave no thread that is live.        *)
(***************************************************************************)
EXTENDS TaskRunner, SequenceTheorems, TLAPS

IInv == TypeOK /\ HandleOwnership

\* Every action preserves the types.
LEMMA NextTyping == TypeOK /\ [Next]_vars => TypeOK'
<1> SUFFICES ASSUME TypeOK, [Next]_vars PROVE TypeOK'
  OBVIOUS
<1> USE DEF TypeOK
<1>1. ASSUME NEW t \in Task, RunTask(t) PROVE TypeOK'
  BY <1>1 DEF RunTask
<1>2. ASSUME NEW t \in Task, TaskEnd(t) PROVE TypeOK'
  BY <1>2 DEF TaskEnd
<1>3. CASE JoinCall
  BY <1>3 DEF JoinCall
<1>4. CASE JoinPop
  BY <1>4 DEF JoinPop
<1>5. CASE JoinThread
  BY <1>5 DEF JoinThread
<1>6. CASE JoinReturn
  BY <1>6 DEF JoinReturn
<1>7. CASE UNCHANGED vars
  BY <1>7 DEF vars
<1> QED
  BY <1>1, <1>2, <1>3, <1>4, <1>5, <1>6, <1>7 DEF Next

\* The types hold initially and every action preserves them.
THEOREM Typing == SafeSpec => []TypeOK
<1>1. Init => TypeOK
  BY DEF Init, TypeOK
<1> QED
  BY <1>1, NextTyping, PTL DEF SafeSpec

\* Initially there is no thread and no handle.
LEMMA InitOwnership == Init => IInv
<1> SUFFICES ASSUME Init PROVE IInv
  OBVIOUS
<1> QED
  BY DEF Init, IInv, TypeOK, HandleOwnership, Live, Listed, Held

\* RunTask puts the handle of the thread it starts into the vector.
LEMMA RunTaskOwnership ==
  ASSUME IInv, NEW t \in Task, RunTask(t) PROVE HandleOwnership'
<1> USE DEF IInv, TypeOK
<1> DEFINE v == tasks_in_progress_
<1>1. /\ v' = Append(v, t) /\ Len(v') = Len(v) + 1 /\ v'[Len(v) + 1] = t
      /\ \A i \in 1 .. Len(v) : v'[i] = v[i]
  BY DEF RunTask
<1>2. ~ Live(t) /\ Live(t)'
  BY DEF RunTask, Live
<1>3. \A u \in Task : u # t => (Live(u)' <=> Live(u))
  BY DEF RunTask, Live
<1>4. \A u \in Task : Held(u)' <=> Held(u)
  BY DEF RunTask, Held
<1>5. \A u \in Task : Listed(u)' <=> Listed(u) \/ u = t
  BY <1>1 DEF Listed
<1>6. ~ Listed(t) /\ ~ Held(t)
  BY <1>2 DEF HandleOwnership
<1>7. \A i, j \in 1 .. Len(v') : v'[i] = v'[j] => i = j
  BY <1>1, <1>6 DEF HandleOwnership, Listed
<1> QED
  BY <1>2, <1>3, <1>4, <1>5, <1>6, <1>7 DEF HandleOwnership

\* What remains after pop_back.
LEMMA PopBack ==
  ASSUME NEW S, NEW s \in Seq(S), Len(s) > 0
  PROVE  /\ Len(SubSeq(s, 1, Len(s) - 1)) = Len(s) - 1
         /\ \A i \in 1 .. Len(s) - 1 : SubSeq(s, 1, Len(s) - 1)[i] = s[i]
<1> DEFINE k == Len(s) - 1
<1>1. k \in Nat /\ 1 \in Int /\ \A i \in 1 .. k : s[i] \in S
  OBVIOUS
<1> HIDE DEF k
<1>2. /\ Len(SubSeq(s, 1, k)) = IF 1 <= k THEN k - 1 + 1 ELSE 0
      /\ \A i \in 1 .. k - 1 + 1 : SubSeq(s, 1, k)[i] = s[1 + i - 1]
  BY <1>1, SubSeqProperties
<1>3. Len(SubSeq(s, 1, k)) = k /\ \A i \in 1 .. k : SubSeq(s, 1, k)[i] = s[i]
  BY <1>1, <1>2
<1> QED
  BY <1>3 DEF k

\* JoinPop moves one handle from the vector to the local variable.
LEMMA JoinPopOwnership ==
  ASSUME IInv, JoinPop PROVE HandleOwnership'
<1> USE DEF IInv, TypeOK
<1> DEFINE v == tasks_in_progress_
           n == Len(v)
<1>1. n \in Nat /\ n > 0 /\ v[n] \in Task /\ joining' = v[n] /\ main' = "join"
  BY DEF JoinPop
<1>2. v' = SubSeq(v, 1, n - 1)
  BY DEF JoinPop
<1>3. Len(v') = n - 1 /\ \A i \in 1 .. n - 1 : v'[i] = v[i]
  BY <1>1, <1>2, PopBack
<1>4. \A u \in Task : Live(u)' <=> Live(u)
  BY DEF JoinPop, Live
<1>5. \A u \in Task : ~ Held(u) /\ (Held(u)' <=> u = v[n])
  BY <1>1 DEF JoinPop, Held
<1>6. \A u \in Task : Listed(u)' <=> Listed(u) /\ u # v[n]
  BY <1>1, <1>3 DEF Listed, HandleOwnership
<1>7. \A i, j \in 1 .. Len(v') : v'[i] = v'[j] => i = j
  BY <1>1, <1>3 DEF HandleOwnership
<1>8. Listed(v[n])
  BY <1>1 DEF Listed
<1> QED
  BY <1>1, <1>4, <1>5, <1>6, <1>7, <1>8 DEF HandleOwnership

\* Every step preserves the ownership of handles.
LEMMA NextOwnership == IInv /\ [Next]_vars => HandleOwnership'
<1> SUFFICES ASSUME IInv, [Next]_vars PROVE HandleOwnership'
  OBVIOUS
<1> USE DEF IInv, TypeOK
<1>1. ASSUME NEW t \in Task, RunTask(t) PROVE HandleOwnership'
  BY <1>1, RunTaskOwnership
<1>2. ASSUME NEW t \in Task, TaskEnd(t) PROVE HandleOwnership'
  BY <1>2 DEF TaskEnd, HandleOwnership, Live, Listed, Held
<1>3. CASE JoinCall
  BY <1>3 DEF JoinCall, HandleOwnership, Live, Listed, Held
<1>4. CASE JoinPop
  BY <1>4, JoinPopOwnership
<1>5. CASE JoinThread
  BY <1>5 DEF JoinThread, HandleOwnership, Live, Listed, Held
<1>6. CASE JoinReturn
  BY <1>6 DEF JoinReturn, HandleOwnership, Live, Listed, Held
<1>7. CASE UNCHANGED vars
  BY <1>7 DEF vars, HandleOwnership, Live, Listed, Held
<1> QED
  BY <1>1, <1>2, <1>3, <1>4, <1>5, <1>6, <1>7 DEF Next

\* RunTask and TestingJoinAllRunningTasks never lose or duplicate the handle
\* of a thread that has not been joined.
THEOREM Ownership == SafeSpec => []HandleOwnership
<1>1. Init => HandleOwnership
  BY InitOwnership DEF IInv
<1>2. TypeOK /\ HandleOwnership /\ [Next]_vars => HandleOwnership'
  BY NextOwnership DEF IInv
<1> QED
  BY <1>1, <1>2, Typing, PTL DEF SafeSpec

\* TestingJoinAllRunningTasks returns only when no thread is running.
THEOREM JoinIsComplete == SafeSpec => JoinWaitsForAll
<1>1. HandleOwnership /\ [Next]_vars
        => [main = "loop" /\ main' = "out" => Quiescent]_vars
  <2> SUFFICES ASSUME HandleOwnership, Next, main = "loop", main' = "out"
               PROVE  Quiescent
    OBVIOUS
  <2>1. JoinReturn
    BY DEF Next, RunTask, TaskEnd, JoinCall, JoinPop, JoinThread
  <2>2. \A t \in Task : ~ Listed(t) /\ ~ Held(t)
    BY <2>1 DEF JoinReturn, Listed, Held
  <2> QED
    BY <2>2 DEF HandleOwnership, Quiescent
<1> QED
  BY <1>1, Ownership, PTL DEF SafeSpec, JoinWaitsForAll
=============================================================================

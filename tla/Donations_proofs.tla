--------------------------- MODULE Donations_proofs ---------------------------
(***************************************************************************)
(* The safety properties of Donations and of the loops over observers_ it  *)
(* takes from Observers, for any publishers, observers and calls.          *)
(*                                                                         *)
(* The loops: a loop's cursor splits the list, whatever is added to it or  *)
(* removed from it, into a part whose observers have been told and a part  *)
(* whose observers have not.  The donations: what is on its way to the     *)
(* observers was stored, amounts only grow (they are numbers of calls) and *)
(* publishers stay, so it remains something that was stored.               *)
(***************************************************************************)
EXTENDS Donations, SequencesExt, SequenceTheorems, TLAPS

Trigger == 1 .. MaxCalls

\* Where the loop of call n is.  Before it has told observer p it has told
\* those in front of p, and then p too.
Cursor(n, p) ==
  /\ loop[n].at = {observers_[p]}
  /\ \A i \in 1 .. Len(observers_) :
       observers_[i] \in loop[n].due =>
         (observers_[i] \in loop[n].told
            <=> i < p \/ (i = p /\ loop[n].place = "in"))

LoopOK(n) ==
  /\ loop[n].due \subseteq O!Registered
  /\ loop[n].told \subseteq loop[n].due
  /\ loop[n].twice = {}
  /\ IF loop[n].place \in {"at", "in"}
     THEN \E p \in 1 .. Len(observers_) : Cursor(n, p)
     ELSE loop[n].at = {}
  /\ loop[n].place = "end" => loop[n].told = loop[n].due

ListOK ==
  /\ observers_ \in Seq(Observer)
  /\ \A i, j \in 1 .. Len(observers_) : observers_[i] = observers_[j] => i = j
  /\ adds \in 0 .. MaxAdds
  /\ undefined \in BOOLEAN
  /\ loop \in [Trigger -> O!Loop]

LoopsInv == ListOK /\ \A n \in Trigger : LoopOK(n)

\* A list on its way, or shown, holds nothing that was not stored.
WasStored(list) ==
  \A p \in Publisher : list[p] # 0 => p \in known /\ list[p] <= amount[p]

TablesInv ==
  /\ known \subseteq Publisher
  /\ calls \in 0 .. MaxCalls
  /\ amount \in [Publisher -> 0 .. calls]

TasksInv ==
  /\ \A t \in tasks : t.call \in 1 .. calls /\ t.list \in List /\ WasStored(t.list)
  /\ \A s, t \in tasks : s.call = t.call => s = t
  /\ \A t \in tasks : t.call \in removing => t.kind = "removed"

OwedInv == removing \subseteq owed /\ owed \subseteq 1 .. calls

ShownInv ==
  /\ shown \in [Observer -> List]
  /\ \A o \in Observer : WasStored(shown[o])

DonationsInv == TablesInv /\ TasksInv /\ OwedInv /\ ShownInv

IInv == DonationsInv /\ LoopsInv
-----------------------------------------------------------------------------
\* The list without its k-th element.
LEMMA RemoveAtProperty ==
  ASSUME NEW S, NEW s \in Seq(S), NEW k \in 1 .. Len(s)
  PROVE  /\ RemoveAt(s, k) \in Seq(S)
         /\ Len(RemoveAt(s, k)) = Len(s) - 1
         /\ \A i \in 1 .. Len(s) - 1 :
              RemoveAt(s, k)[i] = IF i < k THEN s[i] ELSE s[i + 1]
<1> DEFINE m == k - 1
           l == k + 1
           n == Len(s)
<1>1. /\ n \in Nat /\ m \in Nat /\ l \in Nat /\ 1 \in Int
      /\ m = k - 1 /\ l = k + 1 /\ k \in Nat /\ 1 <= k /\ k <= n
      /\ \A i \in 1 .. n : s[i] \in S
  OBVIOUS
<1> HIDE DEF m, l, n
<1>2. /\ SubSeq(s, 1, m) \in Seq(S)
      /\ Len(SubSeq(s, 1, m)) = IF 1 <= m THEN m - 1 + 1 ELSE 0
      /\ \A i \in 1 .. m - 1 + 1 : SubSeq(s, 1, m)[i] = s[1 + i - 1]
  BY <1>1, SubSeqProperties
<1>3. /\ SubSeq(s, l, n) \in Seq(S)
      /\ Len(SubSeq(s, l, n)) = IF l <= n THEN n - l + 1 ELSE 0
      /\ \A i \in 1 .. n - l + 1 : SubSeq(s, l, n)[i] = s[l + i - 1]
  BY <1>1, SubSeqProperties
<1> DEFINE a == SubSeq(s, 1, m)
           b == SubSeq(s, l, n)
<1>4. a \in Seq(S) /\ Len(a) = m /\ \A i \in 1 .. m : a[i] = s[i]
  BY <1>1, <1>2
<1>5. b \in Seq(S) /\ Len(b) = n - k /\ \A i \in 1 .. n - k : b[i] = s[k + i]
  BY <1>1, <1>3
<1>6. RemoveAt(s, k) = a \o b
  BY DEF RemoveAt, m, l, n
<1> HIDE DEF a, b
<1> DEFINE c == a \o b
<1>7. /\ c \in Seq(S) /\ Len(c) = Len(a) + Len(b)
      /\ \A i \in 1 .. Len(a) + Len(b) :
           c[i] = IF i <= Len(a) THEN a[i] ELSE b[i - Len(a)]
  BY <1>4, <1>5, ConcatProperties
<1> HIDE DEF c
<1>8. ASSUME NEW i \in 1 .. n - 1, i < k PROVE c[i] = s[i]
  BY <1>1, <1>4, <1>5, <1>7, <1>8
<1>9. ASSUME NEW i \in 1 .. n - 1, ~ (i < k) PROVE c[i] = s[i + 1]
  <2>1. c[i] = b[i - m] /\ i - m \in 1 .. n - k /\ k + (i - m) = i + 1
    BY <1>1, <1>4, <1>5, <1>7, <1>9
  <2> QED
    BY <1>5, <2>1
<1>10. RemoveAt(s, k) = c /\ Len(s) = n /\ Len(c) = n - 1
  BY <1>1, <1>4, <1>5, <1>6, <1>7 DEF c, n
<1> QED
  BY <1>7, <1>8, <1>9, <1>10

\* An observer of the list is found at its place.
LEMMA PositionIsPlace ==
  ASSUME ListOK, NEW p \in 1 .. Len(observers_)
  PROVE  O!Position(observers_[p]) = p
<1>1. \E i \in 1 .. Len(observers_) : observers_[i] = observers_[p]
  OBVIOUS
<1> QED
  BY <1>1 DEF O!Position, ListOK

LEMMA RegisteredPlace ==
  ASSUME ListOK, NEW o \in O!Registered
  PROVE  O!Position(o) \in 1 .. Len(observers_) /\ observers_[O!Position(o)] = o
<1>1. \E i \in 1 .. Len(observers_) : observers_[i] = o
  BY DEF O!Registered, ToSet, O!ToSet, ListOK
<1> QED
  BY <1>1 DEF O!Position

LEMMA RegisteredIs ==
  /\ ListOK => \A x : x \in O!Registered <=>
                      \E i \in 1 .. Len(observers_) : observers_[i] = x
  /\ ListOK' => \A x : x \in O!Registered' <=>
                       \E i \in 1 .. Len(observers_') : observers_'[i] = x
BY DEF O!Registered, O!ToSet, ListOK
-----------------------------------------------------------------------------
\* AddObserver puts the new node behind every cursor.
LEMMA AddObserverLoops ==
  ASSUME LoopsInv, NEW o \in Observer, O!AddObserver(o) PROVE LoopsInv'
<1> USE DEF LoopsInv
<1> DEFINE s == observers_
<1>1. /\ s \in Seq(Observer) /\ s' = Append(s, o)
      /\ Len(s') = Len(s) + 1 /\ s'[Len(s) + 1] = o
      /\ \A i \in 1 .. Len(s) : s'[i] = s[i]
      /\ UNCHANGED <<loop, undefined>>
  BY AppendProperties DEF O!AddObserver, ListOK
<1>2. \A i \in 1 .. Len(s) : s[i] # o
  BY RegisteredIs DEF O!AddObserver
<1>3. ListOK'
  <2>1. adds' \in 0 .. MaxAdds
    BY DonationsAssumption DEF O!AddObserver, ListOK
  <2> QED
    BY <1>1, <1>2, <2>1, AppendProperties DEF ListOK
<1>4. O!Registered' = O!Registered \cup {o}
  BY <1>1, <1>3, RegisteredIs
<1>5. o \notin O!Registered
  BY DEF O!AddObserver
<1>6. ASSUME NEW n \in Trigger PROVE LoopOK(n)'
  <2>1. ASSUME NEW p \in 1 .. Len(s), Cursor(n, p) PROVE Cursor(n, p)'
    <3>1. o \notin loop[n].due
      BY <1>5 DEF LoopOK
    <3> QED
      BY <1>1, <2>1, <3>1 DEF Cursor
  <2> QED
    BY <1>1, <1>4, <2>1 DEF LoopOK
<1> QED
  BY <1>3, <1>6

\* RemoveObserver frees the node under a cursor, and shifts no other cursor.
LEMMA RemoveObserverLoops ==
  ASSUME LoopsInv, NEW o \in Observer, O!RemoveObserver(o) PROVE LoopsInv'
<1> USE DEF LoopsInv
<1> DEFINE s == observers_
           k == O!Position(o)
<1>1. k \in 1 .. Len(s) /\ s[k] = o
  BY RegisteredPlace DEF O!RemoveObserver
<1>2. s' = RemoveAt(s, k) /\ UNCHANGED <<adds, undefined>>
  BY DEF O!RemoveObserver, O!RemoveAt, RemoveAt
<1> HIDE DEF k
<1>3. /\ s' \in Seq(Observer) /\ Len(s') = Len(s) - 1
      /\ \A i \in 1 .. Len(s) - 1 : s'[i] = IF i < k THEN s[i] ELSE s[i + 1]
  BY <1>1, <1>2, RemoveAtProperty DEF ListOK
<1>4. ListOK' /\ \A i \in 1 .. Len(s') : s'[i] # o
  <2>1. ASSUME NEW i \in 1 .. Len(s'), NEW j \in 1 .. Len(s'), s'[i] = s'[j]
        PROVE  i = j
    <3> DEFINE f == IF i < k THEN i ELSE i + 1
               g == IF j < k THEN j ELSE j + 1
    <3>1. /\ f \in 1 .. Len(s) /\ g \in 1 .. Len(s)
          /\ s'[i] = s[f] /\ s'[j] = s[g] /\ (f = g => i = j)
      BY <1>1, <1>3
    <3> HIDE DEF f, g
    <3> QED
      BY <2>1, <3>1 DEF ListOK
  <2>2. \A i \in 1 .. Len(s') : s'[i] # o
    BY <1>1, <1>3 DEF ListOK
  <2>3. loop' \in [Trigger -> O!Loop]
    <3> DEFINE R(n) ==
                 LET l == [loop[n] EXCEPT !.due = @ \ {o}, !.told = @ \ {o},
                                          !.twice = @ \ {o}]
                 IN  IF o \in l.at THEN [l EXCEPT !.place = "freed", !.at = {}]
                     ELSE l
    <3>1. ASSUME NEW n \in Trigger PROVE R(n) \in O!Loop
      <4>1. loop[n] \in O!Loop
        BY DEF ListOK
      <4> QED
        BY <4>1 DEF O!Loop, O!Places
    <3>2. loop' = [n \in Trigger |-> R(n)]
      BY DEF O!RemoveObserver, Trigger
    <3> HIDE DEF R
    <3> QED
      BY <3>1, <3>2
  <2> QED
    BY <1>2, <1>3, <2>1, <2>2, <2>3 DEF ListOK
<1>5. \A x : x \in O!Registered' <=> x \in O!Registered /\ x # o
  <2>1. ASSUME NEW i \in 1 .. Len(s), s[i] # o
        PROVE  \E j \in 1 .. Len(s') : s'[j] = s[i]
    <3>1. CASE i < k
      BY <1>1, <1>3, <3>1
    <3>2. CASE i > k
      <4>1. i - 1 \in 1 .. Len(s') /\ s'[i - 1] = s[i]
        BY <1>1, <1>3, <3>2
      <4> QED
        BY <4>1
    <3> QED
      BY <1>1, <2>1, <3>1, <3>2
  <2> QED
    BY <1>3, <1>4, <2>1, RegisteredIs
<1>6. ASSUME NEW n \in Trigger PROVE LoopOK(n)'
  <2> DEFINE l == loop[n]
  <2>1. l \in O!Loop /\ LoopOK(n)
    BY DEF ListOK
  <2>2. /\ loop'[n].due = l.due \ {o} /\ loop'[n].told = l.told \ {o}
        /\ loop'[n].twice = l.twice \ {o}
        /\ o \in l.at => loop'[n].place = "freed" /\ loop'[n].at = {}
        /\ o \notin l.at => loop'[n].place = l.place /\ loop'[n].at = l.at
    BY <2>1 DEF O!RemoveObserver, O!Loop, Trigger
  <2>3. ASSUME NEW p \in 1 .. Len(s), Cursor(n, p), o \notin l.at
        PROVE  \E q \in 1 .. Len(s') : Cursor(n, q)'
    <3> DEFINE q == IF p < k THEN p ELSE p - 1
    <3>1. p # k
      BY <1>1, <2>3 DEF Cursor
    <3>2. q \in 1 .. Len(s') /\ s'[q] = s[p]
      BY <1>1, <1>3, <3>1
    <3>3. ASSUME NEW i \in 1 .. Len(s'), s'[i] \in loop'[n].due
          PROVE  s'[i] \in loop'[n].told
                   <=> i < q \/ (i = q /\ loop'[n].place = "in")
      <4> DEFINE j == IF i < k THEN i ELSE i + 1
      <4>1. /\ j \in 1 .. Len(s) /\ s'[i] = s[j]
            /\ (i < q <=> j < p) /\ (i = q <=> j = p)
        BY <1>1, <1>3, <3>1
      <4> HIDE DEF j, q
      <4>2. s[j] \in l.told <=> j < p \/ (j = p /\ l.place = "in")
        BY <2>2, <2>3, <3>3, <4>1 DEF Cursor
      <4> QED
        BY <1>4, <2>2, <2>3, <4>1, <4>2
    <3> HIDE DEF q
    <3>4. loop'[n].at = {s'[q]}
      BY <2>2, <2>3, <3>2 DEF Cursor
    <3> QED
      BY <3>2, <3>3, <3>4 DEF Cursor
  <2>4. CASE o \in l.at
    BY <1>5, <2>1, <2>2, <2>4 DEF LoopOK
  <2>5. CASE o \notin l.at
    BY <1>5, <2>1, <2>2, <2>3, <2>5 DEF LoopOK
  <2> QED
    BY <2>4, <2>5
<1> QED
  BY <1>4, <1>6

\* An iterator put on node i, when the observers in front of it are those told.
LEMMA AtNode ==
  ASSUME ListOK, NEW n \in Trigger, NEW l \in O!Loop, NEW i \in Nat \ {0},
         i <= Len(observers_) + 1,
         l.due \subseteq O!Registered, l.told \subseteq l.due, l.twice = {},
         \A j \in 1 .. Len(observers_) :
           observers_[j] \in l.due => (observers_[j] \in l.told <=> j < i),
         loop' = [loop EXCEPT ![n] = O!At(l, i)],
         UNCHANGED <<observers_, adds, undefined>>
  PROVE  ListOK' /\ LoopOK(n)'
<1> DEFINE at == O!At(l, i)
<1>1. /\ at \in O!Loop
      /\ at.due = l.due /\ at.told = l.told /\ at.twice = l.twice
      /\ IF i > Len(observers_) THEN at.place = "end" /\ at.at = {}
         ELSE at.place = "at" /\ at.at = {observers_[i]}
  <2>1. i > Len(observers_) \/ observers_[i] \in Observer
    BY DEF ListOK
  <2> QED
    BY <2>1 DEF O!At, O!Loop, O!Places
<1> HIDE DEF at
<1>2. ListOK' /\ loop'[n] = at
  BY <1>1 DEF ListOK, at
<1>3. O!Registered' = O!Registered
  BY DEF O!Registered
<1>4. CASE i > Len(observers_)
  <2>1. \A x \in l.due : x \in l.told
    BY <1>4, RegisteredIs DEF ListOK
  <2>2. at.told = at.due
    <3>1. l.due \subseteq l.told /\ l.told \subseteq l.due
      BY <2>1
    <3>2. l.told = l.due
      BY <3>1
    <3> QED
      BY <1>1, <3>2
  <2>3. at.place = "end" /\ at.at = {}
    BY <1>1, <1>4
  <2>4. LoopOK(n)'
    BY <1>1, <1>2, <1>3, <2>2, <2>3 DEF LoopOK
  <2> QED
    BY <1>2, <2>4
<1>5. CASE i <= Len(observers_)
  <2>1. i \in 1 .. Len(observers_) /\ Cursor(n, i)'
    BY <1>1, <1>2, <1>5 DEF Cursor, ListOK
  <2> QED
    BY <1>1, <1>2, <1>3, <1>5, <2>1 DEF LoopOK, ListOK
<1> QED
  BY <1>4, <1>5 DEF ListOK

\* The loops that take no step stay what they are.
LEMMA OtherLoops ==
  ASSUME LoopsInv, NEW n \in Trigger, NEW l, loop' = [loop EXCEPT ![n] = l],
         UNCHANGED observers_, NEW m \in Trigger, m # n
  PROVE  LoopOK(m)'
<1>1. loop'[m] = loop[m] /\ observers_' = observers_
  BY DEF LoopsInv, ListOK
<1> QED
  BY <1>1 DEF LoopsInv, LoopOK, Cursor, O!Registered

\* A loop begins at the first node, with everyone to tell.
LEMMA BeginLoops ==
  ASSUME LoopsInv, NEW n \in Trigger, O!Begin(n) PROVE LoopsInv'
<1> DEFINE l == [O!Out EXCEPT !.due = O!Registered]
<1>1. /\ l \in O!Loop /\ l.due = O!Registered /\ l.told = {} /\ l.twice = {}
  <2>1. O!Registered \subseteq Observer
    BY RegisteredIs DEF LoopsInv, ListOK
  <2> QED
    BY <2>1 DEF O!Out, O!Loop, O!Places
<1>2. /\ loop' = [loop EXCEPT ![n] = O!At(l, 1)]
      /\ UNCHANGED <<observers_, adds, undefined>>
  BY DEF O!Begin
<1> HIDE DEF l
<1>3. ListOK' /\ LoopOK(n)'
  <2>1. ListOK /\ 1 <= Len(observers_) + 1
    BY DEF LoopsInv, ListOK
  <2>2. \A j \in 1 .. Len(observers_) : ~ (j < 1)
    OBVIOUS
  <2>3. /\ l.due \subseteq O!Registered /\ l.told \subseteq l.due
        /\ 1 \in Nat \ {0}
    BY <1>1
  <2>4. \A j \in 1 .. Len(observers_) :
          observers_[j] \in l.due => (observers_[j] \in l.told <=> j < 1)
    BY <1>1, <2>2
  <2> QED
    BY <1>1, <1>2, <2>1, <2>3, <2>4, AtNode
<1> QED
  BY <1>2, <1>3, OtherLoops DEF LoopsInv

\* The observer under the cursor is told, for the first time.
LEMMA TellLoops ==
  ASSUME LoopsInv, NEW n \in Trigger, NEW o \in Observer, O!Tell(n, o)
  PROVE  LoopsInv'
<1> DEFINE l == loop[n]
           r == [l EXCEPT !.place = "in", !.told = @ \cup ({o} \cap l.due),
                          !.twice = @ \cup ({o} \cap l.told)]
<1>1. l \in O!Loop /\ LoopOK(n) /\ ListOK
  BY DEF LoopsInv, ListOK
<1>2. PICK p \in 1 .. Len(observers_) : Cursor(n, p)
  BY <1>1 DEF LoopOK, O!Tell
<1>3. o = observers_[p] /\ l.place = "at"
  BY <1>2 DEF Cursor, O!Tell
<1>4. ~ (o \in l.told)
  BY <1>1, <1>2, <1>3 DEF Cursor, LoopOK
<1>5. loop' = [loop EXCEPT ![n] = r] /\ UNCHANGED <<observers_, adds, undefined>>
  BY <1>1 DEF O!Tell, ListOK
<1>6. /\ r \in O!Loop /\ r.place = "in" /\ r.at = l.at /\ r.due = l.due
      /\ r.told = l.told \cup ({o} \cap l.due) /\ r.twice = {}
  BY <1>1, <1>4 DEF O!Loop, O!Places, LoopOK
<1> HIDE DEF l, r
<1>7. ListOK' /\ loop'[n] = r
  BY <1>1, <1>5, <1>6 DEF ListOK
<1>8. Cursor(n, p)'
  <2>1. loop'[n].at = {observers_'[p]}
    BY <1>2, <1>5, <1>6, <1>7 DEF Cursor, l
  <2>2. ASSUME NEW i \in 1 .. Len(observers_), observers_[i] \in r.due
        PROVE  observers_[i] \in r.told <=> i < p \/ i = p
    <3>1. observers_[i] \in l.told <=> i < p
      BY <1>2, <1>3, <1>6, <2>2 DEF Cursor, l
    <3>2. observers_[i] = o <=> i = p
      BY <1>1, <1>3 DEF ListOK
    <3> QED
      BY <1>6, <2>2, <3>1, <3>2
  <2> QED
    BY <1>5, <1>6, <1>7, <2>1, <2>2 DEF Cursor
<1>9. LoopOK(n)'
  <2>1. O!Registered' = O!Registered
    BY <1>5 DEF O!Registered
  <2>2. r.due \subseteq O!Registered /\ r.told \subseteq r.due
    BY <1>1, <1>6 DEF LoopOK, l
  <2> QED
    BY <1>5, <1>6, <1>7, <1>8, <2>1, <2>2 DEF LoopOK
<1> QED
  BY <1>5, <1>7, <1>9, OtherLoops DEF LoopsInv

\* ++: everyone up to the cursor has been told.
LEMMA AdvanceLoops ==
  ASSUME LoopsInv, NEW n \in Trigger, O!Advance(n) PROVE LoopsInv'
<1> DEFINE l == loop[n]
<1>1. l \in O!Loop /\ LoopOK(n) /\ ListOK
  BY DEF LoopsInv, ListOK
<1>2. PICK p \in 1 .. Len(observers_) : Cursor(n, p)
  BY <1>1 DEF LoopOK, O!Advance
<1>3. O!Position(observers_[p]) = p
  BY <1>1, PositionIsPlace
<1>4. /\ loop' = [loop EXCEPT ![n] = O!At(l, p + 1)]
      /\ UNCHANGED <<observers_, adds, undefined>>
  BY <1>1, <1>2, <1>3 DEF O!Advance, Cursor, ListOK
<1>5. \A j \in 1 .. Len(observers_) :
        observers_[j] \in l.due => (observers_[j] \in l.told <=> j < p + 1)
  BY <1>1, <1>2 DEF O!Advance, Cursor, ListOK
<1>6. /\ l.due \subseteq O!Registered /\ l.told \subseteq l.due /\ l.twice = {}
      /\ p + 1 \in Nat \ {0} /\ p + 1 <= Len(observers_) + 1
  BY <1>1 DEF LoopOK, ListOK
<1> HIDE DEF l
<1>7. ListOK' /\ LoopOK(n)'
  BY <1>1, <1>4, <1>5, <1>6, AtNode
<1> QED
  BY <1>4, <1>7, OtherLoops DEF LoopsInv

LEMMA EndLoops ==
  ASSUME LoopsInv, NEW n \in Trigger, O!End(n) PROVE LoopsInv'
<1>1. /\ loop' = [loop EXCEPT ![n] = O!Out]
      /\ UNCHANGED <<observers_, adds, undefined>>
  BY DEF O!End
<1>2. O!Out \in O!Loop
  BY DEF O!Out, O!Loop, O!Places
<1>3. ListOK' /\ loop'[n] = O!Out
  BY <1>1, <1>2 DEF LoopsInv, ListOK
<1>4. LoopOK(n)'
  BY <1>3 DEF LoopOK, O!Out
<1> QED
  BY <1>1, <1>3, <1>4, OtherLoops DEF LoopsInv

\* What changes no loop and not the list.
LEMMA QuietLoops ==
  ASSUME LoopsInv, UNCHANGED <<observers_, adds, loop>>, undefined' \in BOOLEAN
  PROVE  LoopsInv'
<1>1. ListOK'
  BY DEF LoopsInv, ListOK
<1> QED
  BY <1>1 DEF LoopsInv, LoopOK, Cursor, O!Registered

\* Whatever a step does to the tables, the tasks and the replies, it leaves the
\* list and the loops to one of the actions above.
LEMMA LoopsStep ==
  ASSUME IInv, [Next]_vars PROVE LoopsInv'
<1>1. LoopsInv /\ DonationsInv /\ undefined \in BOOLEAN
  BY DEF IInv, LoopsInv, ListOK
<1>2. CASE UNCHANGED observerVars
  BY <1>1, <1>2, QuietLoops DEF observerVars
<1>3. ASSUME NEW t \in tasks PROVE t.call \in Trigger
  BY <1>1, DonationsAssumption DEF DonationsInv, TasksInv, TablesInv, Trigger
<1>4. ASSUME NEW t \in tasks, OnRecurringDonationUpdated(t) \/ OnTipsUpdatedData(t)
      PROVE  LoopsInv'
  <2>1. PICK n \in Trigger : n = t.call
    BY <1>3
  <2>2. \/ O!Begin(n) \/ O!Advance(n) \/ O!ReadFreed(n) \/ O!End(n)
        \/ \E o \in Observer : O!Tell(n, o)
    BY <1>4, <2>1 DEF OnRecurringDonationUpdated, OnTipsUpdatedData
  <2>3. CASE O!Begin(n)
    BY <1>1, <2>3, BeginLoops
  <2>4. CASE O!Advance(n)
    BY <1>1, <2>4, AdvanceLoops
  <2>5. CASE O!ReadFreed(n)
    BY <1>1, <2>5, QuietLoops DEF O!ReadFreed
  <2>6. CASE O!End(n)
    BY <1>1, <2>6, EndLoops
  <2>7. ASSUME NEW o \in Observer, O!Tell(n, o) PROVE LoopsInv'
    BY <1>1, <2>7, TellLoops
  <2> QED
    BY <2>2, <2>3, <2>4, <2>5, <2>6, <2>7
<1>5. CASE ChangeObservers
  BY <1>1, <1>5, AddObserverLoops, RemoveObserverLoops DEF ChangeObservers
<1>6. ASSUME Next, ~ ChangeObservers,
             ~ \E t \in tasks : OnRecurringDonationUpdated(t) \/ OnTipsUpdatedData(t)
      PROVE  UNCHANGED observerVars
  BY <1>6 DEF Next, Step, SavePublisherInfo, SaveRecurringDonation,
     OnRecurringDonationSaved, SaveContributionInfo, OnContributionInfoSaved,
     OnRemoveRecurring, OnRemovedRecurring, Ask, GetRecurringDonations, TipsUpdated
<1>7. CASE UNCHANGED vars
  BY <1>2, <1>7 DEF vars
<1> QED
  BY <1>2, <1>4, <1>5, <1>6, <1>7
-----------------------------------------------------------------------------
\* What was stored stays stored: amounts grow and publishers stay.
LEMMA StoredStays ==
  ASSUME TablesInv, TablesInv', known \subseteq known',
         \A p \in Publisher : amount[p] <= amount'[p],
         NEW list \in List, WasStored(list)
  PROVE  WasStored(list)'
<1> SUFFICES ASSUME NEW p \in Publisher, list[p] # 0
             PROVE  p \in known' /\ list[p] <= amount'[p]
  BY DEF WasStored
<1>1. p \in known /\ list[p] <= amount[p]
  BY DEF WasStored
<1>2. list[p] \in Nat /\ amount[p] \in Nat /\ amount'[p] \in Nat
  BY DonationsAssumption DEF List, TablesInv
<1> QED
  BY <1>1, <1>2

LEMMA EmptyStored ==
  /\ Empty \in List /\ WasStored(Empty) /\ WasStored(Empty)'
BY DonationsAssumption DEF Empty, List, WasStored

\* The tables of a step that may store, and what it means for the lists.
LEMMA TablesStep ==
  ASSUME DonationsInv, [Next]_vars
  PROVE  /\ TablesInv' /\ known \subseteq known' /\ calls <= calls'
         /\ \A p \in Publisher : amount[p] <= amount'[p]
<1> USE DonationsAssumption DEF DonationsInv, TablesInv
<1>1. \A p \in Publisher : amount[p] \in 0 .. calls
  OBVIOUS
<1>2. ASSUME NEW p \in Publisher, SavePublisherInfo(p)
      PROVE  TablesInv' /\ known \subseteq known' /\ calls' = calls /\ amount' = amount
  BY <1>2 DEF SavePublisherInfo
<1>3. ASSUME NEW p \in Publisher, SaveRecurringDonation(p)
      PROVE  /\ TablesInv' /\ known' = known /\ calls <= calls'
             /\ \A q \in Publisher : amount[q] <= amount'[q]
  <2>1. /\ calls' = calls + 1 /\ calls' \in 0 .. MaxCalls /\ known' = known
        /\ amount' \in {amount, [amount EXCEPT ![p] = calls']}
    BY <1>3 DEF SaveRecurringDonation, NewCall
  <2>2. \A q \in Publisher : amount'[q] \in {amount[q], calls'}
    BY <2>1
  <2>3. \A q \in Publisher : amount'[q] \in 0 .. calls' /\ amount[q] <= amount'[q]
    BY <1>1, <2>1, <2>2
  <2>4. amount' \in [Publisher -> 0 .. calls']
    BY <2>1, <2>3
  <2> QED
    BY <2>1, <2>3, <2>4
<1>4. CASE SaveContributionInfo \/ OnRemoveRecurring \/ Ask
  <2>1. /\ calls' = calls + 1 /\ calls' \in 0 .. MaxCalls
        /\ known' = known /\ amount' = amount
    BY <1>4 DEF SaveContributionInfo, OnRemoveRecurring, Ask, NewList, NewCall,
       tableVars
  <2> QED
    BY <1>1, <2>1
<1>5. CASE UNCHANGED <<tableVars, calls>>
  BY <1>1, <1>5 DEF tableVars
<1>6. ASSUME NEW t \in tasks, Step(t) PROVE UNCHANGED <<tableVars, calls>>
  BY <1>6 DEF Step, OnRecurringDonationSaved, OnContributionInfoSaved,
     OnRemovedRecurring, GetRecurringDonations, OnRecurringDonationUpdated,
     TipsUpdated, OnTipsUpdatedData
<1> QED
  BY <1>1, <1>2, <1>3, <1>4, <1>5, <1>6 DEF Next, ChangeObservers, vars

\* A call's first task: no other task is the call's.
LEMMA NewTask ==
  ASSUME DonationsInv, [Next]_vars, NEW kind, NewCall(kind),
         \/ removing' = removing
         \/ kind = "removed" /\ removing' = removing \cup {calls'}
  PROVE  TasksInv'
<1>0. PICK u : u = Task(calls', kind, Empty)
  OBVIOUS
<1>1. /\ tasks' = tasks \cup {u} /\ calls' = calls + 1 /\ calls \in Nat
      /\ u.call = calls' /\ u.kind = kind /\ u.list = Empty
  BY <1>0, DonationsAssumption DEF NewCall, Task, DonationsInv, TablesInv
<1>2. Empty \in List /\ WasStored(Empty)'
  BY EmptyStored
<1>3. ASSUME NEW t \in tasks
      PROVE  /\ t.call \in 1 .. calls /\ t.call # calls' /\ t.list \in List
             /\ WasStored(t.list)'
  <2>1. PICK list \in List : list = t.list /\ WasStored(list)
    BY DEF DonationsInv, TasksInv
  <2>2. WasStored(list)'
    BY <2>1, TablesStep, StoredStays DEF DonationsInv
  <2>3. t.call \in 1 .. calls
    BY DEF DonationsInv, TasksInv
  <2> QED
    BY <1>1, <2>1, <2>2, <2>3
<1>4. calls' \notin removing
  BY <1>1 DEF DonationsInv, OwedInv
<1>5. \A t \in tasks' : t.call \in 1 .. calls' /\ t.list \in List /\ WasStored(t.list)'
  <2>1. u.call \in 1 .. calls' /\ u.list \in List /\ WasStored(u.list)'
    BY <1>1, <1>2
  <2>2. ASSUME NEW t \in tasks PROVE t.call \in 1 .. calls'
    BY <1>1, <1>3
  <2> QED
    BY <1>1, <1>3, <2>1, <2>2
<1>6. \A s, t \in tasks' : s.call = t.call => s = t
  <2>1. \A s, t \in tasks : s.call = t.call => s = t
    BY DEF DonationsInv, TasksInv
  <2> QED
    BY <1>1, <1>3, <2>1
<1>7. \A t \in tasks' : t.call \in removing' => t.kind = "removed"
  <2>1. \A t \in tasks : t.call \in removing => t.kind = "removed"
    BY DEF DonationsInv, TasksInv
  <2> QED
    BY <1>1, <1>3, <1>4, <2>1
<1> QED
  BY <1>5, <1>6, <1>7 DEF TasksInv, WasStored

\* A task that stays, or is done, needs nothing.
LEMMA FewerTasks ==
  ASSUME DonationsInv, [Next]_vars, tasks' \subseteq tasks, removing' \subseteq removing
  PROVE  TasksInv'
<1>1. ASSUME NEW t \in tasks
      PROVE  t.call \in 1 .. calls' /\ t.list \in List /\ WasStored(t.list)'
  <2>1. PICK list \in List : list = t.list /\ WasStored(list)
    BY DEF DonationsInv, TasksInv
  <2>2. WasStored(list)'
    BY <2>1, TablesStep, StoredStays DEF DonationsInv
  <2>3. t.call \in 1 .. calls /\ calls <= calls' /\ calls \in Nat /\ calls' \in Nat
    BY TablesStep, DonationsAssumption DEF DonationsInv, TasksInv, TablesInv
  <2> QED
    BY <2>1, <2>2, <2>3
<1> QED
  BY <1>1 DEF DonationsInv, TasksInv, WasStored

\* A task is followed by another one of its call.
LEMMA NextTask ==
  ASSUME DonationsInv, [Next]_vars, NEW t \in tasks, NEW kind, NEW list \in List,
         Then(t, kind, list), WasStored(list), calls' = calls,
         removing' \subseteq removing, t.call \notin removing'
  PROVE  TasksInv'
<1> DEFINE u == Task(t.call, kind, list)
<1>1. /\ tasks' = (tasks \ {t}) \cup {u}
      /\ u.call = t.call /\ u.kind = kind /\ u.list = list
  BY DEF Then, Task
<1>2. WasStored(list)'
  BY TablesStep, StoredStays DEF DonationsInv
<1> HIDE DEF u
<1>3. \A s \in tasks : /\ s.call \in 1 .. calls /\ s.list \in List
                       /\ s.call \in removing => s.kind = "removed"
  BY DEF DonationsInv, TasksInv
<1>4. \A r, s \in tasks : s.call = r.call => s = r
  BY DEF DonationsInv, TasksInv
<1>5. ASSUME NEW s \in tasks PROVE WasStored(s.list)'
  <2>1. PICK l \in List : l = s.list /\ WasStored(l)
    BY DEF DonationsInv, TasksInv
  <2>2. WasStored(l)'
    BY <2>1, TablesStep, StoredStays DEF DonationsInv
  <2> QED
    BY <2>1, <2>2
<1>6. \A s \in tasks' : s.call \in 1 .. calls' /\ s.list \in List /\ WasStored(s.list)'
  BY <1>1, <1>2, <1>3, <1>5
<1>7. \A r, s \in tasks' : s.call = r.call => s = r
  BY <1>1, <1>4
<1>8. \A s \in tasks' : s.call \in removing' => s.kind = "removed"
  BY <1>1, <1>3
<1> QED
  BY <1>6, <1>7, <1>8 DEF TasksInv, WasStored

\* The list that a query returns was stored.
LEMMA DonationsStored ==
  ASSUME TablesInv PROVE Donations \in List /\ WasStored(Donations)
<1>1. \A p \in Publisher : amount[p] \in 0 .. MaxCalls /\ amount[p] <= amount[p]
  BY DonationsAssumption DEF TablesInv
<1> QED
  BY <1>1, DonationsAssumption DEF Donations, List, WasStored

LEMMA TasksStep ==
  ASSUME DonationsInv, [Next]_vars PROVE TasksInv'
<1> USE DEF tableVars
<1>1. ASSUME NEW p \in Publisher, SavePublisherInfo(p) PROVE TasksInv'
  BY <1>1, FewerTasks DEF SavePublisherInfo
<1>2. ASSUME NEW p \in Publisher, SaveRecurringDonation(p) PROVE TasksInv'
  BY <1>2, NewTask DEF SaveRecurringDonation
<1>3. CASE SaveContributionInfo
  BY <1>3, NewTask DEF SaveContributionInfo
<1>4. CASE OnRemoveRecurring
  BY <1>4, NewTask DEF OnRemoveRecurring, NewList
<1>5. CASE Ask
  BY <1>5, NewTask DEF Ask, NewList
<1>6. ASSUME NEW t \in tasks, Step(t) PROVE TasksInv'
  <2>0. t.call \in removing => t.kind = "removed"
    BY DEF DonationsInv, TasksInv
  <2>1. CASE OnRecurringDonationSaved(t) \/ OnContributionInfoSaved(t)
    BY <2>1, FewerTasks DEF OnRecurringDonationSaved, OnContributionInfoSaved, succeded
  <2>2. CASE OnRemovedRecurring(t)
    BY <2>2, NextTask, EmptyStored DEF OnRemovedRecurring
  <2>3. CASE GetRecurringDonations(t)
    BY <2>0, <2>3, NextTask, EmptyStored, DonationsStored
    DEF GetRecurringDonations, DonationsInv
  <2>4. CASE OnRecurringDonationUpdated(t)
    BY <2>4, FewerTasks DEF OnRecurringDonationUpdated
  <2>5. CASE TipsUpdated(t)
    BY <2>0, <2>5, NextTask, EmptyStored DEF TipsUpdated
  <2>6. CASE OnTipsUpdatedData(t)
    BY <2>6, FewerTasks DEF OnTipsUpdatedData
  <2> QED
    BY <1>6, <2>1, <2>2, <2>3, <2>4, <2>5, <2>6 DEF Step
<1>7. CASE ChangeObservers
  BY <1>7, FewerTasks DEF ChangeObservers
<1>8. CASE UNCHANGED vars
  BY <1>8, FewerTasks DEF vars
<1> QED
  BY <1>1, <1>2, <1>3, <1>4, <1>5, <1>6, <1>7, <1>8 DEF Next

\* Each reply and each list that is owed is one call's.
LEMMA OwedStep ==
  ASSUME DonationsInv, [Next]_vars PROVE OwedInv'
<1> USE DEF DonationsInv, OwedInv, tableVars
<1>1. calls \in Nat /\ calls' \in Nat /\ calls <= calls'
  BY TablesStep, DonationsAssumption DEF TablesInv
<1>2. CASE removing' \subseteq owed' /\ owed' \subseteq owed
  BY <1>1, <1>2
<1>3. CASE OnRemoveRecurring
  <2>1. /\ calls' = calls + 1 /\ removing' = removing \cup {calls'}
        /\ owed' = owed \cup {calls'}
    BY <1>3 DEF OnRemoveRecurring, NewList, NewCall
  <2> QED
    BY <1>1, <2>1
<1>4. ASSUME NEW t \in tasks, OnRecurringDonationUpdated(t) PROVE OwedInv'
  <2>1. /\ t.call \notin removing /\ removing' = removing
        /\ owed' = owed \/ owed' = owed \ {t.call}
    BY <1>4 DEF OnRecurringDonationUpdated, TasksInv
  <2> QED
    BY <1>2, <2>1
<1>5. ASSUME Next, ~ OnRemoveRecurring,
             ~ \E t \in tasks : OnRecurringDonationUpdated(t)
      PROVE  removing' \subseteq removing /\ owed' = owed
  BY <1>5 DEF Next, Step, SavePublisherInfo, SaveRecurringDonation,
     OnRecurringDonationSaved, SaveContributionInfo, OnContributionInfoSaved,
     OnRemovedRecurring, Ask, GetRecurringDonations, TipsUpdated,
     OnTipsUpdatedData, ChangeObservers
<1> QED
  BY <1>2, <1>3, <1>4, <1>5 DEF vars

\* An observer is shown the list of a task.
LEMMA ShownStep ==
  ASSUME DonationsInv, [Next]_vars PROVE ShownInv'
<1> USE DEF DonationsInv, ShownInv, tableVars
<1>1. ASSUME NEW list \in List, WasStored(list) PROVE WasStored(list)'
  BY <1>1, TablesStep, StoredStays
<1>2. CASE shown' = shown
  <2>1. ASSUME NEW o \in Observer PROVE WasStored(shown[o])'
    <3>1. PICK list \in List : list = shown[o] /\ WasStored(list)
      OBVIOUS
    <3>2. WasStored(list)'
      BY <1>1, <3>1
    <3> QED
      BY <1>2, <3>1, <3>2
  <2> QED
    BY <1>2, <2>1 DEF WasStored
<1>3. ASSUME NEW t \in tasks, OnRecurringDonationUpdated(t) PROVE ShownInv'
  <2>1. SUFFICES ASSUME NEW o \in Observer, shown' = [shown EXCEPT ![o] = t.list]
                 PROVE  ShownInv'
    BY <1>2, <1>3 DEF OnRecurringDonationUpdated
  <2>2. PICK l \in List : l = t.list /\ WasStored(l)
    BY DEF TasksInv
  <2>3. shown' \in [Observer -> List]
    BY <2>1, <2>2
  <2>4. ASSUME NEW q \in Observer
        PROVE  \E list \in List : list = shown'[q] /\ WasStored(list)
    BY <2>1, <2>2
  <2>5. ASSUME NEW q \in Observer PROVE WasStored(shown[q])'
    <3>1. PICK list \in List : list = shown'[q] /\ WasStored(list)
      BY <2>4
    <3>2. WasStored(list)'
      BY <1>1, <3>1
    <3> QED
      BY <3>1, <3>2
  <2> QED
    BY <2>3, <2>5 DEF WasStored
<1>4. ASSUME Next, ~ \E t \in tasks : OnRecurringDonationUpdated(t)
      PROVE  shown' = shown
  BY <1>4 DEF Next, Step, SavePublisherInfo, SaveRecurringDonation,
     OnRecurringDonationSaved, SaveContributionInfo, OnContributionInfoSaved,
     OnRemoveRecurring, OnRemovedRecurring, Ask, GetRecurringDonations, TipsUpdated,
     OnTipsUpdatedData, ChangeObservers
<1> QED
  BY <1>2, <1>3, <1>4 DEF vars
-----------------------------------------------------------------------------
\* The inductive invariant of donations, tips and the loops over observers_.
THEOREM Invariant == Spec => []IInv
<1>1. Init => IInv
  <2>1. ASSUME Init PROVE TablesInv /\ TasksInv /\ OwedInv /\ ShownInv
    <3>1. \A o \in Observer : shown[o] = Empty
      BY <2>1 DEF Init
    <3>2. shown \in [Observer -> List] /\ \A o \in Observer : WasStored(shown[o])
      BY <2>1, <3>1, EmptyStored DEF Init
    <3> QED
      BY <2>1, <3>2, DonationsAssumption
      DEF Init, TablesInv, TasksInv, OwedInv, ShownInv, Empty
  <2>2. ASSUME Init PROVE LoopsInv
    <3>1. O!Out \in O!Loop
      BY DEF O!Out, O!Loop, O!Places
    <3>2. /\ observers_ = << >> /\ adds = 0 /\ undefined = FALSE
          /\ loop \in [Trigger -> O!Loop] /\ \A n \in Trigger : loop[n] = O!Out
      BY <2>2, <3>1 DEF Init, O!Init, Trigger
    <3>3. undefined \in BOOLEAN
      BY <3>2
    <3>4. observers_ \in Seq(Observer) /\ Len(observers_) = 0 /\ adds \in 0 .. MaxAdds
      BY <3>2, DonationsAssumption
    <3>5. ListOK
      BY <3>2, <3>3, <3>4 DEF ListOK
    <3> QED
      BY <3>2, <3>5 DEF LoopsInv, LoopOK, O!Out
  <2> QED
    BY <2>1, <2>2 DEF IInv, DonationsInv
<1>2. IInv /\ [Next]_vars => IInv'
  BY LoopsStep, TablesStep, TasksStep, OwedStep, ShownStep DEF IInv, DonationsInv
<1> QED
  BY <1>1, <1>2, PTL DEF Spec

\* The types, and that a call has one task: tasks follow one another.
THEOREM Typing == Spec => []TypeOK
<1>1. IInv => TypeOK
  <2> SUFFICES ASSUME IInv PROVE TypeOK
    OBVIOUS
  <2> USE DEF IInv, DonationsInv
  <2>1. amount \in List
    BY DonationsAssumption DEF TablesInv, List
  <2>2. O!IsInjective(observers_) /\ O!Registered \subseteq Observer
    BY RegisteredIs DEF LoopsInv, ListOK, O!IsInjective
  <2>3. O!TypeOK
    <3>1. ASSUME NEW n \in Trigger PROVE loop[n].at \subseteq O!Registered
      <4>1. CASE loop[n].place \in {"at", "in"}
        BY <4>1, RegisteredIs DEF LoopsInv, LoopOK, Cursor
      <4>2. CASE loop[n].place \notin {"at", "in"}
        BY <4>2 DEF LoopsInv, LoopOK
      <4> QED
        BY <4>1, <4>2
    <3>2. ASSUME NEW n \in Trigger
          PROVE  /\ loop[n].at \cup loop[n].due \subseteq O!Registered
                 /\ loop[n].twice \subseteq loop[n].told
                 /\ loop[n].told \subseteq loop[n].due
      BY <3>1 DEF LoopsInv, LoopOK
    <3> QED
      BY <2>2, <3>2 DEF O!TypeOK, LoopsInv, ListOK, Trigger
  <2> QED
    BY <2>1, <2>3 DEF TypeOK, TablesInv, TasksInv, OwedInv, ShownInv
<1> QED
  BY <1>1, Invariant, PTL

\* What an observer is shown may be out of date, it is never made up, in
\* whatever order the lists overtake one another on their way to
\* OnRecurringDonationUpdated.
THEOREM StoredShown == Spec => []ShownWasStored
<1>1. IInv => ShownWasStored
  BY DEF IInv, DonationsInv, ShownInv, WasStored, ShownWasStored
<1> QED
  BY <1>1, Invariant, PTL

\* The loops over observers_ tell everyone registered throughout, and once,
\* with any number of loops at once and observers coming and going.
THEOREM EveryoneTold == Spec => []ToldOnce
<1>1. IInv => ToldOnce
  BY DEF IInv, LoopsInv, LoopOK, ToldOnce, O!ToldOnce, Trigger
<1> QED
  BY <1>1, Invariant, PTL
-----------------------------------------------------------------------------
\* A removal whose list has not been shown has a task that leads there, and if
\* its callback has not run that task is the one that runs it.
RemovesPending ==
  \A n \in owed : \E t \in tasks :
    /\ t.call = n /\ t.kind \in {"removed", "update", "show"}
    /\ n \in removing => t.kind = "removed"

LEMMA PendingStep ==
  ASSUME DonationsInv, RemovesPending, [Next]_vars PROVE RemovesPending'
<1> USE DEF RemovesPending, tableVars
<1>0. /\ \A s, t \in tasks : s.call = t.call => s = t
      /\ removing \subseteq owed
  BY DEF DonationsInv, TasksInv, OwedInv
<1>1. ASSUME tasks \subseteq tasks', owed' = owed, removing' = removing
      PROVE  RemovesPending'
  BY <1>1
<1>2. ASSUME NEW t \in tasks, t.kind \notin {"removed", "update", "show"},
             tasks \ {t} \subseteq tasks', owed' = owed, removing' = removing
      PROVE  RemovesPending'
  BY <1>2
<1>3. ASSUME NEW t \in tasks, NEW kind \in {"update", "show"}, NEW list,
             Then(t, kind, list), owed' = owed, removing' \subseteq removing,
             t.call \notin removing'
      PROVE  RemovesPending'
  <2>1. PICK u : u = Task(t.call, kind, list)
    OBVIOUS
  <2>2. u.call = t.call /\ u.kind = kind /\ tasks' = (tasks \ {t}) \cup {u}
    BY <1>3, <2>1 DEF Then, Task
  <2> SUFFICES ASSUME NEW n \in owed
               PROVE  \E s \in tasks' :
                        /\ s.call = n /\ s.kind \in {"removed", "update", "show"}
                        /\ n \in removing' => s.kind = "removed"
    BY <1>3
  <2>3. CASE n = t.call
    BY <1>3, <2>2, <2>3
  <2>4. CASE n # t.call
    BY <1>3, <2>2, <2>4
  <2> QED
    BY <2>3, <2>4
<1>4. CASE OnRemoveRecurring
  <2>1. PICK u : u = Task(calls', "removed", Empty)
    OBVIOUS
  <2>2. /\ u.call = calls' /\ u.kind = "removed" /\ tasks' = tasks \cup {u}
        /\ owed' = owed \cup {calls'} /\ removing' = removing \cup {calls'}
    BY <1>4, <2>1 DEF OnRemoveRecurring, NewList, NewCall, Task
  <2>3. calls' \notin owed
    BY <1>4, DonationsAssumption
    DEF OnRemoveRecurring, NewList, NewCall, DonationsInv, OwedInv, TablesInv
  <2> QED
    BY <2>2, <2>3
<1>5. ASSUME \/ \E p \in Publisher : SavePublisherInfo(p) \/ SaveRecurringDonation(p)
             \/ SaveContributionInfo \/ Ask \/ ChangeObservers \/ UNCHANGED vars
      PROVE  RemovesPending'
  BY <1>1, <1>5 DEF SavePublisherInfo, SaveRecurringDonation, SaveContributionInfo,
     Ask, NewList, NewCall, ChangeObservers, vars
<1>6. ASSUME NEW t \in tasks, Step(t) PROVE RemovesPending'
  <2>0. t.call \in removing => t.kind = "removed"
    BY DEF DonationsInv, TasksInv
  <2>1. CASE OnRecurringDonationSaved(t) \/ OnContributionInfoSaved(t)
    BY <1>2, <2>1 DEF OnRecurringDonationSaved, OnContributionInfoSaved, succeded
  <2>2. CASE OnRemovedRecurring(t)
    BY <1>3, <2>2 DEF OnRemovedRecurring
  <2>3. CASE GetRecurringDonations(t)
    BY <1>3, <2>0, <2>3 DEF GetRecurringDonations
  <2>4. CASE OnRecurringDonationUpdated(t)
    <3>1. CASE tasks' = tasks /\ owed' = owed
      BY <1>1, <2>4, <3>1 DEF OnRecurringDonationUpdated
    <3>2. CASE tasks' = tasks \ {t} /\ owed' = owed \ {t.call}
      BY <2>4, <3>2 DEF OnRecurringDonationUpdated
    <3> QED
      BY <2>4, <3>1, <3>2 DEF OnRecurringDonationUpdated
  <2>5. CASE TipsUpdated(t)
    BY <1>2, <2>5 DEF TipsUpdated, Then
  <2>6. CASE OnTipsUpdatedData(t)
    BY <1>2, <2>6 DEF OnTipsUpdatedData
  <2> QED
    BY <1>6, <2>1, <2>2, <2>3, <2>4, <2>5, <2>6 DEF Step
<1> QED
  BY <1>4, <1>5, <1>6 DEF Next

\* The safety part of RemovesAnswered: no interleaving and no failing statement
\* drops a removal between its DELETE and its list (OnRemovedRecurring goes on
\* whether or not anything was removed).  The rest is scheduling.
THEOREM NoRemoveLost == Spec => []RemovesPending
<1>1. Init => RemovesPending
  BY DEF Init, RemovesPending
<1>2. IInv /\ RemovesPending /\ [Next]_vars => RemovesPending'
  BY PendingStep DEF IInv
<1> QED
  BY <1>1, <1>2, Invariant, PTL DEF Spec
=============================================================================

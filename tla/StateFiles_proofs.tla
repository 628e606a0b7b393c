-------------------------- MODULE StateFiles_proofs --------------------------
(***************************************************************************)
(* The safety properties of StateFiles, for any callers, calls and sizes.  *)
(*                                                                         *)
(* Types and answers hold whatever overlaps.  A load gives pieces of one   *)
(* state as long as nothing has overlapped: then one caller at most is at  *)
(* the file, and the file holds a beginning of the state last saved.       *)
(***************************************************************************)
EXTENDS StateFiles, SequenceTheorems, TLAPS

Piece == 0 .. MaxCalls

\* Types, and how far a writer can get.
TypesInv ==
  /\ file \in Seq(Piece) /\ Len(file) <= MaxPieces
  /\ calls \in Piece
  /\ size \in [Call -> 0 .. MaxPieces]
  /\ pc \in [Caller -> {"idle", "open_write", "write", "open_read", "read", "post"}]
  /\ call \in [Caller -> Piece]
  /\ pos \in [Caller -> 1 .. MaxPieces + 1]
  /\ data \in [Caller -> Seq(Piece)]
  /\ last \in Piece /\ of \in [Caller -> Piece]
  /\ overlapped \in BOOLEAN
  /\ \A c \in Caller : pc[c] \in {"open_write", "write"} => pos[c] <= size[call[c]]

\* A call that waits is at the file or has its answer on the way, not both.
AnswersInv ==
  /\ waiting \subseteq 1 .. calls
  /\ \A c \in Caller : pc[c] # "idle" => call[c] \in waiting
  /\ \A c, d \in Caller :
       pc[c] # "idle" /\ pc[d] # "idle" /\ call[c] = call[d] => c = d
  /\ \A r \in replies : r.call \in waiting
  /\ \A r \in replies, c \in Caller : pc[c] # "idle" => r.call # call[c]
  /\ \A r, s \in replies : r.call = s.call => r = s

\* d is a beginning of the state that call n saved, when k calls have been made
\* and their sizes are sz.
Good(d, n, k, sz) ==
  /\ \A i \in 1 .. Len(d) : d[i] = n
  /\ d # << >> => n \in 1 .. k /\ Len(d) <= sz[n]

OneStateInv ==
  /\ \A c, d \in Caller : pc[c] # "idle" /\ pc[d] # "idle" => c = d
  /\ Good(file, last, calls, size)
  /\ \A c \in Caller : pc[c] # "idle" => Good(data[c], of[c], calls, size)
  /\ \A c \in Caller : pc[c] \in {"open_write", "open_read"} =>
       pos[c] = 1 /\ data[c] = << >>
  /\ \A c \in Caller : pc[c] = "write" => last = call[c] /\ Len(file) = pos[c] - 1
  /\ \A c \in Caller : pc[c] = "read" => of[c] = last /\ Len(data[c]) = pos[c] - 1
  /\ \A r \in replies : Good(r.data, r.of, calls, size)

IInv == TypesInv /\ AnswersInv /\ (~ overlapped => OneStateInv)
-----------------------------------------------------------------------------
\* Writing a piece into a file, or behind it.
LEMMA PutProperty ==
  ASSUME NEW f \in Seq(Piece), NEW k \in Nat \ {0}, NEW n \in Piece
  PROVE  /\ Put(f, k, n) \in Seq(Piece)
         /\ Len(Put(f, k, n)) = IF k > Len(f) THEN k ELSE Len(f)
         /\ \A j \in 1 .. Len(Put(f, k, n)) :
              Put(f, k, n)[j] = IF j = k THEN n ELSE IF j <= Len(f) THEN f[j] ELSE 0
<1> DEFINE m == IF k > Len(f) THEN k ELSE Len(f)
           E(j) == IF j = k THEN n ELSE IF j <= Len(f) THEN f[j] ELSE 0
<1>1. m \in Nat /\ Len(f) \in Nat
  OBVIOUS
<1>2. Put(f, k, n) = [j \in 1 .. m |-> E(j)]
  BY DEF Put
<1>3. \A j \in 1 .. m : E(j) \in Piece
  BY StateFilesAssumption DEF Piece
<1> HIDE DEF m, E
<1>4. [j \in 1 .. m |-> E(j)] \in Seq(Piece) /\ Len([j \in 1 .. m |-> E(j)]) = m
  BY <1>1, <1>3
<1> QED
  BY <1>2, <1>4 DEF m, E

\* Writing at the end of a file appends.
LEMMA PutBehind ==
  ASSUME NEW f \in Seq(Piece), NEW k \in Nat \ {0}, NEW n \in Piece,
         k = Len(f) + 1
  PROVE  /\ Len(Put(f, k, n)) = k
         /\ \A j \in 1 .. k : Put(f, k, n)[j] = IF j = k THEN n ELSE f[j]
<1> DEFINE E(j) == IF j = k THEN n ELSE f[j]
<1>1. Len(f) \in Nat /\ \A j \in 1 .. Len(f) : f[j] \in Piece
  OBVIOUS
<1>2. Put(f, k, n) = [j \in 1 .. k |-> E(j)]
  BY <1>1 DEF Put
<1>3. \A j \in 1 .. k : E(j) \in Piece
  BY <1>1
<1> HIDE DEF E
<1>4. [j \in 1 .. k |-> E(j)] \in Seq(Piece) /\ Len([j \in 1 .. k |-> E(j)]) = k
  BY <1>3
<1> QED
  BY <1>2, <1>4 DEF E

LEMMA InitTypes == Init => TypesInv /\ AnswersInv /\ OneStateInv
<1> SUFFICES ASSUME Init PROVE TypesInv /\ AnswersInv /\ OneStateInv
  OBVIOUS
<1>1. overlapped \in BOOLEAN
  BY DEF Init
<1>2. TypesInv
  <2>1. /\ file \in Seq(Piece) /\ Len(file) = 0 /\ data \in [Caller -> Seq(Piece)]
        /\ 0 \in Piece /\ 1 \in 1 .. MaxPieces + 1 /\ 0 \in 0 .. MaxPieces
    BY StateFilesAssumption DEF Init, Piece
  <2>2. \A c \in Caller : pc[c] = "idle"
    BY DEF Init
  <2>3. file \in Seq(Piece) /\ Len(file) <= MaxPieces
    BY <2>1, StateFilesAssumption
  <2> QED
    BY <1>1, <2>1, <2>2, <2>3 DEF Init, TypesInv
<1>3. AnswersInv
  BY DEF Init, AnswersInv
<1>4. OneStateInv
  BY DEF Init, OneStateInv, Good
<1> QED
  BY <1>2, <1>3, <1>4

\* A step of a load or a save keeps the types.
LEMMA TypesStep ==
  ASSUME TypesInv, AnswersInv, [Next]_vars PROVE TypesInv'
<1> USE StateFilesAssumption DEF TypesInv, Goto, histVars
<1>0. 0 \in Piece /\ calls \in Nat
  BY DEF Piece
<1>1. ASSUME NEW c \in Caller, NEW n \in 0 .. MaxPieces, NEW step,
             step = "open_read" \/ (step = "open_write" /\ n > 0), Begin(c, n, step)
      PROVE  TypesInv'
  <2>1. /\ calls' = calls + 1 /\ calls' \in Call /\ calls' \in Piece
        /\ call' = [call EXCEPT ![c] = calls'] /\ size' = [size EXCEPT ![calls'] = n]
        /\ pos' = [pos EXCEPT ![c] = 1] /\ data' = [data EXCEPT ![c] = << >>]
        /\ pc' = [pc EXCEPT ![c] = step]
        /\ UNCHANGED <<file, last, of>>
    BY <1>0, <1>1 DEF Begin, Piece, Call
  <2>2. overlapped' \in BOOLEAN
    BY <1>1 DEF Begin
  <2>3. /\ call' \in [Caller -> Piece] /\ size' \in [Call -> 0 .. MaxPieces]
        /\ pos' \in [Caller -> 1 .. MaxPieces + 1]
    BY <2>1
  <2>4. data' \in [Caller -> Seq(Piece)]
    BY <2>1
  <2>5. pc' \in [Caller -> {"idle", "open_write", "write", "open_read", "read",
                            "post"}]
    BY <1>1, <2>1
  <2>6. ASSUME NEW d \in Caller, pc'[d] \in {"open_write", "write"}
        PROVE  pos'[d] <= size'[call'[d]]
    <3>1. CASE d = c
      BY <1>1, <2>1, <2>6, <3>1
    <3>2. CASE d # c
      <4>1. call[d] \in 1 .. calls /\ pos[d] <= size[call[d]]
        BY <2>1, <2>6, <3>2 DEF AnswersInv
      <4>2. call[d] # calls' /\ call[d] \in Call
        BY <2>1, <4>1 DEF Call, Piece
      <4> QED
        BY <2>1, <3>2, <4>1, <4>2
    <3> QED
      BY <3>1, <3>2
  <2> QED
    BY <2>1, <2>2, <2>3, <2>4, <2>5, <2>6
<1>2. ASSUME NEW c \in Caller, WritePiece(c) PROVE TypesInv'
  <2>1. /\ pos[c] \in 1 .. MaxPieces /\ pos[c] <= size[call[c]]
        /\ file' = Put(file, pos[c], call[c])
        /\ pos' = [pos EXCEPT ![c] = pos[c] + 1]
        /\ pc' = [pc EXCEPT ![c] = IF pos[c] = size[call[c]] THEN "post" ELSE "write"]
        /\ UNCHANGED <<calls, size, call, data, last, of, overlapped>>
    <3>1. call[c] \in Call
      BY <1>2 DEF WritePiece, AnswersInv, Call, Piece
    <3>2. size[call[c]] \in 0 .. MaxPieces /\ pos[c] <= size[call[c]]
      BY <1>2, <3>1 DEF WritePiece
    <3> QED
      BY <1>2, <3>2 DEF WritePiece
  <2>2. file' \in Seq(Piece) /\ Len(file') <= MaxPieces
    <3>1. /\ call[c] \in Piece /\ pos[c] \in Nat \ {0} /\ pos[c] <= MaxPieces
      BY <2>1
    <3> QED
      BY <2>1, <3>1, PutProperty
  <2>3. pc' \in [Caller -> {"idle", "open_write", "write", "open_read", "read",
                            "post"}]
    BY <2>1
  <2>4. pos' \in [Caller -> 1 .. MaxPieces + 1]
    BY <2>1
  <2>5. ASSUME NEW d \in Caller, pc'[d] \in {"open_write", "write"}
        PROVE  pos'[d] <= size[call[d]]
    <3>1. CASE d = c
      <4>1. call[c] \in Call
        BY <1>2 DEF WritePiece, AnswersInv, Call, Piece
      <4>2. pos[c] # size[call[c]] /\ pos'[c] = pos[c] + 1 /\ size[call[c]] \in Nat
        BY <2>1, <2>5, <3>1, <4>1
      <4> QED
        BY <2>1, <3>1, <4>2
    <3>2. CASE d # c
      BY <2>1, <2>5, <3>2
    <3> QED
      BY <3>1, <3>2
  <2> QED
    BY <2>1, <2>2, <2>3, <2>4, <2>5
<1>3. ASSUME NEW c \in Caller, ReadPiece(c), pos[c] <= Len(file) PROVE TypesInv'
  <2>1. /\ pos' = [pos EXCEPT ![c] = pos[c] + 1]
        /\ data' = [data EXCEPT ![c] = Append(data[c], file[pos[c]])]
        /\ pc[c] = "read"
        /\ UNCHANGED <<file, calls, size, pc, call, last, of, overlapped>>
    BY <1>3 DEF ReadPiece
  <2>2. pos[c] \in 1 .. Len(file) /\ pos[c] \in 1 .. MaxPieces
    BY <1>3
  <2>3. Append(data[c], file[pos[c]]) \in Seq(Piece)
    BY <2>2, AppendProperties
  <2>4. pos' \in [Caller -> 1 .. MaxPieces + 1]
    BY <2>1, <2>2
  <2>5. data' \in [Caller -> Seq(Piece)]
    BY <2>1, <2>3
  <2> QED
    BY <2>1, <2>4, <2>5
<1>4. ASSUME NEW c \in Caller, OpenForWrite(c) PROVE TypesInv'
  <2>1. /\ file' = << >> /\ last' = call[c] /\ pc[c] = "open_write"
        /\ pc' = [pc EXCEPT ![c] = "write"]
        /\ UNCHANGED <<calls, size, call, pos, data, of, overlapped>>
    BY <1>4 DEF OpenForWrite
  <2>2. file' \in Seq(Piece) /\ Len(file') <= MaxPieces
    BY <2>1
  <2> QED
    BY <2>1, <2>2
<1>5. ASSUME NEW c \in Caller, OpenForRead(c) PROVE TypesInv'
  BY <1>5 DEF OpenForRead
<1>6. ASSUME NEW c \in Caller, NEW step \in {"post", "idle"},
             pc' = [pc EXCEPT ![c] = step],
             UNCHANGED <<file, calls, size, call, pos, data, last, of, overlapped>>
      PROVE  TypesInv'
  BY <1>6
<1>7. ASSUME NEW c \in Caller, WriteFails(c) \/ ReadFails(c) \/ Post(c)
      PROVE  TypesInv'
  BY <1>6, <1>7 DEF WriteFails, ReadFails, Post
<1>8. ASSUME NEW c \in Caller, ReadPiece(c), ~ (pos[c] <= Len(file)) PROVE TypesInv'
  BY <1>6, <1>8 DEF ReadPiece
<1>9. ASSUME NEW r \in replies, Deliver(r) PROVE TypesInv'
  BY <1>9 DEF Deliver
<1>10. CASE Crash
  BY <1>10 DEF Crash
<1>11. ASSUME NEW c \in Caller, Load(c) \/ Save(c) PROVE TypesInv'
  <2>1. \A n \in 1 .. MaxPieces : n \in 0 .. MaxPieces /\ n > 0
    OBVIOUS
  <2>2. 0 \in 0 .. MaxPieces
    OBVIOUS
  <2> QED
    BY <1>1, <1>11, <2>1, <2>2 DEF Load, Save
<1>12. CASE UNCHANGED vars
  BY <1>12 DEF vars
<1> QED
  BY <1>2, <1>3, <1>4, <1>5, <1>7, <1>8, <1>9, <1>10, <1>11, <1>12 DEF Next, FileStep

\* Numbers of calls are not given twice, and an answer is taken once.
LEMMA AnswersStep ==
  ASSUME TypesInv, AnswersInv, [Next]_vars PROVE AnswersInv'
<1> USE StateFilesAssumption DEF AnswersInv, Goto, histVars
<1>1. ASSUME NEW c \in Caller, NEW n, NEW step, Begin(c, n, step)
      PROVE  AnswersInv'
  <2>1. /\ calls \in Nat /\ calls' = calls + 1 /\ waiting' = waiting \cup {calls'}
        /\ pc[c] = "idle" /\ replies' = replies
        /\ \A d \in Caller : /\ call'[d] = IF d = c THEN calls' ELSE call[d]
                             /\ pc'[d] = IF d = c THEN step ELSE pc[d]
    BY <1>1 DEF Begin, TypesInv, Piece
  <2>2. calls' \notin waiting
    BY <2>1
  <2>3. waiting' \subseteq 1 .. calls'
    BY <2>1
  <2> QED
    BY <2>1, <2>2, <2>3
<1>2. ASSUME NEW c \in Caller, pc[c] # "idle",
             \A d \in Caller : d # c => pc'[d] = pc[d],
             UNCHANGED <<calls, call, replies, waiting>>
      PROVE  AnswersInv'
  BY <1>2
<1>3. ASSUME NEW c \in Caller, Post(c) PROVE AnswersInv'
  <2>1. PICK r : r = [call |-> call[c], data |-> data[c],
                      of |-> of[c], result |-> Result(c)]
    OBVIOUS
  <2>2. /\ r.call = call[c] /\ replies' = replies \cup {r} /\ pc[c] = "post"
        /\ \A d \in Caller : pc'[d] = IF d = c THEN "idle" ELSE pc[d]
        /\ UNCHANGED <<calls, call, waiting>>
    BY <1>3, <2>1 DEF Post, TypesInv
  <2> QED
    BY <2>2
<1>4. ASSUME NEW c \in Caller, OpenForWrite(c) \/ WritePiece(c) \/ WriteFails(c)
                               \/ OpenForRead(c) \/ ReadPiece(c) \/ ReadFails(c)
      PROVE  AnswersInv'
  BY <1>2, <1>4 DEF OpenForWrite, WritePiece, WriteFails, OpenForRead, ReadPiece,
     ReadFails, TypesInv
<1>5. ASSUME NEW r \in replies, Deliver(r) PROVE AnswersInv'
  BY <1>5 DEF Deliver
<1>6. CASE Crash
  BY <1>6 DEF Crash
<1>7. CASE UNCHANGED vars
  BY <1>7 DEF vars
<1> QED
  BY <1>1, <1>3, <1>4, <1>5, <1>6, <1>7 DEF Next, FileStep, Load, Save
-----------------------------------------------------------------------------
\* What is good stays good: a save that has begun keeps its size.
LEMMA GoodStays ==
  ASSUME TypesInv, [Next]_vars, NEW d, NEW n, Good(d, n, calls, size)
  PROVE  Good(d, n, calls', size')
<1>1. /\ calls \in Nat /\ calls <= calls' /\ calls' \in Nat
      /\ \A i \in 1 .. calls : size'[i] = size[i]
  <2>1. calls \in Nat /\ size \in [Call -> 0 .. MaxPieces]
    BY DEF TypesInv, Piece
  <2>2. ASSUME NEW c \in Caller, NEW k, NEW step, Begin(c, k, step)
        PROVE  calls' = calls + 1 /\ \A i \in 1 .. calls : size'[i] = size[i]
    <3>1. calls' = calls + 1 /\ calls < MaxCalls /\ size' = [size EXCEPT ![calls'] = k]
      BY <2>2 DEF Begin
    <3>2. \A i \in 1 .. calls : i \in Call /\ i # calls'
      BY <2>1, <3>1, StateFilesAssumption DEF Call
    <3> QED
      BY <2>1, <3>1, <3>2
  <2>3. CASE UNCHANGED <<calls, size>>
    BY <2>1, <2>3
  <2>4. ASSUME Next, \A c \in Caller : ~ (Load(c) \/ Save(c))
        PROVE  UNCHANGED <<calls, size>>
    BY <2>4 DEF Next, FileStep, OpenForWrite, WritePiece, WriteFails, OpenForRead,
       ReadPiece, ReadFails, Post, Deliver, Crash
  <2> QED
    BY <2>1, <2>2, <2>3, <2>4 DEF Load, Save, vars
<1> QED
  BY <1>1 DEF Good

LEMMA EmptyGood == \A n, k, sz : Good(<< >>, n, k, sz)
BY DEF Good

\* As long as nothing has overlapped, one state is in the file and is read.
LEMMA OneStateStep ==
  ASSUME TypesInv, AnswersInv, ~ overlapped => OneStateInv, [Next]_vars,
         ~ overlapped'
  PROVE  OneStateInv'
<1> USE DEF Goto, histVars
<1>0. OneStateInv /\ ~ overlapped
  <2>1. ASSUME NEW c \in Caller, Load(c) \/ Save(c) PROVE ~ overlapped
    BY <2>1 DEF Load, Save, Begin
  <2>2. ASSUME Next, ~ \E c \in Caller : Load(c) \/ Save(c)
        PROVE  overlapped' = overlapped
    BY <2>2 DEF Next, FileStep, OpenForWrite, WritePiece, WriteFails, OpenForRead,
       ReadPiece, ReadFails, Post, Deliver, Crash
  <2> QED
    BY <2>1, <2>2 DEF vars
<1>1. ASSUME NEW d, NEW n, Good(d, n, calls, size) PROVE Good(d, n, calls', size')
  BY <1>1, GoodStays
<1>2. /\ Good(file, last, calls', size')
      /\ \A r \in replies : Good(r.data, r.of, calls', size')
      /\ \A c \in Caller : pc[c] # "idle" => Good(data[c], of[c], calls', size')
  BY <1>0, <1>1 DEF OneStateInv
<1>3. ASSUME NEW c \in Caller, \A d \in Caller \ {c} : pc'[d] = "idle",
             Good(file', last', calls', size'),
             \A r \in replies' : Good(r.data, r.of, calls', size'),
             pc'[c] # "idle" => Good(data'[c], of'[c], calls', size'),
             pc'[c] \in {"open_write", "open_read"} => pos'[c] = 1 /\ data'[c] = << >>,
             pc'[c] = "write" => last' = call'[c] /\ Len(file') = pos'[c] - 1,
             pc'[c] = "read" => of'[c] = last' /\ Len(data'[c]) = pos'[c] - 1
      PROVE  OneStateInv'
  BY <1>3 DEF OneStateInv
<1>4. ASSUME NEW c \in Caller, NEW n, NEW step \in {"open_read", "open_write"},
             Begin(c, n, step)
      PROVE  OneStateInv'
  <2>1. /\ \A d \in Caller : pc[d] = "idle"
        /\ \A d \in Caller \ {c} : pc'[d] = "idle"
        /\ pc'[c] = step /\ pos'[c] = 1 /\ data'[c] = << >>
        /\ UNCHANGED <<file, replies, last, of>>
    BY <1>0, <1>4 DEF Begin, TypesInv
  <2> QED
    BY <1>2, <1>3, <2>1, EmptyGood
<1>5. ASSUME NEW c \in Caller, pc[c] # "idle" PROVE \A d \in Caller \ {c} : pc[d] = "idle"
  BY <1>0, <1>5 DEF OneStateInv
<1>6. ASSUME NEW c \in Caller, OpenForWrite(c) PROVE OneStateInv'
  <2>1. /\ pc[c] = "open_write" /\ pc'[c] = "write" /\ file' = << >> /\ last' = call[c]
        /\ \A d \in Caller \ {c} : pc'[d] = pc[d]
        /\ UNCHANGED <<calls, size, call, pos, data, replies, of>>
    BY <1>6 DEF OpenForWrite, TypesInv
  <2>2. pos[c] = 1 /\ Len(file') = 0
    BY <1>0, <2>1 DEF OneStateInv
  <2> QED
    BY <1>2, <1>3, <1>5, <2>1, <2>2, EmptyGood
<1>7. ASSUME NEW c \in Caller, WritePiece(c) PROVE OneStateInv'
  <2>1. /\ pc[c] = "write" /\ pc'[c] \in {"write", "post"}
        /\ file' = Put(file, pos[c], call[c])
        /\ pos'[c] = pos[c] + 1
        /\ \A d \in Caller \ {c} : pc'[d] = pc[d]
        /\ UNCHANGED <<calls, size, call, data, replies, last, of>>
    BY <1>7 DEF WritePiece, TypesInv
  <2>2. /\ last = call[c] /\ Len(file) = pos[c] - 1 /\ call[c] \in 1 .. calls
        /\ pos[c] <= size[call[c]] /\ pos[c] \in Nat \ {0}
        /\ file \in Seq(Piece) /\ call[c] \in Piece
    <3>1. last = call[c] /\ Len(file) = pos[c] - 1
      BY <1>0, <2>1 DEF OneStateInv
    <3>2. call[c] \in waiting /\ call[c] \in 1 .. calls
      BY <2>1 DEF AnswersInv
    <3>3. /\ pos[c] <= size[call[c]] /\ pos[c] \in Nat \ {0}
          /\ file \in Seq(Piece) /\ call[c] \in Piece
      BY <2>1 DEF TypesInv
    <3> QED
      BY <3>1, <3>2, <3>3
  <2>3. /\ Len(file') = pos[c]
        /\ \A j \in 1 .. pos[c] :
             file'[j] = IF j = pos[c] THEN call[c] ELSE file[j]
    <3>1. PICK f \in Seq(Piece), k \in Nat \ {0}, n \in Piece :
               f = file /\ k = pos[c] /\ n = call[c]
      BY <2>2
    <3>2. k = Len(f) + 1
      BY <2>2, <3>1
    <3>3. /\ Len(Put(f, k, n)) = k
          /\ \A j \in 1 .. k : Put(f, k, n)[j] = IF j = k THEN n ELSE f[j]
      BY <3>2, PutBehind
    <3>4. file' = Put(f, k, n)
      BY <2>1, <3>1, Zenon
    <3> QED
      BY <3>1, <3>3, <3>4
  <2>4. \A j \in 1 .. Len(file) : file[j] = last
    BY <1>0 DEF OneStateInv, Good
  <2>5. Good(file', last', calls', size')
    <3>1. ASSUME NEW j \in 1 .. Len(file') PROVE file'[j] = last
      <4>1. j \in 1 .. pos[c] /\ (j = pos[c] \/ j \in 1 .. Len(file))
        <5>1. pos[c] \in Nat /\ Len(file') = pos[c] /\ Len(file) = pos[c] - 1
          BY <2>2, <2>3
        <5> QED
          BY <5>1
      <4>2. file'[j] = IF j = pos[c] THEN call[c] ELSE file[j]
        BY <2>3, <4>1, Zenon
      <4> QED
        BY <2>2, <2>4, <4>1, <4>2, Zenon
    <3>2. last \in 1 .. calls /\ Len(file') <= size[last]
      BY <2>2, <2>3
    <3> QED
      BY <2>1, <3>1, <3>2, Zenon DEF Good
  <2> QED
    BY <1>2, <1>3, <1>5, <2>1, <2>2, <2>3, <2>5
<1>8. ASSUME NEW c \in Caller, OpenForRead(c) PROVE OneStateInv'
  <2>1. /\ pc[c] = "open_read" /\ pc'[c] = "read" /\ of'[c] = last
        /\ \A d \in Caller \ {c} : pc'[d] = pc[d]
        /\ UNCHANGED <<file, calls, size, call, pos, data, replies, last>>
    BY <1>8 DEF OpenForRead, TypesInv
  <2>2. pos[c] = 1 /\ data[c] = << >> /\ Len(data[c]) = 0
    BY <1>0, <2>1 DEF OneStateInv
  <2> QED
    BY <1>2, <1>3, <1>5, <2>1, <2>2, EmptyGood
<1>9. ASSUME NEW c \in Caller, ReadPiece(c), pos[c] <= Len(file) PROVE OneStateInv'
  <2>1. /\ pc[c] = "read" /\ pc'[c] = "read" /\ pos'[c] = pos[c] + 1
        /\ data'[c] = Append(data[c], file[pos[c]])
        /\ \A d \in Caller \ {c} : pc'[d] = pc[d]
        /\ UNCHANGED <<file, calls, size, call, replies, last, of>>
    BY <1>9 DEF ReadPiece, TypesInv
  <2>2. /\ of[c] = last /\ Len(data[c]) = pos[c] - 1 /\ pos[c] \in 1 .. Len(file)
        /\ file[pos[c]] = last /\ data[c] \in Seq(Piece) /\ last \in Piece
        /\ \A j \in 1 .. Len(data[c]) : data[c][j] = last
    <3>1. of[c] = last /\ Len(data[c]) = pos[c] - 1
      BY <1>0, <2>1 DEF OneStateInv
    <3>2. /\ pos[c] \in Nat \ {0} /\ data[c] \in Seq(Piece) /\ last \in Piece
          /\ file \in Seq(Piece)
      BY DEF TypesInv
    <3>3. pos[c] \in 1 .. Len(file)
      BY <1>9, <3>2
    <3>4. \A j \in 1 .. Len(file) : file[j] = last
      BY <1>0 DEF OneStateInv, Good
    <3>5. \A j \in 1 .. Len(data[c]) : data[c][j] = of[c]
      BY <1>0, <2>1 DEF OneStateInv, Good
    <3> QED
      BY <3>1, <3>2, <3>3, <3>4, <3>5
  <2>3. /\ Len(data'[c]) = pos[c]
        /\ \A j \in 1 .. pos[c] : data'[c][j] = last
    BY <2>1, <2>2, AppendProperties
  <2>4. last \in 1 .. calls /\ pos[c] <= size[last]
    <3>1. last \in 1 .. calls /\ Len(file) <= size[last]
      BY <1>0, <2>2 DEF OneStateInv, Good
    <3>2. size[last] \in Nat /\ Len(file) \in Nat
      BY <3>1, StateFilesAssumption DEF TypesInv, Call, Piece
    <3> QED
      BY <2>2, <3>1, <3>2
  <2>5. Good(data'[c], of'[c], calls', size')
    BY <2>1, <2>2, <2>3, <2>4 DEF Good
  <2>6. pc'[c] = "read" /\ of'[c] = last' /\ Len(data'[c]) = pos'[c] - 1
    BY <2>1, <2>2, <2>3 DEF TypesInv
  <2>7. \A d \in Caller \ {c} : pc'[d] = "idle"
    BY <1>5, <2>1
  <2>8. Good(file', last', calls', size')
    BY <1>2, <2>1
  <2>9. \A r \in replies' : Good(r.data, r.of, calls', size')
    BY <1>2, <2>1
  <2> QED
    BY <1>3, <2>5, <2>6, <2>7, <2>8, <2>9
<1>10. ASSUME NEW c \in Caller, ReadPiece(c), ~ (pos[c] <= Len(file))
       PROVE  /\ pc[c] # "idle" /\ pc'[c] = "post"
              /\ \A d \in Caller \ {c} : pc'[d] = pc[d]
              /\ UNCHANGED <<file, data, replies, last, of>>
  BY <1>10 DEF ReadPiece, TypesInv
<1>11. ASSUME NEW c \in Caller, WriteFails(c) \/ ReadFails(c)
       PROVE  /\ pc[c] # "idle" /\ pc'[c] = "post"
              /\ \A d \in Caller \ {c} : pc'[d] = pc[d]
              /\ UNCHANGED <<file, data, replies, last, of>>
  BY <1>11 DEF WriteFails, ReadFails, TypesInv
<1>12. ASSUME NEW c \in Caller, pc[c] # "idle", pc'[c] = "post",
              \A d \in Caller \ {c} : pc'[d] = pc[d],
              UNCHANGED <<file, data, replies, last, of>>
       PROVE  OneStateInv'
  BY <1>2, <1>3, <1>5, <1>12
<1>13. ASSUME NEW c \in Caller, Post(c) PROVE OneStateInv'
  <2>1. PICK r : r = [call |-> call[c], data |-> data[c],
                      of |-> of[c], result |-> Result(c)]
    OBVIOUS
  <2>2. /\ r.data = data[c] /\ r.of = of[c] /\ replies' = replies \cup {r}
        /\ pc[c] # "idle" /\ pc'[c] = "idle"
        /\ \A d \in Caller \ {c} : pc'[d] = pc[d]
        /\ UNCHANGED <<file, last>>
    BY <1>13, <2>1 DEF Post, TypesInv
  <2> QED
    BY <1>2, <1>3, <1>5, <2>2
<1>14. ASSUME NEW r \in replies, Deliver(r) PROVE OneStateInv'
  BY <1>0, <1>14 DEF Deliver, OneStateInv
<1>15. CASE Crash
  BY <1>2, <1>15 DEF Crash, OneStateInv
<1>16. CASE UNCHANGED vars
  BY <1>0, <1>16 DEF vars, OneStateInv
<1> QED
  BY <1>4, <1>6, <1>7, <1>8, <1>9, <1>10, <1>11, <1>12, <1>13, <1>14, <1>15, <1>16
  DEF Next, FileStep, Load, Save
-----------------------------------------------------------------------------
\* The inductive invariant of a state file.
THEOREM Invariant == Spec => []IInv
<1>1. Init => IInv
  BY InitTypes DEF IInv
<1>2. IInv /\ [Next]_vars => IInv'
  BY TypesStep, AnswersStep, OneStateStep DEF IInv
<1> QED
  BY <1>1, <1>2, PTL DEF Spec

\* The types, whatever overlaps: in particular an answer on its way is always
\* that of a call whose handler still waits for it, so none is answered twice.
THEOREM Typing == Spec => []TypeOK
<1>1. IInv => TypeOK
  BY DEF IInv, TypesInv, AnswersInv, TypeOK, Piece
<1> QED
  BY <1>1, Invariant, PTL

\* Loads and saves that do not overlap never mix two states, whatever fails or
\* dies between them (SaveLedgerState rewrites the file in place).
THEOREM OneState == Spec => []LoadsOneState
<1>1. IInv => LoadsOneState
  BY DEF IInv, OneStateInv, Good, LoadsOneState
<1> QED
  BY <1>1, Invariant, PTL
-----------------------------------------------------------------------------
\* A call that waits for its answer is at the file, or its answer is on the way.
CallsPending ==
  \A n \in waiting :
    \/ \E c \in Caller : pc[c] # "idle" /\ call[c] = n
    \/ \E r \in replies : r.call = n

LEMMA PendingStep ==
  ASSUME TypesInv, AnswersInv, CallsPending, [Next]_vars PROVE CallsPending'
<1> USE DEF CallsPending, Goto, histVars
<1>1. ASSUME NEW c \in Caller, NEW n, NEW step \in {"open_read", "open_write"},
             Begin(c, n, step)
      PROVE  CallsPending'
  <2>1. /\ pc[c] = "idle" /\ waiting' = waiting \cup {calls'} /\ replies' = replies
        /\ pc'[c] # "idle" /\ call'[c] = calls'
        /\ \A d \in Caller \ {c} : pc'[d] = pc[d] /\ call'[d] = call[d]
    BY <1>1 DEF Begin, TypesInv
  <2> QED
    BY <2>1
<1>2. ASSUME NEW c \in Caller, OpenForWrite(c) \/ WritePiece(c) \/ WriteFails(c)
                               \/ OpenForRead(c) \/ ReadPiece(c) \/ ReadFails(c)
      PROVE  CallsPending'
  <2>1. /\ pc'[c] # "idle" /\ \A d \in Caller \ {c} : pc'[d] = pc[d]
        /\ UNCHANGED <<call, replies, waiting>>
    BY <1>2 DEF OpenForWrite, WritePiece, WriteFails, OpenForRead, ReadPiece,
       ReadFails, TypesInv
  <2> QED
    BY <2>1
<1>3. ASSUME NEW c \in Caller, Post(c) PROVE CallsPending'
  <2>1. PICK r : r = [call |-> call[c], data |-> data[c],
                      of |-> of[c], result |-> Result(c)]
    OBVIOUS
  <2>2. /\ r.call = call[c] /\ replies' = replies \cup {r}
        /\ \A d \in Caller \ {c} : pc'[d] = pc[d]
        /\ UNCHANGED <<call, waiting>>
    BY <1>3, <2>1 DEF Post, TypesInv
  <2> QED
    BY <2>2
<1>4. ASSUME NEW r \in replies, Deliver(r) PROVE CallsPending'
  BY <1>4 DEF Deliver
<1>5. CASE Crash
  BY <1>5 DEF Crash
<1>6. CASE UNCHANGED vars
  BY <1>6 DEF vars
<1> QED
  BY <1>1, <1>2, <1>3, <1>4, <1>5, <1>6 DEF Next, FileStep, Load, Save

\* The safety part of CallsAnswered: whatever fails, no load or save forgets its
\* answer (PostWriteCallback, RunTask).  The rest is scheduling.
THEOREM NoAnswerLost == Spec => []CallsPending
<1>1. Init => CallsPending
  BY DEF Init, CallsPending
<1>2. IInv /\ CallsPending /\ [Next]_vars => CallsPending'
  BY PendingStep DEF IInv
<1> QED
  BY <1>1, <1>2, Invariant, PTL DEF Spec
-----------------------------------------------------------------------------
\* The results that are on their way, after a task for r has been added.
LEMMA ReadyGrows ==
  ASSUME NEW S, NEW U, NEW r, U = S \cup {r}
  PROVE  {s.call : s \in U} = {s.call : s \in S} \cup {r.call}
OBVIOUS

\* Every step on the file is a step of Callbacks or changes nothing it sees.
LEMMA AnswersSteps ==
  ASSUME IInv, [Next]_vars
  PROVE  [Answers!Next]_(Answers!vars)
<1> DEFINE ready == {r.call : r \in replies}
<1> USE DEF IInv, Goto
<1>1. \A n \in Call : Answers!Make(n) \/ Answers!Complete(n) \/ Answers!Answer(n)
                      => Answers!Next
  BY DEF Answers!Next
<1>2. ASSUME UNCHANGED <<calls, waiting, replies>> PROVE UNCHANGED Answers!vars
  BY <1>2 DEF Answers!vars
<1>0. waiting \subseteq Call
  <2>1. waiting \subseteq 1 .. calls /\ calls \in 0 .. MaxCalls
    BY DEF AnswersInv, TypesInv, Piece
  <2>2. 1 .. calls \subseteq Call
    BY <2>1, StateFilesAssumption DEF Call
  <2> QED
    BY <2>1, <2>2
<1>3. ASSUME NEW c \in Caller, NEW n, NEW step, Begin(c, n, step)
      PROVE  Answers!Next
  <2>1. /\ calls \in Nat /\ calls < MaxCalls /\ calls' = calls + 1
        /\ waiting' = waiting \cup {calls'} /\ replies' = replies
    BY <1>3 DEF Begin, TypesInv, Piece
  <2>2. calls' \in Call /\ calls' \notin 1 .. calls
    BY <2>1, StateFilesAssumption DEF Call
  <2>3. 1 .. calls' = 1 .. calls \cup {calls'}
    BY <2>1
  <2>4. PICK k \in Call : k = calls'
    BY <2>2
  <2>5. Answers!Make(k)
    BY <2>1, <2>2, <2>3, <2>4 DEF Answers!Make
  <2> QED
    BY <1>1, <2>5
<1>4. ASSUME NEW c \in Caller, Post(c) PROVE Answers!Next
  <2>1. PICK r : r = [call |-> call[c], data |-> data[c],
                      of |-> of[c], result |-> Result(c)]
    OBVIOUS
  <2>2. /\ r.call = call[c] /\ replies' = replies \cup {r} /\ pc[c] = "post"
        /\ UNCHANGED <<calls, waiting>>
    BY <1>4, <2>1 DEF Post
  <2>3. call[c] \in waiting /\ call[c] \notin ready /\ call[c] \in Call
    <3>1. call[c] \in waiting /\ \A s \in replies : s.call # call[c]
      BY <2>2 DEF AnswersInv
    <3> QED
      BY <1>0, <3>1
  <2>4. {s.call : s \in replies'} = ready \cup {call[c]}
    BY <2>2, ReadyGrows
  <2>5. PICK n \in Call : n = call[c]
    BY <2>3
  <2>6. Answers!Complete(n)
    BY <2>2, <2>3, <2>4, <2>5 DEF Answers!Complete
  <2> QED
    BY <1>1, <2>6
<1>5. ASSUME NEW c \in Caller, OpenForWrite(c) \/ WritePiece(c) \/ WriteFails(c)
                               \/ OpenForRead(c) \/ ReadPiece(c) \/ ReadFails(c)
      PROVE  UNCHANGED Answers!vars
  BY <1>2, <1>5 DEF OpenForWrite, WritePiece, WriteFails, OpenForRead, ReadPiece,
     ReadFails
<1>6. ASSUME NEW r \in replies, Deliver(r) PROVE Answers!Next
  <2>1. /\ replies' = replies \ {r} /\ waiting' = waiting \ {r.call}
        /\ calls' = calls
    BY <1>6 DEF Deliver
  <2>2. r.call \in Call
    BY <1>0 DEF AnswersInv
  <2>3. {s.call : s \in replies'} = ready \ {r.call}
    BY <2>1 DEF AnswersInv
  <2>4. Answers!Answer(r.call)
    BY <2>1, <2>3 DEF Answers!Answer
  <2> QED
    BY <1>1, <2>2, <2>4
<1>7. CASE Crash
  BY <1>7 DEF Crash, Answers!Next, Answers!Die
<1>8. CASE UNCHANGED vars
  BY <1>2, <1>8 DEF vars
<1> QED
  BY <1>3, <1>4, <1>5, <1>6, <1>7, <1>8 DEF Next, FileStep, Load, Save

\* LoadLedgerState, SaveLedgerState and their kind implement Callbacks: whatever
\* overlaps, fails or overtakes, a handler is called once at most, with the
\* result of its own call.
THEOREM CallsImplementCallbacks == Spec => AnsweredOnce
<1>1. Init => Answers!Init
  BY DEF Init, Answers!Init
<1>2. IInv /\ [Next]_vars => [Answers!Next]_(Answers!vars)
  BY AnswersSteps
<1> QED
  BY <1>1, <1>2, Invariant, PTL DEF Spec, AnsweredOnce, Answers!Spec
=============================================================================

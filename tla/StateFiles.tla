----------------------------- MODULE StateFiles -----------------------------
(***************************************************************************)
(* Saving and loading a state file.  ledger_state, publisher_state and     *)
(* publishers_list are three files handled by the same code and            *)
(* independent of one another: the module is one of them.                  *)
(*                                                                         *)
(* A save truncates the file and rewrites it in place, a load reads it to  *)
(* its end, both on the calling thread and with no lock; the answer is     *)
(* given to the library by a new thread.  Contents are written and read in *)
(* pieces.  A piece is known by the number of the save it belongs to, so   *)
(* file[k] = n says that call n wrote piece k.  Streams are external: they *)
(* may fail at any operation, and never throw (no exceptions() is set), so *)
(* the catch blocks are not reached and "success" stays true.              *)
(***************************************************************************)
EXTENDS Naturals, Sequences

CONSTANTS
  Caller,     \* threads in library code
  MaxCalls,   \* bound: loads and saves ever made
  MaxPieces   \* bound: pieces of a state

ASSUME StateFilesAssumption == MaxCalls \in Nat /\ MaxPieces \in Nat \ {0}

VARIABLES
  file,        \* the contents; << >> also stands for a missing file
  calls,       \* calls made so far
  size,        \* size[n]: pieces of the state saved by call n, 0 for a load
  pc, call,    \* per caller: where it is, and the number of its call
  pos,         \* per caller: the next piece
  data,        \* per caller: the local "data" of a load
  replies,     \* answers whose thread has not run yet
  waiting,     \* calls whose handler has not been called
  last,        \* history: the last save that truncated the file
  of,          \* history, per caller: "last" when its load opened the file
  overlapped   \* history: two calls have been at the file at once

histVars == <<last, of, overlapped>>
vars == <<file, calls, size, pc, call, pos, data, replies, waiting, histVars>>

Call == 1 .. MaxCalls
Goto(c, step) == pc' = [pc EXCEPT ![c] = step]

Init ==
  /\ file = << >> /\ calls = 0
  /\ size = [n \in Call |-> 0]
  /\ pc = [c \in Caller |-> "idle"] /\ call = [c \in Caller |-> 0]
  /\ pos = [c \in Caller |-> 1] /\ data = [c \in Caller |-> << >>]
  /\ replies = {} /\ waiting = {}
  /\ last = 0 /\ of = [c \in Caller |-> 0] /\ overlapped = FALSE

\* The library calls LoadLedgerState, SaveLedgerState or one of their kind.
Begin(c, n, step) ==
  /\ pc[c] = "idle" /\ calls < MaxCalls
  /\ calls' = calls + 1
  /\ call' = [call EXCEPT ![c] = calls']
  /\ size' = [size EXCEPT ![calls'] = n]
  /\ pos' = [pos EXCEPT ![c] = 1]
  /\ data' = [data EXCEPT ![c] = << >>]
  /\ waiting' = waiting \cup {calls'}
  /\ overlapped' = (overlapped \/ \E d \in Caller : pc[d] # "idle")
  /\ Goto(c, step)
  /\ UNCHANGED <<file, replies, last, of>>

Load(c) == Begin(c, 0, "open_read")
Save(c) == \E n \in 1 .. MaxPieces : Begin(c, n, "open_write")
-----------------------------------------------------------------------------
(***************************************************************************)
(* std::ofstream f(path); f << state; f.close().                           *)
(***************************************************************************)
\* Mutated form of OpenForWrite: the file is not truncated.
OpenKeep(c) ==
  /\ pc[c] = "open_write"
  /\ last' = call[c]
  /\ Goto(c, "write")
  /\ UNCHANGED <<file, calls, size, call, pos, data, replies, waiting, of,
                 overlapped>>

OpenForWrite(c) ==
  /\ pc[c] = "open_write"
  /\ file' = << >>
  /\ last' = call[c]
  /\ Goto(c, "write")
  /\ UNCHANGED <<calls, size, call, pos, data, replies, waiting, of, overlapped>>

\* f with piece k set to n; a gap left by another writer's truncation reads 0.
Put(f, k, n) ==
  [j \in 1 .. (IF k > Len(f) THEN k ELSE Len(f)) |->
     IF j = k THEN n ELSE IF j <= Len(f) THEN f[j] ELSE 0]

\* Mutated form of WritePiece: one piece too many.
WritePieceMore(c) ==
  /\ pc[c] = "write"
  /\ file' = Put(file, pos[c], call[c])
  /\ pos' = [pos EXCEPT ![c] = @ + 1]
  /\ Goto(c, IF pos[c] > size[call[c]] THEN "post" ELSE "write")
  /\ UNCHANGED <<calls, size, call, data, replies, waiting, histVars>>

WritePiece(c) ==
  /\ pc[c] = "write"
  /\ file' = Put(file, pos[c], call[c])
  /\ pos' = [pos EXCEPT ![c] = @ + 1]
  /\ Goto(c, IF pos[c] = size[call[c]] THEN "post" ELSE "write")
  /\ UNCHANGED <<calls, size, call, data, replies, waiting, histVars>>

\* The stream cannot be opened, or goes bad: the rest is silently not written.
WriteFails(c) ==
  /\ pc[c] \in {"open_write", "write"}
  /\ Goto(c, "post")
  /\ UNCHANGED <<file, calls, size, call, pos, data, replies, waiting, histVars>>

(***************************************************************************)
(* LoadStateOnFileTaskRunner.                                              *)
(***************************************************************************)
OpenForRead(c) ==
  /\ pc[c] = "open_read"
  /\ of' = [of EXCEPT ![c] = last]
  /\ Goto(c, "read")
  /\ UNCHANGED <<file, calls, size, call, pos, data, replies, waiting, last,
                 overlapped>>

ReadPiece(c) ==
  /\ pc[c] = "read"
  /\ IF pos[c] <= Len(file)
     THEN /\ data' = [data EXCEPT ![c] = Append(@, file[pos[c]])]
          /\ pos' = [pos EXCEPT ![c] = @ + 1]
          /\ UNCHANGED pc
     ELSE Goto(c, "post") /\ UNCHANGED <<data, pos>>
  /\ UNCHANGED <<file, calls, size, call, replies, waiting, histVars>>

\* The file cannot be opened or read on: what was read so far is the data.
ReadFails(c) ==
  /\ pc[c] \in {"open_read", "read"}
  /\ Goto(c, "post")
  /\ UNCHANGED <<file, calls, size, call, pos, data, replies, waiting, histVars>>
-----------------------------------------------------------------------------
(***************************************************************************)
(* The answer is bound into a task: PostWriteCallback, or RunTask at the   *)
(* end of a load.  An empty load is answered with an error code.           *)
(***************************************************************************)
Result(c) ==
  IF size[call[c]] = 0 /\ data[c] = << >> THEN "LEDGER_ERROR" ELSE "LEDGER_OK"

\* Mutated form of Post: an empty load is not answered.
PostNonEmpty(c) ==
  /\ pc[c] = "post"
  /\ replies' = IF Result(c) # "LEDGER_OK" THEN replies
                ELSE replies \cup {[call |-> call[c], data |-> data[c],
                                    of |-> of[c], result |-> Result(c)]}
  /\ Goto(c, "idle")
  /\ UNCHANGED <<file, calls, size, call, pos, data, waiting, histVars>>

Post(c) ==
  /\ pc[c] = "post"
  /\ replies' = replies \cup {[call |-> call[c], data |-> data[c],
                               of |-> of[c], result |-> Result(c)]}
  /\ Goto(c, "idle")
  /\ UNCHANGED <<file, calls, size, call, pos, data, waiting, histVars>>

\* Mutated form of Deliver: the task can run again.
DeliverKeep(r) ==
  /\ r \in replies
  /\ waiting' = waiting \ {r.call}
  /\ UNCHANGED <<file, calls, size, pc, call, pos, data, replies, histVars>>

\* A task runs: OnLedgerStateLoaded, OnLedgerStateSaved and their kind.
Deliver(r) ==
  /\ r \in replies
  /\ replies' = replies \ {r}
  /\ waiting' = waiting \ {r.call}
  /\ UNCHANGED <<file, calls, size, pc, call, pos, data, histVars>>

\* The process dies and is started again; the file stays as it is.
Crash ==
  /\ pc' = [c \in Caller |-> "idle"]
  /\ replies' = {} /\ waiting' = {}
  /\ UNCHANGED <<file, calls, size, call, pos, data, histVars>>

FileStep(c) ==
  \/ OpenForWrite(c) \/ WritePiece(c) \/ WriteFails(c)
  \/ OpenForRead(c) \/ ReadPiece(c) \/ ReadFails(c)
  \/ Post(c)

Next ==
  \/ \E c \in Caller : Load(c) \/ Save(c) \/ FileStep(c)
  \/ \E r \in replies : Deliver(r)
  \/ Crash

\* Threads are scheduled; nobody has to call, and nothing has to fail.
Fairness ==
  /\ \A c \in Caller : WF_vars(FileStep(c))
  /\ \A n \in Call : WF_vars(\E r \in replies : r.call = n /\ Deliver(r))

Spec == Init /\ [][Next]_vars /\ Fairness
-----------------------------------------------------------------------------
TypeOK ==
  /\ file \in Seq(0 .. MaxCalls) /\ Len(file) <= MaxPieces
  /\ calls \in 0 .. MaxCalls
  /\ size \in [Call -> 0 .. MaxPieces]
  /\ pc \in [Caller -> {"idle", "open_write", "write", "open_read", "read",
                        "post"}]
  /\ call \in [Caller -> 0 .. MaxCalls]
  /\ pos \in [Caller -> 1 .. MaxPieces + 1]
  /\ \A c \in Caller : data[c] \in Seq(0 .. MaxCalls)
  /\ waiting \subseteq 1 .. calls
  /\ \A r \in replies : r.call \in waiting
  /\ last \in 0 .. MaxCalls /\ of \in [Caller -> 0 .. MaxCalls]
  /\ overlapped \in BOOLEAN

\* As long as calls have not overlapped, a load gives pieces of one state
\* only, in order from the first: of the save that last truncated the file.
\* A crash or a failed write can cut a state short (SaveLedgerState rewrites in
\* place), but never puts parts of two states together.
LoadsOneState ==
  ~ overlapped =>
    \A r \in replies :
      /\ \A k \in 1 .. Len(r.data) : r.data[k] = r.of
      /\ r.data # << >> => Len(r.data) <= size[r.of]

\* The answers implement Callbacks: each call is answered once at most, by a
\* result made for this call, whatever overtakes it, overlaps it or fails.
Answers == INSTANCE Callbacks WITH
  made <- 1 .. calls, open <- waiting, ready <- {r.call : r \in replies}
AnsweredOnce == Answers!Spec

\* Every call of LoadLedgerState, SaveLedgerState and their kind is answered,
\* the failing ones included, unless the process dies first (which empties
\* "waiting").
CallsAnswered == \A n \in Call : n \in waiting ~> n \notin waiting
=============================================================================

------------------------------ MODULE UrlFetch ------------------------------
(***************************************************************************)
(* A request made through LoadURL, from the creation of its URLFetcher to  *)
(* the call of OnURLRequestResponse with the answer.                       *)
(*                                                                         *)
(* Each Caller is a thread in library code.  It calls LoadURL, files its   *)
(* request under the id of the loader it is given, and calls Start() on    *)
(* the loader; Start() blocks in curl and then runs OnURLFetchComplete on  *)
(* the same thread, which deletes the fetcher and hands the answer to a    *)
(* new thread (RunTask).  fetchers_ is keyed by the fetcher's address, and *)
(* addresses are reused.  The library's table of requests, curl and the    *)
(* heap are external.                                                      *)
(***************************************************************************)
EXTENDS Naturals, FiniteSets

CONSTANTS
  Caller,
  Address,        \* heap cells a URLFetcher may be given
  MaxRequests     \* bound: requests ever made

ASSUME UrlFetchAssumption == MaxRequests \in Nat /\ Address # {}

VARIABLES
  next_id,     \* the static next_id
  fetchers_,   \* fetchers_[a]: 0, or the id bound into the callback of a
  live,        \* live[a]: a URLFetcher is allocated at a
  code,        \* code[a]: response_code_, or what a former tenant left there
  pc, fetcher, \* per caller: where it is, and its fetcher's address
  boundId,     \* per caller: next_id as bound into the callback
  loaderId,    \* per caller: the id of the loader LoadURL returned
  fetched,     \* per caller: how curl_easy_perform ended
  waiting,     \* ids of requests the library has filed and not seen answered
  replies,     \* answers handed to threads that have not run yet
  overlapped   \* history: two threads have been inside LoadURL at once

heapVars == <<live, code>>
localVars == <<pc, fetcher, boundId, loaderId, fetched>>
answerVars == <<waiting, replies, overlapped>>
vars == <<next_id, fetchers_, heapVars, localVars, answerVars>>

\* response_code_ as far as it is told apart: 200, any other HTTP code, or
\* bits that were never written.
Code == {"ok", "http_error", "unset"}
Reply == [id : Nat, of : Nat, code : Code,
          fetched : {"ok", "http_error", "failed"}]
AnyAddress == CHOOSE a \in Address : TRUE

Init ==
  /\ next_id = 1
  /\ fetchers_ = [a \in Address |-> 0]
  /\ live = [a \in Address |-> FALSE]
  /\ code = [a \in Address |-> "unset"]
  /\ pc = [c \in Caller |-> "idle"]
  /\ fetcher = [c \in Caller |-> AnyAddress]
  /\ boundId = [c \in Caller |-> 0]
  /\ loaderId = [c \in Caller |-> 0]
  /\ fetched = [c \in Caller |-> "failed"]
  /\ waiting = {} /\ replies = {}
  /\ overlapped = FALSE

Step(c, from, to) == pc[c] = from /\ pc' = [pc EXCEPT ![c] = to]
InLoadURL == {c \in Caller : pc[c] \in {"bind", "register"}}
-----------------------------------------------------------------------------
(***************************************************************************)
(* LoadURL.  The constructor of URLFetcher does not write response_code_.  *)
(***************************************************************************)
Create(c) ==
  /\ Step(c, "idle", "bind")
  /\ overlapped' = (overlapped \/ InLoadURL # {})
  /\ \E a \in Address :
       /\ ~ live[a]
       /\ live' = [live EXCEPT ![a] = TRUE]
       /\ fetcher' = [fetcher EXCEPT ![c] = a]
  /\ next_id + Cardinality(InLoadURL) <= MaxRequests
  /\ UNCHANGED <<next_id, fetchers_, code, boundId, loaderId, fetched,
                 waiting, replies>>

\* std::bind(&OnURLRequestResponse, handler, next_id, url, ...): no lock held.
Bind(c) ==
  /\ Step(c, "bind", "register")
  /\ boundId' = [boundId EXCEPT ![c] = next_id]
  /\ UNCHANGED <<next_id, fetchers_, heapVars, fetcher, loaderId, fetched,
                 answerVars>>

\* Mutated form of Register: the loader takes ++next_id.
RegisterPreIncrement(c) ==
  /\ Step(c, "register", "loaded")
  /\ fetchers_' = [fetchers_ EXCEPT ![fetcher[c]] = boundId[c]]
  /\ loaderId' = [loaderId EXCEPT ![c] = next_id + 1]
  /\ next_id' = next_id + 1
  /\ UNCHANGED <<heapVars, fetcher, boundId, fetched, answerVars>>

\* Mutated form of Register: next_id is not incremented.
RegisterSameId(c) ==
  /\ Step(c, "register", "loaded")
  /\ fetchers_' = [fetchers_ EXCEPT ![fetcher[c]] = boundId[c]]
  /\ loaderId' = [loaderId EXCEPT ![c] = next_id]
  /\ UNCHANGED <<next_id, heapVars, fetcher, boundId, fetched, answerVars>>

\* Mutated form of Register: the callback is not entered.
RegisterNoEntry(c) ==
  /\ Step(c, "register", "loaded")
  /\ loaderId' = [loaderId EXCEPT ![c] = next_id]
  /\ next_id' = next_id + 1
  /\ UNCHANGED <<fetchers_, heapVars, fetcher, boundId, fetched, answerVars>>

\* Under vec_mx_: fetchers_[fetcher] = callback, and the loader takes next_id++.
Register(c) ==
  /\ Step(c, "register", "loaded")
  /\ fetchers_' = [fetchers_ EXCEPT ![fetcher[c]] = boundId[c]]
  /\ loaderId' = [loaderId EXCEPT ![c] = next_id]
  /\ next_id' = next_id + 1
  /\ UNCHANGED <<heapVars, fetcher, boundId, fetched, answerVars>>

\* External: the library files the request, then calls Start() on the loader.
FileRequest(c) ==
  /\ Step(c, "loaded", "perform")
  /\ waiting' = waiting \cup {loaderId[c]}
  /\ UNCHANGED <<next_id, fetchers_, heapVars, fetcher, boundId, loaderId,
                 fetched, replies, overlapped>>

(***************************************************************************)
(* URLFetcher::Start.  response_code_ is written only if curl succeeds.    *)
(***************************************************************************)
\* Mutated form of Perform: a failed transfer is not reported to the delegate.
PerformReturnsOnFailure(c) ==
  /\ \E r \in {"ok", "http_error", "failed"} :
       /\ Step(c, "perform", IF r = "failed" THEN "idle" ELSE "complete")
       /\ fetched' = [fetched EXCEPT ![c] = r]
       /\ code' = IF r = "failed" THEN code
                  ELSE [code EXCEPT ![fetcher[c]] = r]
  /\ UNCHANGED <<next_id, fetchers_, live, fetcher, boundId, loaderId,
                 answerVars>>

Perform(c) ==
  /\ Step(c, "perform", "complete")
  /\ \E r \in {"ok", "http_error", "failed"} :
       /\ fetched' = [fetched EXCEPT ![c] = r]
       /\ code' = IF r = "failed" THEN code
                  ELSE [code EXCEPT ![fetcher[c]] = r]
  /\ UNCHANGED <<next_id, fetchers_, live, fetcher, boundId, loaderId,
                 answerVars>>

(***************************************************************************)
(* OnURLFetchComplete: the callback is looked up and its entry erased      *)
(* under vec_mx_; the fetcher is read and deleted after the unlock; then   *)
(* RunTask.  An address with no entry would make it return at once, which  *)
(* only Shutdown can bring about: see RegisteredAtCompletion.              *)
(***************************************************************************)
\* Mutated form of LookUp: the entry is not erased.
LookUpKeep(c) ==
  /\ Step(c, "complete", "read")
  /\ fetchers_[fetcher[c]] # 0
  /\ boundId' = [boundId EXCEPT ![c] = fetchers_[fetcher[c]]]
  /\ UNCHANGED <<next_id, fetchers_, heapVars, fetcher, loaderId, fetched,
                 answerVars>>

LookUp(c) ==
  /\ Step(c, "complete", "read")
  /\ fetchers_[fetcher[c]] # 0
  /\ boundId' = [boundId EXCEPT ![c] = fetchers_[fetcher[c]]]
  /\ fetchers_' = [fetchers_ EXCEPT ![fetcher[c]] = 0]
  /\ UNCHANGED <<next_id, heapVars, fetcher, loaderId, fetched, answerVars>>

\* Mutated form of ReadAndDelete: the fetcher is not deleted.
ReadNoDelete(c) ==
  /\ Step(c, "read", "idle")
  /\ replies' = replies \cup
       {[id |-> boundId[c], of |-> loaderId[c], code |-> code[fetcher[c]],
         fetched |-> fetched[c]]}
  /\ UNCHANGED <<next_id, fetchers_, code, live, fetcher, boundId, loaderId,
                 fetched, waiting, overlapped>>

ReadAndDelete(c) ==
  /\ Step(c, "read", "idle")
  /\ replies' = replies \cup
       {[id |-> boundId[c], of |-> loaderId[c], code |-> code[fetcher[c]],
         fetched |-> fetched[c]]}
  /\ live' = [live EXCEPT ![fetcher[c]] = FALSE]
  /\ UNCHANGED <<next_id, fetchers_, code, fetcher, boundId, loaderId,
                 fetched, waiting, overlapped>>

\* The task runs: OnURLRequestResponse(id, ...).  External: the library looks
\* the request up by id and forgets it.
Deliver(r) ==
  /\ r \in replies
  /\ replies' = replies \ {r}
  /\ waiting' = waiting \ {r.id}
  /\ UNCHANGED <<next_id, fetchers_, heapVars, localVars, overlapped>>
-----------------------------------------------------------------------------
FetchStep(c) ==
  \/ Bind(c) \/ Register(c) \/ FileRequest(c)
  \/ Perform(c) \/ LookUp(c) \/ ReadAndDelete(c)

Next ==
  \/ \E c \in Caller : Create(c) \/ FetchStep(c)
  \/ \E r \in replies : Deliver(r)

\* Threads are scheduled and curl_easy_perform returns; nobody has to make a
\* request.  An answer's thread runs: each reply is delivered in the end.
Fairness ==
  /\ \A c \in Caller : WF_vars(FetchStep(c))
  /\ \A i \in 1 .. MaxRequests :
       WF_vars(\E r \in replies : r.of = i /\ Deliver(r))

Spec == Init /\ [][Next]_vars /\ Fairness
-----------------------------------------------------------------------------
TypeOK ==
  /\ next_id \in 1 .. MaxRequests + 1
  /\ fetchers_ \in [Address -> 0 .. MaxRequests]
  /\ live \in [Address -> BOOLEAN]
  /\ code \in [Address -> Code]
  /\ pc \in [Caller -> {"idle", "bind", "register", "loaded", "perform",
                        "complete", "read"}]
  /\ fetcher \in [Caller -> Address]
  /\ boundId \in [Caller -> 0 .. MaxRequests]
  /\ loaderId \in [Caller -> 0 .. MaxRequests]
  /\ fetched \in [Caller -> {"ok", "http_error", "failed"}]
  /\ waiting \subseteq 1 .. MaxRequests
  /\ replies \subseteq Reply

Owns(c, a) == fetcher[c] = a /\ pc[c] # "idle"
Registered(c) == pc[c] \in {"loaded", "perform", "complete"}

\* LoadURL creates with Create().release() and OnURLFetchComplete deletes:
\* a fetcher is allocated exactly as long as one thread works on it, so it is
\* neither leaked nor read after its deletion.
FetcherOwnership ==
  \A a \in Address :
    /\ live[a] <=> \E c \in Caller : Owns(c, a)
    /\ \A c, d \in Caller : Owns(c, a) /\ Owns(d, a) => c = d

\* fetchers_ is keyed by address and addresses are reused: an entry always
\* belongs to the fetcher now at that address, and Register never overwrites
\* the callback of another request (LoadURL, OnURLFetchComplete).
EntriesAreCurrent ==
  \A a \in Address :
    fetchers_[a] # 0 <=> \E c \in Caller : Owns(c, a) /\ Registered(c)

\* OnURLFetchComplete finds the callback LoadURL bound for this very fetcher,
\* so its early return is not taken and no request is silently dropped.
RegisteredAtCompletion ==
  \A c \in Caller : pc[c] = "complete" => fetchers_[fetcher[c]] = boundId[c]

\* No two requests in progress hold loaders with the same id (next_id++ under
\* vec_mx_), even if LoadURL is called by several threads at once.
LoaderIdsDistinct ==
  \A c, d \in Caller :
    pc[c] \notin {"idle", "bind", "register"} /\ loaderId[c] = loaderId[d]
    /\ pc[d] \notin {"idle", "bind", "register"} => c = d

\* An answer carries the id of the loader whose fetch produced it, in
\* whatever order the fetches end.  LoadURL reads next_id for the callback
\* before it takes the lock under which the loader gets its own id, so this
\* holds only as long as calls of LoadURL have not overlapped.
AnswersMatchRequests == ~ overlapped => \A r \in replies : r.id = r.of

\* LoadURL and OnURLFetchComplete implement Callbacks as long as calls of
\* LoadURL have not overlapped: a request is filed under an id of its own, and
\* the handler called with an answer is that of the request fetched for it, once.
Filed ==
  {i \in 1 .. next_id - 1 : \A c \in Caller : pc[c] = "loaded" => loaderId[c] # i}
Answers == INSTANCE Callbacks WITH
  Call <- 1 .. MaxRequests,
  made <- Filed, open <- waiting, ready <- {r.of : r \in replies}
AnsweredOnce == Answers!Init /\ [][overlapped \/ Answers!Next]_(Answers!vars)

\* Every request the library has filed is answered, under the same proviso.
RequestsAnswered ==
  \A i \in 1 .. MaxRequests : i \in waiting ~> i \notin waiting \/ overlapped

\* URLFetcher.h, OnURLFetchComplete: called "successfully or not", the
\* accessors then give the result; a fetch curl failed is not reported as 200.
FailureIsReported ==
  \A r \in replies : r.fetched = "failed" => r.code # "ok"
=============================================================================

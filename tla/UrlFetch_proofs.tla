--------------------------- MODULE UrlFetch_proofs ---------------------------
(***************************************************************************)
(* The table of fetchers is sound for every set of threads and addresses:  *)
(* a fetcher is owned by one thread from its creation to its deletion, an  *)
(* entry of fetchers_ belongs to the fetcher at its address, a completion  *)
(* finds its own callback, loaders in use have distinct ids, and answers   *)
(* match requests until calls of LoadURL overlap.                          *)
(***************************************************************************)
EXTENDS UrlFetch, FiniteSetTheorems, TLAPS

\* The part of TypeOK the argument needs; ids are not bounded.
Types ==
  /\ next_id \in Nat \ {0}
  /\ fetchers_ \in [Address -> Nat]
  /\ live \in [Address -> BOOLEAN]
  /\ pc \in [Caller -> {"idle", "bind", "register", "loaded", "perform",
                        "complete", "read"}]
  /\ fetcher \in [Caller -> Address]
  /\ boundId \in [Caller -> Nat]
  /\ loaderId \in [Caller -> Nat]

\* The entry of a registered fetcher holds the id bound for it, which is not
\* the 0 that stands for no entry.
CallbackBound ==
  \A c \in Caller :
    /\ pc[c] = "register" \/ Registered(c) => boundId[c] # 0
    /\ Registered(c) => fetchers_[fetcher[c]] = boundId[c]

\* A loader's id was taken from next_id before it was incremented.
HasLoader(c) == pc[c] \notin {"idle", "bind", "register"}
LoaderIdsTaken == \A c \in Caller : HasLoader(c) => loaderId[c] < next_id

IdsSound == LoaderIdsTaken /\ LoaderIdsDistinct
EntriesSound == EntriesAreCurrent /\ CallbackBound

\* Until calls of LoadURL overlap, next_id is the same when the callback is
\* bound and when the loader takes its id, and each answer keeps both.
IdsAgree ==
  ~ overlapped =>
    /\ \A c, d \in InLoadURL : c = d
    /\ \A c \in Caller : pc[c] = "register" => boundId[c] = next_id
    /\ \A c \in Caller : HasLoader(c) => boundId[c] = loaderId[c]
    /\ \A r \in replies : r.id = r.of

TableInv ==
  Types /\ FetcherOwnership /\ EntriesSound /\ IdsSound /\ IdsAgree
-----------------------------------------------------------------------------
\* Before any call of LoadURL the table is empty and no thread owns anything.
LEMMA InitTable == Init => TableInv
<1>1. AnyAddress \in Address
  BY UrlFetchAssumption DEF AnyAddress
<1> QED
  BY <1>1 DEF Init, TableInv, IdsSound, EntriesSound, Types, FetcherOwnership,
              EntriesAreCurrent, CallbackBound, LoaderIdsTaken, LoaderIdsDistinct, HasLoader,
              IdsAgree, InLoadURL, Owns, Registered

\* Every step keeps the types.
LEMMA TypesStep == Types /\ [Next]_vars => Types'
<1> SUFFICES ASSUME Types, [Next]_vars PROVE Types'
  OBVIOUS
<1> USE DEF Types, Step, heapVars, localVars, answerVars
<1>1. ASSUME NEW c \in Caller, Create(c) PROVE Types'
  BY <1>1 DEF Create
<1>2. ASSUME NEW c \in Caller, Bind(c) PROVE Types'
  BY <1>2 DEF Bind
<1>3. ASSUME NEW c \in Caller, Register(c) PROVE Types'
  BY <1>3 DEF Register
<1>4. ASSUME NEW c \in Caller, FileRequest(c) PROVE Types'
  BY <1>4 DEF FileRequest
<1>5. ASSUME NEW c \in Caller, Perform(c) PROVE Types'
  <2>1. Step(c, "perform", "complete")
    BY <1>5 DEF Perform
  <2> QED
    BY <1>5, <2>1 DEF Perform
<1>6. ASSUME NEW c \in Caller, LookUp(c) PROVE Types'
  BY <1>6 DEF LookUp
<1>7. ASSUME NEW c \in Caller, ReadAndDelete(c) PROVE Types'
  BY <1>7 DEF ReadAndDelete
<1>8. ASSUME NEW r \in replies, Deliver(r) PROVE Types'
  BY <1>8 DEF Deliver
<1>9. CASE UNCHANGED vars
  BY <1>9 DEF vars
<1> QED
  BY <1>1, <1>2, <1>3, <1>4, <1>5, <1>6, <1>7, <1>8, <1>9 DEF Next, FetchStep

\* A fetcher is given to the thread that creates it, at an address nobody owns,
\* and freed by the same thread when it goes idle.
LEMMA OwnershipStep ==
  Types /\ FetcherOwnership /\ Types' /\ [Next]_vars => FetcherOwnership'
<1> SUFFICES ASSUME Types, FetcherOwnership, Types', [Next]_vars
             PROVE  FetcherOwnership'
  OBVIOUS
<1> USE DEF Types, Step, heapVars, localVars, answerVars,
            FetcherOwnership, Owns
<1>1. ASSUME NEW c \in Caller, Create(c) PROVE FetcherOwnership'
  BY <1>1 DEF Create
<1>2. ASSUME NEW c \in Caller, Bind(c) PROVE FetcherOwnership'
  BY <1>2 DEF Bind
<1>3. ASSUME NEW c \in Caller, Register(c) PROVE FetcherOwnership'
  BY <1>3 DEF Register
<1>4. ASSUME NEW c \in Caller, FileRequest(c) PROVE FetcherOwnership'
  BY <1>4 DEF FileRequest
<1>5. ASSUME NEW c \in Caller, Perform(c) PROVE FetcherOwnership'
  BY <1>5 DEF Perform
<1>6. ASSUME NEW c \in Caller, LookUp(c) PROVE FetcherOwnership'
  BY <1>6 DEF LookUp
<1>7. ASSUME NEW c \in Caller, ReadAndDelete(c) PROVE FetcherOwnership'
  BY <1>7 DEF ReadAndDelete
<1>8. ASSUME NEW r \in replies, Deliver(r) PROVE FetcherOwnership'
  BY <1>8 DEF Deliver
<1>9. CASE UNCHANGED vars
  BY <1>9 DEF vars
<1> QED
  BY <1>1, <1>2, <1>3, <1>4, <1>5, <1>6, <1>7, <1>8, <1>9 DEF Next, FetchStep

\* A loader takes next_id and leaves it larger.
LEMMA LoaderIdsStep ==
  Types /\ IdsSound /\ Types' /\ [Next]_vars => IdsSound'
<1> SUFFICES ASSUME Types, IdsSound, Types', [Next]_vars PROVE IdsSound'
  OBVIOUS
<1> USE DEF Types, Step, heapVars, localVars, answerVars,
            IdsSound, LoaderIdsTaken, LoaderIdsDistinct, HasLoader
<1>1. ASSUME NEW c \in Caller, Create(c) PROVE IdsSound'
  BY <1>1 DEF Create
<1>2. ASSUME NEW c \in Caller, Bind(c) PROVE IdsSound'
  BY <1>2 DEF Bind
<1>3. ASSUME NEW c \in Caller, Register(c) PROVE IdsSound'
  BY <1>3 DEF Register
<1>4. ASSUME NEW c \in Caller, FileRequest(c) PROVE IdsSound'
  BY <1>4 DEF FileRequest
<1>5. ASSUME NEW c \in Caller, Perform(c) PROVE IdsSound'
  BY <1>5 DEF Perform
<1>6. ASSUME NEW c \in Caller, LookUp(c) PROVE IdsSound'
  BY <1>6 DEF LookUp
<1>7. ASSUME NEW c \in Caller, ReadAndDelete(c) PROVE IdsSound'
  BY <1>7 DEF ReadAndDelete
<1>8. ASSUME NEW r \in replies, Deliver(r) PROVE IdsSound'
  BY <1>8 DEF Deliver
<1>9. CASE UNCHANGED vars
  BY <1>9 DEF vars
<1> QED
  BY <1>1, <1>2, <1>3, <1>4, <1>5, <1>6, <1>7, <1>8, <1>9 DEF Next, FetchStep

\* An entry is made and erased for an address owned by the thread that does it,
\* so it disturbs no other fetcher's entry.
LEMMA EntriesStep ==
  Types /\ FetcherOwnership /\ EntriesSound /\ Types' /\ [Next]_vars
    => EntriesSound'
<1> SUFFICES ASSUME Types, FetcherOwnership, EntriesSound, Types', [Next]_vars
             PROVE  EntriesSound'
  OBVIOUS
<1> USE DEF Types, Step, heapVars, localVars, answerVars,
            FetcherOwnership, EntriesSound, EntriesAreCurrent, CallbackBound,
            Owns, Registered
<1>1. ASSUME NEW c \in Caller, Create(c) PROVE EntriesSound'
  BY <1>1 DEF Create
<1>2. ASSUME NEW c \in Caller, Bind(c) PROVE EntriesSound'
  BY <1>2 DEF Bind
<1>3. ASSUME NEW c \in Caller, Register(c) PROVE EntriesSound'
  BY <1>3 DEF Register
<1>4. ASSUME NEW c \in Caller, FileRequest(c) PROVE EntriesSound'
  BY <1>4 DEF FileRequest
<1>5. ASSUME NEW c \in Caller, Perform(c) PROVE EntriesSound'
  BY <1>5 DEF Perform
<1>6. ASSUME NEW c \in Caller, LookUp(c) PROVE EntriesSound'
  BY <1>6 DEF LookUp
<1>7. ASSUME NEW c \in Caller, ReadAndDelete(c) PROVE EntriesSound'
  BY <1>7 DEF ReadAndDelete
<1>8. ASSUME NEW r \in replies, Deliver(r) PROVE EntriesSound'
  BY <1>8 DEF Deliver
<1>9. CASE UNCHANGED vars
  BY <1>9 DEF vars
<1> QED
  BY <1>1, <1>2, <1>3, <1>4, <1>5, <1>6, <1>7, <1>8, <1>9 DEF Next, FetchStep

\* A thread that is alone in LoadURL binds and takes the same id; the answer is
\* made from the two.
LEMMA IdsAgreeStep ==
  Types /\ CallbackBound /\ IdsAgree /\ Types' /\ [Next]_vars => IdsAgree'
<1> SUFFICES ASSUME Types, CallbackBound, IdsAgree, Types', [Next]_vars
             PROVE  IdsAgree'
  OBVIOUS
<1> USE DEF Types, Step, heapVars, localVars, answerVars, IdsAgree, HasLoader,
            InLoadURL, CallbackBound, Registered
<1>1. ASSUME NEW c \in Caller, Create(c) PROVE IdsAgree'
  <2>1. /\ pc[c] = "idle" /\ pc' = [pc EXCEPT ![c] = "bind"]
        /\ overlapped' = (overlapped \/ InLoadURL # {})
        /\ UNCHANGED <<next_id, boundId, loaderId, replies>>
    BY <1>1 DEF Create
  <2>2. pc'[c] = "bind" /\ \A d \in Caller \ {c} : pc'[d] = pc[d]
    BY <2>1
  <2> QED
    BY <2>1, <2>2
<1>2. ASSUME NEW c \in Caller, Bind(c) PROVE IdsAgree'
  BY <1>2 DEF Bind
<1>3. ASSUME NEW c \in Caller, Register(c) PROVE IdsAgree'
  BY <1>3 DEF Register
<1>4. ASSUME NEW c \in Caller, FileRequest(c) PROVE IdsAgree'
  BY <1>4 DEF FileRequest
<1>5. ASSUME NEW c \in Caller, Perform(c) PROVE IdsAgree'
  BY <1>5 DEF Perform
<1>6. ASSUME NEW c \in Caller, LookUp(c) PROVE IdsAgree'
  BY <1>6 DEF LookUp
<1>7. ASSUME NEW c \in Caller, ReadAndDelete(c) PROVE IdsAgree'
  BY <1>7 DEF ReadAndDelete
<1>8. ASSUME NEW r \in replies, Deliver(r) PROVE IdsAgree'
  BY <1>8 DEF Deliver
<1>9. CASE UNCHANGED vars
  BY <1>9 DEF vars
<1> QED
  BY <1>1, <1>2, <1>3, <1>4, <1>5, <1>6, <1>7, <1>8, <1>9 DEF Next, FetchStep
-----------------------------------------------------------------------------
\* The strengthening that carries all five properties.
LEMMA TableInvariant == Spec => []TableInv
<1>1. Init => TableInv
  BY InitTable
<1>2. TableInv /\ [Next]_vars => TableInv'
  BY TypesStep, OwnershipStep, LoaderIdsStep, EntriesStep, IdsAgreeStep
     DEF TableInv, EntriesSound
<1> QED
  BY <1>1, <1>2, PTL DEF Spec

\* A fetcher is neither leaked nor shared nor read after OnURLFetchComplete has
\* deleted it, however its address is reused.
THEOREM FetchersAreOwned == Spec => []FetcherOwnership
<1>1. TableInv => FetcherOwnership
  BY DEF TableInv
<1> QED
  BY <1>1, TableInvariant, PTL

\* LoadURL never overwrites, and OnURLFetchComplete never leaves behind, the
\* callback of another request.
THEOREM EntriesBelong == Spec => []EntriesAreCurrent
<1>1. TableInv => EntriesAreCurrent
  BY DEF TableInv, EntriesSound
<1> QED
  BY <1>1, TableInvariant, PTL

\* OnURLFetchComplete finds the callback bound for its own fetcher: its early
\* return, which is there for Shutdown, is never taken.
THEOREM CompletionFindsCallback == Spec => []RegisteredAtCompletion
<1>1. TableInv => RegisteredAtCompletion
  BY DEF TableInv, EntriesSound, CallbackBound, Registered,
         RegisteredAtCompletion
<1> QED
  BY <1>1, TableInvariant, PTL

\* Loaders in use have distinct ids although LoadURL is called by any number of
\* threads at once.
THEOREM LoadersDistinct == Spec => []LoaderIdsDistinct
<1>1. TableInv => LoaderIdsDistinct
  BY DEF TableInv, IdsSound
<1> QED
  BY <1>1, TableInvariant, PTL

\* Until calls of LoadURL overlap, an answer has the id of the loader whose
\* fetch produced it, whatever the order of the fetches and the answers.
THEOREM AnswersMatch == Spec => []AnswersMatchRequests
<1>1. TableInv => AnswersMatchRequests
  BY DEF TableInv, IdsAgree, AnswersMatchRequests
<1> QED
  BY <1>1, TableInvariant, PTL
-----------------------------------------------------------------------------
(***************************************************************************)
(* The bounds of TypeOK.  A thread inside LoadURL is going to take an id,  *)
(* so next_id and those threads together stay below MaxRequests.           *)
(***************************************************************************)
IdsLeft ==
  IsFiniteSet(InLoadURL) /\ next_id + Cardinality(InLoadURL) <= MaxRequests + 1

Id == 0 .. MaxRequests

BoundedTypes ==
  /\ fetchers_ \in [Address -> Id]
  /\ code \in [Address -> Code]
  /\ boundId \in [Caller -> Id]
  /\ loaderId \in [Caller -> Id]
  /\ fetched \in [Caller -> {"ok", "http_error", "failed"}]
  /\ waiting \subseteq 1 .. MaxRequests
  /\ replies \subseteq Reply
  /\ \A c \in Caller : HasLoader(c) => loaderId[c] # 0

BoundsInv == Types /\ IdsLeft /\ BoundedTypes

\* While a thread is inside LoadURL there is an id left for it.
LEMMA IdLeft ==
  ASSUME Types, IdsLeft, NEW c \in InLoadURL
  PROVE  next_id \in 1 .. MaxRequests
<1>1. Cardinality(InLoadURL) \in Nat /\ Cardinality(InLoadURL) # 0
  BY FS_CardinalityType, FS_EmptySet DEF IdsLeft
<1> QED
  BY <1>1, UrlFetchAssumption DEF Types, IdsLeft

LEMMA IdsLeftStep ==
  ASSUME Types, IdsLeft, [Next]_vars PROVE IdsLeft'
<1> USE UrlFetchAssumption DEF Step, heapVars, localVars, answerVars
<1> DEFINE L == InLoadURL
<1>1. IsFiniteSet(L) /\ Cardinality(L) \in Nat /\ next_id \in Nat
  BY FS_CardinalityType DEF IdsLeft, Types
<1>2. CASE L' = L /\ next_id' = next_id
  BY <1>2 DEF IdsLeft
<1>3. ASSUME NEW c \in Caller, Create(c) PROVE IdsLeft'
  <2>1. L' = L \cup {c} /\ c \notin L
    BY <1>3 DEF Create, InLoadURL, Types
  <2>2. next_id' = next_id /\ next_id + Cardinality(L) <= MaxRequests
    BY <1>3 DEF Create
  <2> HIDE DEF L
  <2>3. IsFiniteSet(L') /\ Cardinality(L') = Cardinality(L) + 1
    BY <1>1, <2>1, FS_AddElement
  <2> QED
    BY <1>1, <2>2, <2>3 DEF IdsLeft, L
<1>4. ASSUME NEW c \in Caller, Register(c) PROVE IdsLeft'
  <2>1. L' = L \ {c} /\ c \in L
    BY <1>4 DEF Register, InLoadURL, Types
  <2>2. next_id' = next_id + 1 /\ next_id + Cardinality(L) <= MaxRequests + 1
    BY <1>4 DEF Register, IdsLeft
  <2> HIDE DEF L
  <2>3. IsFiniteSet(L') /\ Cardinality(L') = Cardinality(L) - 1
    BY <1>1, <2>1, FS_RemoveElement
  <2> QED
    BY <1>1, <2>2, <2>3 DEF IdsLeft, L
<1>5. ASSUME NEW c \in Caller, Bind(c) \/ FileRequest(c) \/ Perform(c)
                               \/ LookUp(c) \/ ReadAndDelete(c)
      PROVE  L' = L /\ next_id' = next_id
  BY <1>5 DEF Bind, FileRequest, Perform, LookUp, ReadAndDelete, InLoadURL, Types
<1>6. ASSUME NEW r \in replies, Deliver(r) PROVE L' = L /\ next_id' = next_id
  BY <1>6 DEF Deliver, InLoadURL
<1>7. CASE UNCHANGED vars
  BY <1>2, <1>7 DEF vars, InLoadURL
<1> QED
  BY <1>2, <1>3, <1>4, <1>5, <1>6, <1>7 DEF Next, FetchStep

\* Ids are taken from next_id, and only while there is one left.
LEMMA BoundedTypesStep ==
  ASSUME BoundsInv, [Next]_vars PROVE BoundedTypes'
<1> USE UrlFetchAssumption
    DEF BoundsInv, BoundedTypes, Types, Step, heapVars, localVars, answerVars, HasLoader
<1>1. ASSUME NEW c \in Caller, Create(c) PROVE BoundedTypes'
  BY <1>1 DEF Create
<1>2. ASSUME NEW c \in Caller, Bind(c) PROVE BoundedTypes'
  <2>1. next_id \in Id
    BY <1>2, IdLeft DEF Bind, InLoadURL, Id
  <2> QED
    BY <1>2, <2>1 DEF Bind
<1>3. ASSUME NEW c \in Caller, Register(c) PROVE BoundedTypes'
  <2>1. next_id \in Id /\ next_id # 0
    BY <1>3, IdLeft DEF Register, InLoadURL, Id
  <2> QED
    BY <1>3, <2>1 DEF Register
<1>4. ASSUME NEW c \in Caller, FileRequest(c) PROVE BoundedTypes'
  <2>1. loaderId[c] \in 1 .. MaxRequests
    BY <1>4 DEF FileRequest, Id
  <2> QED
    BY <1>4, <2>1 DEF FileRequest
<1>5. ASSUME NEW c \in Caller, Perform(c) PROVE BoundedTypes'
  <2>1. PICK r \in {"ok", "http_error", "failed"} :
          /\ fetched' = [fetched EXCEPT ![c] = r]
          /\ code' = IF r = "failed" THEN code ELSE [code EXCEPT ![fetcher[c]] = r]
    BY <1>5 DEF Perform
  <2>2. code' \in [Address -> Code]
    BY <2>1 DEF Code
  <2> QED
    BY <1>5, <2>1, <2>2 DEF Perform
<1>6. ASSUME NEW c \in Caller, LookUp(c) PROVE BoundedTypes'
  BY <1>6 DEF LookUp, Id
<1>7. ASSUME NEW c \in Caller, ReadAndDelete(c) PROVE BoundedTypes'
  <2>1. /\ boundId[c] \in Nat /\ loaderId[c] \in Nat
        /\ code[fetcher[c]] \in Code
        /\ fetched[c] \in {"ok", "http_error", "failed"}
    OBVIOUS
  <2>2. replies' \subseteq Reply
    BY <1>7, <2>1 DEF ReadAndDelete, Reply
  <2> QED
    BY <1>7, <2>2 DEF ReadAndDelete
<1>8. ASSUME NEW r \in replies, Deliver(r) PROVE BoundedTypes'
  BY <1>8 DEF Deliver
<1>9. CASE UNCHANGED vars
  BY <1>9 DEF vars
<1> QED
  BY <1>1, <1>2, <1>3, <1>4, <1>5, <1>6, <1>7, <1>8, <1>9 DEF Next, FetchStep

LEMMA BoundsInvariant == Spec => []BoundsInv
<1>1. Init => BoundsInv
  <2> SUFFICES ASSUME Init PROVE BoundsInv
    OBVIOUS
  <2>1. Types
    BY InitTable DEF TableInv
  <2>2. IdsLeft
    <3>1. InLoadURL = {} /\ next_id = 1
      BY DEF Init, InLoadURL
    <3> QED
      BY <3>1, FS_EmptySet, UrlFetchAssumption DEF IdsLeft
  <2>3. BoundedTypes
    BY UrlFetchAssumption DEF Init, BoundedTypes, Id, Code, HasLoader
  <2> QED
    BY <2>1, <2>2, <2>3 DEF BoundsInv
<1>2. BoundsInv /\ [Next]_vars => BoundsInv'
  BY TypesStep, IdsLeftStep, BoundedTypesStep DEF BoundsInv
<1> QED
  BY <1>1, <1>2, PTL DEF Spec

\* The types, with the ids of requests bounded: next_id is taken once for each
\* call of LoadURL, whatever the threads inside it do.
THEOREM Typing == Spec => []TypeOK
<1>1. BoundsInv => TypeOK
  <2> SUFFICES ASSUME BoundsInv PROVE TypeOK
    OBVIOUS
  <2>1. next_id \in 1 .. MaxRequests + 1
    BY FS_CardinalityType, UrlFetchAssumption DEF BoundsInv, IdsLeft, Types
  <2> QED
    BY <2>1 DEF BoundsInv, BoundedTypes, Types, TypeOK, Id
<1> QED
  BY <1>1, BoundsInvariant, PTL
-----------------------------------------------------------------------------
\* A filed request is being fetched, or its answer is on the way.
RequestsPending ==
  ~ overlapped =>
    \A i \in waiting :
      \/ \E c \in Caller : /\ pc[c] \in {"perform", "complete", "read"}
                           /\ loaderId[c] = i
      \/ \E r \in replies : r.id = i

LEMMA PendingStep ==
  ASSUME Types, CallbackBound, IdsAgree, RequestsPending, [Next]_vars
  PROVE  RequestsPending'
<1> USE DEF Types, RequestsPending, Step, heapVars, localVars, answerVars
<1>1. ASSUME NEW c \in Caller, Create(c) PROVE RequestsPending'
  BY <1>1 DEF Create
<1>2. ASSUME NEW c \in Caller, Bind(c) PROVE RequestsPending'
  BY <1>2 DEF Bind
<1>3. ASSUME NEW c \in Caller, Register(c) PROVE RequestsPending'
  BY <1>3 DEF Register
<1>4. ASSUME NEW c \in Caller, FileRequest(c) PROVE RequestsPending'
  BY <1>4 DEF FileRequest
<1>5. ASSUME NEW c \in Caller, Perform(c) PROVE RequestsPending'
  BY <1>5 DEF Perform
<1>6. ASSUME NEW c \in Caller, LookUp(c) PROVE RequestsPending'
  BY <1>6 DEF LookUp
<1>7. ASSUME NEW c \in Caller, ReadAndDelete(c) PROVE RequestsPending'
  <2>1. PICK r : r = [id |-> boundId[c], of |-> loaderId[c],
                      code |-> code[fetcher[c]], fetched |-> fetched[c]]
    OBVIOUS
  <2>2. /\ r.id = boundId[c] /\ replies' = replies \cup {r} /\ pc[c] = "read"
        /\ \A d \in Caller \ {c} : pc'[d] = pc[d]
        /\ UNCHANGED <<loaderId, waiting, overlapped>>
    BY <1>7, <2>1 DEF ReadAndDelete
  <2>3. ~ overlapped => boundId[c] = loaderId[c]
    BY <2>2 DEF IdsAgree, HasLoader
  <2> QED
    BY <2>2, <2>3
<1>8. ASSUME NEW r \in replies, Deliver(r) PROVE RequestsPending'
  BY <1>8 DEF Deliver
<1>9. CASE UNCHANGED vars
  BY <1>9 DEF vars
<1> QED
  BY <1>1, <1>2, <1>3, <1>4, <1>5, <1>6, <1>7, <1>8, <1>9 DEF Next, FetchStep

\* The safety part of RequestsAnswered: until calls of LoadURL overlap no
\* request the library has filed is dropped, failed transfers included
\* (Start, OnURLFetchComplete).  The rest is scheduling.
THEOREM NoRequestLost == Spec => []RequestsPending
<1>1. Init => RequestsPending
  BY DEF Init, RequestsPending
<1>2. TableInv /\ RequestsPending /\ [Next]_vars => RequestsPending'
  BY PendingStep DEF TableInv, EntriesSound
<1> QED
  BY <1>1, <1>2, TableInvariant, PTL DEF Spec
-----------------------------------------------------------------------------
(***************************************************************************)
(* AnsweredOnce.  Until calls of LoadURL overlap, a request that is filed  *)
(* is being fetched by one thread or has one answer on its way, and no id  *)
(* a loader still holds unfiled is in the library's table.                 *)
(***************************************************************************)
Fetching(c) == pc[c] \in {"perform", "complete", "read"}
FiledInv ==
  /\ \A r \in replies : r.id \in waiting
  /\ \A r, s \in replies : r.id = s.id => r = s
  /\ \A c \in Caller : pc[c] = "loaded" => loaderId[c] \notin waiting
  /\ \A c \in Caller : Fetching(c) =>
       loaderId[c] \in waiting /\ \A r \in replies : r.id # loaderId[c]
  /\ \A i \in waiting : i < next_id

OnceInv == Types /\ IdsSound /\ IdsAgree /\ BoundsInv /\ (~ overlapped => FiledInv)

\* The answer ReadAndDelete makes.
LEMMA MadeAnswer ==
  ASSUME Types, IdsAgree, ~ overlapped, NEW c \in Caller, ReadAndDelete(c)
  PROVE  \E r : /\ r.id = loaderId[c] /\ r.of = loaderId[c]
                /\ replies' = replies \cup {r}
                /\ boundId[c] = loaderId[c] /\ pc[c] = "read"
                /\ \A d \in Caller : pc'[d] = IF d = c THEN "idle" ELSE pc[d]
                /\ UNCHANGED <<next_id, loaderId, waiting>>
<1>1. PICK r : r = [id |-> boundId[c], of |-> loaderId[c],
                    code |-> code[fetcher[c]], fetched |-> fetched[c]]
  OBVIOUS
<1>2. /\ r.id = boundId[c] /\ r.of = loaderId[c]
      /\ replies' = replies \cup {r} /\ pc[c] = "read"
      /\ pc' = [pc EXCEPT ![c] = "idle"]
      /\ UNCHANGED <<next_id, loaderId, waiting>>
  BY <1>1 DEF ReadAndDelete, Step
<1>3. boundId[c] = loaderId[c]
  BY <1>2 DEF IdsAgree, HasLoader
<1>4. \A d \in Caller : pc'[d] = IF d = c THEN "idle" ELSE pc[d]
  BY <1>2 DEF Types
<1> QED
  BY <1>2, <1>3, <1>4

LEMMA FiledStep ==
  ASSUME Types, IdsSound, IdsAgree, waiting \subseteq Nat,
         ~ overlapped => FiledInv, [Next]_vars, ~ overlapped'
  PROVE  FiledInv'
<1> USE DEF Types, Step, heapVars, localVars, answerVars
<1>0. ~ overlapped /\ FiledInv
  <2>1. ASSUME NEW c \in Caller, Create(c) PROVE ~ overlapped
    BY <2>1 DEF Create
  <2>2. ASSUME NEW c \in Caller, FetchStep(c) PROVE overlapped' = overlapped
    BY <2>2 DEF FetchStep, Bind, Register, FileRequest, Perform, LookUp,
       ReadAndDelete
  <2>3. ASSUME NEW r \in replies, Deliver(r) PROVE overlapped' = overlapped
    BY <2>3 DEF Deliver
  <2> QED
    BY <2>1, <2>2, <2>3 DEF Next, vars
<1>1. ASSUME NEW c \in Caller, Register(c) PROVE FiledInv'
  <2>1. /\ next_id' = next_id + 1 /\ next_id \in Nat /\ next_id \notin waiting
        /\ \A d \in Caller : /\ pc'[d] = IF d = c THEN "loaded" ELSE pc[d]
                             /\ loaderId'[d] = IF d = c THEN next_id ELSE loaderId[d]
        /\ UNCHANGED <<waiting, replies>>
    BY <1>0, <1>1 DEF Register, FiledInv
  <2>2. \A i \in waiting : i < next_id'
    <3>1. \A i \in waiting : i < next_id
      BY <1>0 DEF FiledInv
    <3>2. ASSUME NEW i \in Nat, i < next_id PROVE i < next_id'
      BY <2>1, <3>2
    <3> QED
      BY <3>1, <3>2
  <2>3. \A d \in Caller : Fetching(d)' => Fetching(d) /\ d # c
    BY <2>1 DEF Fetching
  <2>4. \A d \in Caller : pc'[d] = "loaded" => loaderId'[d] \notin waiting
    BY <1>0, <2>1 DEF FiledInv
  <2>5. \A d \in Caller : Fetching(d)' =>
          loaderId'[d] \in waiting /\ \A r \in replies : r.id # loaderId'[d]
    BY <1>0, <2>1, <2>3 DEF FiledInv
  <2> QED
    BY <1>0, <2>1, <2>2, <2>4, <2>5 DEF FiledInv
<1>2. ASSUME NEW c \in Caller, FileRequest(c) PROVE FiledInv'
  <2>1. /\ pc[c] = "loaded" /\ waiting' = waiting \cup {loaderId[c]}
        /\ \A d \in Caller : pc'[d] = IF d = c THEN "perform" ELSE pc[d]
        /\ UNCHANGED <<next_id, loaderId, replies>>
    BY <1>2 DEF FileRequest
  <2>2. /\ loaderId[c] < next_id
        /\ \A d \in Caller : pc[d] = "loaded" /\ loaderId[d] = loaderId[c] => d = c
    BY <2>1 DEF IdsSound, LoaderIdsTaken, LoaderIdsDistinct, HasLoader
  <2> QED
    BY <1>0, <2>1, <2>2 DEF FiledInv, Fetching
<1>3. ASSUME NEW c \in Caller, ReadAndDelete(c) PROVE FiledInv'
  <2>1. PICK r : /\ r.id = loaderId[c] /\ replies' = replies \cup {r}
                 /\ boundId[c] = loaderId[c] /\ pc[c] = "read"
                 /\ \A d \in Caller : pc'[d] = IF d = c THEN "idle" ELSE pc[d]
                 /\ UNCHANGED <<next_id, loaderId, waiting>>
    BY <1>0, <1>3, MadeAnswer
  <2>2. \A d \in Caller : Fetching(d) /\ loaderId[d] = loaderId[c] => d = c
    BY <2>1 DEF IdsSound, LoaderIdsDistinct, Fetching
  <2> QED
    BY <1>0, <2>1, <2>2 DEF FiledInv, Fetching
<1>4. ASSUME NEW c \in Caller,
             pc[c] = "loaded" <=> pc'[c] = "loaded",
             Fetching(c) <=> Fetching(c)',
             \A d \in Caller \ {c} : pc'[d] = pc[d],
             UNCHANGED <<next_id, loaderId, waiting, replies>>
      PROVE  FiledInv'
  BY <1>0, <1>4 DEF FiledInv, Fetching
<1>5. ASSUME NEW c \in Caller, Create(c) \/ Bind(c) \/ Perform(c) \/ LookUp(c)
      PROVE  FiledInv'
  BY <1>4, <1>5 DEF Create, Bind, Perform, LookUp, Fetching
<1>6. ASSUME NEW r \in replies, Deliver(r) PROVE FiledInv'
  <2>1. /\ replies' = replies \ {r} /\ waiting' = waiting \ {r.id}
        /\ UNCHANGED <<next_id, pc, loaderId>>
    BY <1>6 DEF Deliver
  <2> QED
    BY <1>0, <2>1 DEF FiledInv, Fetching
<1>7. CASE UNCHANGED vars
  BY <1>0, <1>7 DEF vars, FiledInv, Fetching
<1> QED
  BY <1>1, <1>2, <1>3, <1>5, <1>6, <1>7 DEF Next, FetchStep

LEMMA OnceInvariant == Spec => []OnceInv
<1>1. Init => FiledInv
  BY DEF Init, FiledInv, Fetching
<1>2. /\ TableInv /\ BoundsInv /\ (~ overlapped => FiledInv) /\ [Next]_vars
      => (~ overlapped => FiledInv)'
  <2>1. BoundsInv => waiting \subseteq Nat
    BY UrlFetchAssumption DEF BoundsInv, BoundedTypes
  <2> QED
    BY <2>1, FiledStep DEF TableInv
<1>3. TableInv /\ BoundsInv /\ (~ overlapped => FiledInv) => OnceInv
  BY DEF TableInv, OnceInv
<1> QED
  BY <1>1, <1>2, <1>3, TableInvariant, BoundsInvariant, PTL DEF Spec

\* Until calls of LoadURL overlap, every step is a step of Callbacks or changes
\* nothing it sees.
LEMMA AnswersSteps ==
  ASSUME OnceInv, [Next]_vars, ~ overlapped
  PROVE  [Answers!Next]_(Answers!vars)
<1> DEFINE ready == {r.of : r \in replies}
<1> USE DEF OnceInv, Types, Step, heapVars, localVars, answerVars
<1>0. /\ FiledInv /\ waiting \subseteq 1 .. MaxRequests
      /\ \A r \in replies : r.id = r.of
  BY DEF BoundsInv, BoundedTypes, IdsAgree
<1>1. \A n \in 1 .. MaxRequests :
        Answers!Make(n) \/ Answers!Complete(n) \/ Answers!Answer(n) => Answers!Next
  BY DEF Answers!Next
<1>2. ASSUME Filed' = Filed, UNCHANGED <<waiting, replies>>
      PROVE  UNCHANGED Answers!vars
  BY <1>2 DEF Answers!vars
<1>3. ASSUME next_id' = next_id, loaderId' = loaderId,
             \A d \in Caller : pc'[d] = "loaded" <=> pc[d] = "loaded"
      PROVE  Filed' = Filed
  BY <1>3 DEF Filed
<1>4. ASSUME NEW c \in Caller, Create(c) \/ Bind(c) \/ Perform(c) \/ LookUp(c)
      PROVE  UNCHANGED Answers!vars
  <2>1. /\ \A d \in Caller : pc'[d] = "loaded" <=> pc[d] = "loaded"
        /\ UNCHANGED <<next_id, loaderId, waiting, replies>>
    BY <1>4 DEF Create, Bind, Perform, LookUp
  <2> QED
    BY <1>2, <1>3, <2>1
<1>5. ASSUME NEW c \in Caller, Register(c) PROVE UNCHANGED Answers!vars
  <2>1. /\ next_id' = next_id + 1 /\ next_id \in Nat \ {0}
        /\ \A d \in Caller : /\ pc'[d] = IF d = c THEN "loaded" ELSE pc[d]
                             /\ loaderId'[d] = IF d = c THEN next_id ELSE loaderId[d]
        /\ pc[c] = "register" /\ UNCHANGED <<waiting, replies>>
    BY <1>5 DEF Register
  <2>2. ASSUME NEW i \in 1 .. next_id' - 1 PROVE i \in Filed' <=> i \in Filed
    <3>1. i = next_id => i \notin Filed' /\ i \notin Filed
      BY <2>1 DEF Filed
    <3>2. ASSUME i # next_id
          PROVE  /\ i \in 1 .. next_id - 1
                 /\ \A d \in Caller : pc'[d] = "loaded" /\ loaderId'[d] = i
                                     <=> pc[d] = "loaded" /\ loaderId[d] = i
      BY <2>1, <3>2
    <3> QED
      BY <3>1, <3>2 DEF Filed
  <2>3. Filed' \subseteq 1 .. next_id' - 1 /\ Filed \subseteq 1 .. next_id' - 1
    BY <2>1 DEF Filed
  <2>4. Filed' = Filed
    BY <2>2, <2>3
  <2> QED
    BY <1>2, <2>1, <2>4
<1>6. ASSUME NEW c \in Caller, FileRequest(c) PROVE Answers!Next
  <2>1. /\ pc[c] = "loaded" /\ waiting' = waiting \cup {loaderId[c]}
        /\ \A d \in Caller : pc'[d] = IF d = c THEN "perform" ELSE pc[d]
        /\ UNCHANGED <<next_id, loaderId, replies>>
    BY <1>6 DEF FileRequest
  <2>2. PICK n \in 1 .. MaxRequests : n = loaderId[c]
    BY <2>1, UrlFetchAssumption DEF BoundsInv, BoundedTypes, HasLoader, Id
  <2>3. n \in 1 .. next_id - 1
    BY <2>1, <2>2 DEF IdsSound, LoaderIdsTaken, HasLoader
  <2>4. \A d \in Caller : pc[d] = "loaded" /\ loaderId[d] = n => d = c
    BY <2>1, <2>2 DEF IdsSound, LoaderIdsDistinct
  <2>5. n \notin Filed /\ Filed' = Filed \cup {n}
    BY <2>1, <2>2, <2>3, <2>4 DEF Filed
  <2>6. Answers!Make(n)
    BY <2>1, <2>2, <2>5 DEF Answers!Make
  <2> QED
    BY <1>1, <2>6
<1>7. ASSUME NEW c \in Caller, ReadAndDelete(c) PROVE Answers!Next
  <2>1. PICK r : /\ r.of = loaderId[c] /\ replies' = replies \cup {r}
                 /\ boundId[c] = loaderId[c] /\ pc[c] = "read"
                 /\ \A d \in Caller : pc'[d] = IF d = c THEN "idle" ELSE pc[d]
                 /\ UNCHANGED <<next_id, loaderId, waiting>>
    BY <1>7, MadeAnswer
  <2>2. /\ loaderId[c] \in waiting
        /\ \A s \in replies : s.id # loaderId[c]
    BY <1>0, <2>1 DEF FiledInv, Fetching
  <2>3. PICK n \in 1 .. MaxRequests : n = loaderId[c]
    BY <1>0, <2>2
  <2>4. Filed' = Filed
    BY <1>3, <2>1
  <2>5. {s.of : s \in replies'} = ready \cup {n}
    BY <2>1, <2>3
  <2>6. n \in waiting /\ n \notin ready
    BY <1>0, <2>2, <2>3
  <2>7. Answers!Complete(n)
    BY <2>1, <2>4, <2>5, <2>6 DEF Answers!Complete
  <2> QED
    BY <1>1, <2>7
<1>8. ASSUME NEW r \in replies, Deliver(r) PROVE Answers!Next
  <2>1. /\ replies' = replies \ {r} /\ waiting' = waiting \ {r.id}
        /\ UNCHANGED <<next_id, pc, loaderId>>
    BY <1>8 DEF Deliver
  <2>2. Filed' = Filed
    BY <2>1 DEF Filed
  <2>3. /\ r.id \in 1 .. MaxRequests /\ r.id \in ready
        /\ \A s \in replies : s.of = r.id => s = r
    BY <1>0 DEF FiledInv
  <2>4. {s.of : s \in replies'} = ready \ {r.id}
    BY <1>0, <2>1, <2>3
  <2>5. Answers!Answer(r.id)
    BY <2>1, <2>2, <2>3, <2>4 DEF Answers!Answer
  <2> QED
    BY <1>1, <2>3, <2>5
<1>9. CASE UNCHANGED vars
  BY <1>2, <1>9 DEF vars, Filed
<1> QED
  BY <1>4, <1>5, <1>6, <1>7, <1>8, <1>9 DEF Next, FetchStep

\* LoadURL and OnURLFetchComplete implement Callbacks until calls of LoadURL
\* overlap: a request is filed under an id of its own, and its handler is called
\* once at most, with the answer fetched for it, in whatever order fetches end.
THEOREM RequestsImplementCallbacks == Spec => AnsweredOnce
<1>1. Init => Answers!Init
  BY DEF Init, Answers!Init, Filed
<1>2. OnceInv /\ [Next]_vars => [overlapped \/ Answers!Next]_(Answers!vars)
  BY AnswersSteps
<1> QED
  BY <1>1, <1>2, OnceInvariant, PTL DEF Spec, AnsweredOnce
=============================================================================

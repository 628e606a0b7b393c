------------------------ MODULE PublisherInfoDatabase ------------------------
(***************************************************************************)
(* PublisherInfoDatabase: Init, run on first use by every operation, opens *)
(* the SQLite file and creates the schema in one transaction; afterwards   *)
(* each statement commits by itself.  An operation of several statements   *)
(* is therefore not atomic.                                                *)
(*                                                                         *)
(* SQLite is external: a statement runs atomically or throws, a            *)
(* transaction that is not committed is lost when its connection closes or *)
(* the process dies, and foreign keys are not enforced (no PRAGMA, no      *)
(* build option asks for them).                                            *)
(*                                                                         *)
(* A row is reduced to its key.  activity_info is keyed in intent by       *)
(* publisher and period (category, month, year, reconcile_stamp), but the  *)
(* table has no such constraint: the model counts the rows of each key.    *)
(***************************************************************************)
EXTENDS Naturals, Sequences, FiniteSets

CONSTANTS
  Caller,        \* threads in library code
  Publisher, Period, MediaKey,
  NoPeriod,      \* month or year is 0: no activity row is written
  NoPublisher,   \* no row for a media key
  DiskVersions   \* last_compatible_version found on disk; 0 is a new file

ASSUME DatabaseAssumption ==
  /\ NoPeriod \notin Period /\ NoPublisher \notin Publisher
  /\ DiskVersions \subseteq Nat

kCurrentVersionNumber == 1
kCompatibleVersionNumber == 1

\* What Init creates, in its order.
Tables == << "meta", "publisher_info", "contribution_info", "activity_info",
             "media_publisher_info", "recurring_donation" >>
AllTables == {Tables[i] : i \in 1 .. Len(Tables)}

VARIABLES
  disk,          \* the committed contents of the file
  work,          \* the contents as the connection db_ sees them
  inTransaction, \* db_ has an open transaction
  initialized_,
  pc, op,        \* per caller: where it is, and the call it is making
  created,       \* tables the running Init has created
  acked,         \* <<publisher, period>> of every save that returned true
  ackedMedia     \* the media keys of every save that returned true

dbVars == <<disk, work, inTransaction, initialized_>>
ackVars == <<acked, ackedMedia>>
vars == <<dbVars, pc, op, created, ackVars>>

EmptyImage(v) ==
  [version      |-> v,
   tables       |-> IF v = 0 THEN {} ELSE AllTables,
   publishers   |-> {},
   activity     |-> [k \in Publisher \X Period |-> 0],
   media        |-> [m \in MediaKey |-> NoPublisher],
   recurring    |-> {},
   contributors |-> {}]

NoOp == [kind |-> "none"]
SaveOp(p, t) == [kind |-> "publisher", publisher |-> p, period |-> t]
Ops ==
  {SaveOp(p, t) : p \in Publisher, t \in Period \cup {NoPeriod}}
  \cup {[kind |-> "find", publisher |-> p, period |-> t] :
          p \in Publisher, t \in Period}
  \cup {[kind |-> "media", publisher |-> p, key |-> m] :
          p \in Publisher, m \in MediaKey}
  \cup {[kind |-> "load_media", key |-> m] : m \in MediaKey}
  \cup {[kind |-> k, publisher |-> p] :
          k \in {"contribution", "recurring", "remove"}, p \in Publisher}
  \cup {[kind |-> "list"]}

Init ==
  /\ \E v \in DiskVersions : disk = EmptyImage(v)
  /\ work = disk
  /\ inTransaction = FALSE
  /\ initialized_ = FALSE
  /\ pc = [c \in Caller |-> "idle"]
  /\ op = [c \in Caller |-> NoOp]
  /\ created = 0
  /\ acked = {} /\ ackedMedia = {}

Goto(c, step) == pc' = [pc EXCEPT ![c] = step]
Return(c) == Goto(c, "idle") /\ op' = [op EXCEPT ![c] = NoOp]

\* A statement's effect: within the transaction, or committed at once.
Write(image) ==
  /\ work' = image
  /\ disk' = IF inTransaction THEN disk ELSE image
  /\ UNCHANGED inTransaction

\* Mutated form of FirstStatement: the publisher is not inserted first.
FirstStatementActivity(o) ==
  CASE o.kind = "publisher" /\ o.period # NoPeriod -> "select"
    [] o.kind = "publisher" -> "insert_publisher"
    [] o.kind \in {"find", "load_media"} -> o.kind
    [] OTHER                -> "statement"

FirstStatement(o) ==
  CASE o.kind = "publisher" -> "insert_publisher"
    [] o.kind \in {"find", "load_media"} -> o.kind
    [] OTHER                -> "statement"
-----------------------------------------------------------------------------
(***************************************************************************)
(* Every operation begins with Init().  initialized_ and db_ have no lock; *)
(* until Init has committed the model lets one caller in at a time.        *)
(***************************************************************************)
Call(c, o) ==
  /\ pc[c] = "idle"
  /\ ~ initialized_ => \A d \in Caller : pc[d] = "idle"
  /\ op' = [op EXCEPT ![c] = o]
  /\ Goto(c, IF initialized_ THEN FirstStatement(o) ELSE "open")
  /\ UNCHANGED <<dbVars, created, ackVars>>

\* db_ = make_unique<database>(...): the former connection is closed, and
\* with it a transaction an earlier Init left open.
Open(c) ==
  /\ pc[c] = "open"
  /\ work' = disk
  /\ inTransaction' = FALSE
  /\ created' = 0
  /\ Goto(c, "begin")
  /\ UNCHANGED <<disk, initialized_, op, ackVars>>

\* Mutated form of Begin: no transaction.
BeginNothing(c) ==
  /\ pc[c] = "begin"
  /\ Goto(c, "create")
  /\ UNCHANGED <<dbVars, op, created, ackVars>>

Begin(c) ==
  /\ pc[c] = "begin"
  /\ inTransaction' = TRUE
  /\ Goto(c, "create")
  /\ UNCHANGED <<disk, work, initialized_, op, created, ackVars>>

\* MetaTableInit and the Create...Table functions.  The index functions change
\* nothing modelled here and their results are ignored.
Create(c) ==
  /\ pc[c] = "create"
  /\ created' = created + 1
  /\ LET t == Tables[created + 1]
     IN  Write([work EXCEPT !.tables = @ \cup {t},
                            !.version = IF t = "meta"
                                        THEN kCompatibleVersionNumber ELSE @])
  /\ Goto(c, IF created' = Len(Tables) THEN "version" ELSE "create")
  /\ UNCHANGED <<initialized_, op, ackVars>>

EnsureCurrentVersion(c) ==
  /\ pc[c] = "version"
  /\ IF work.version > kCurrentVersionNumber
     THEN Return(c)
     ELSE Goto(c, "commit") /\ UNCHANGED op
  /\ UNCHANGED <<dbVars, created, ackVars>>

\* Mutated form of Commit: initialized_ is set, the transaction stays open.
CommitForgotten(c) ==
  /\ pc[c] = "commit"
  /\ initialized_' = TRUE
  /\ Goto(c, FirstStatement(op[c]))
  /\ UNCHANGED <<disk, inTransaction, work, op, created, ackVars>>

Commit(c) ==
  /\ pc[c] = "commit"
  /\ disk' = work
  /\ inTransaction' = FALSE
  /\ initialized_' = TRUE
  /\ Goto(c, FirstStatement(op[c]))
  /\ UNCHANGED <<work, op, created, ackVars>>

\* An SQLite error during Init.  Open and begin have nothing to undo; a
\* failing Create... or version check returns false with the transaction
\* still open; a failing commit is followed by a rollback, which may fail.
InitFails(c) ==
  /\ pc[c] \in {"open", "begin", "create", "version", "commit"}
  /\ Return(c)
  /\ \/ UNCHANGED <<work, inTransaction>>
     \/ pc[c] = "commit" /\ work' = disk /\ inTransaction' = FALSE
  /\ UNCHANGED <<disk, initialized_, created, ackVars>>
-----------------------------------------------------------------------------
(***************************************************************************)
(* InsertOrUpdatePublisherInfo: three statements.  It returns true without *)
(* a period, and after an UPDATE; after the INSERT of a new activity row   *)
(* "succeded" is still false.                                              *)
(***************************************************************************)
Key(c) == << op[c].publisher, op[c].period >>

\* Mutated form of Ack: the parameters in the wrong order.
AckSwapped(c) ==
  acked' = acked \cup {<< op[c].period, op[c].publisher >>} /\ UNCHANGED ackedMedia
Ack(c) == acked' = acked \cup {Key(c)} /\ UNCHANGED ackedMedia

\* Mutated form of InsertPublisher: the replaced row takes its activity rows
\* along, as ON DELETE CASCADE would if foreign keys were enforced.
InsertPublisherCascade(c) ==
  /\ pc[c] = "insert_publisher"
  /\ Write([work EXCEPT !.publishers = @ \cup {op[c].publisher},
       !.activity = [k \in DOMAIN @ |-> IF k[1] = op[c].publisher THEN 0 ELSE @[k]]])
  /\ IF op[c].period = NoPeriod
     THEN Return(c) /\ Ack(c)
     ELSE Goto(c, "select") /\ UNCHANGED <<op, ackVars>>
  /\ UNCHANGED <<initialized_, created>>

InsertPublisher(c) ==
  /\ pc[c] = "insert_publisher"
  /\ Write([work EXCEPT !.publishers = @ \cup {op[c].publisher}])
  /\ IF op[c].period = NoPeriod
     THEN Return(c) /\ Ack(c)
     ELSE Goto(c, "select") /\ UNCHANGED <<op, ackVars>>
  /\ UNCHANGED <<initialized_, created>>

\* Mutated form of SelectActivity: the row is never found.
SelectNothing(c) ==
  /\ pc[c] = "select"
  /\ Goto(c, "insert_activity")
  /\ UNCHANGED <<dbVars, op, created, ackVars>>

SelectActivity(c) ==
  /\ pc[c] = "select"
  /\ Goto(c, IF work.activity[Key(c)] > 0 THEN "update" ELSE "insert_activity")
  /\ UNCHANGED <<dbVars, op, created, ackVars>>

\* Every row of the key is updated; their number does not change.
UpdateActivity(c) ==
  /\ pc[c] = "update"
  /\ Return(c) /\ Ack(c)
  /\ UNCHANGED <<dbVars, created>>

InsertActivity(c) ==
  /\ pc[c] = "insert_activity"
  /\ Write([work EXCEPT !.activity[Key(c)] = @ + 1])
  /\ Return(c)
  /\ UNCHANGED <<initialized_, created, ackVars>>

(***************************************************************************)
(* The operations of one statement.  InsertOrUpdateMediaPublisherInfo      *)
(* answers true; InsertContributionInfo and InsertOrUpdateRecurringDonation*)
(* never set "succeded"; RemoveRecurring hands SQLite a DELETE without its *)
(* operand, which cannot be prepared, so nothing is ever removed.  The     *)
(* lists of donations and tips and Count only read.                        *)
(***************************************************************************)
Statement(c) ==
  LET o == op[c] IN
  /\ pc[c] = "statement"
  /\ \/ o.kind = "media"
        /\ Write([work EXCEPT !.media[o.key] = o.publisher])
     \/ o.kind = "contribution"
        /\ Write([work EXCEPT !.contributors = @ \cup {o.publisher}])
     \/ o.kind = "recurring"
        /\ Write([work EXCEPT !.recurring = @ \cup {o.publisher}])
     \/ /\ o.kind \in {"remove", "list"}
        /\ UNCHANGED <<disk, work, inTransaction>>
  /\ ackedMedia' = IF o.kind = "media" THEN ackedMedia \cup {o.key}
                                        ELSE ackedMedia
  /\ Return(c)
  /\ UNCHANGED <<initialized_, created, acked>>

\* LoadPublisherInfo: Find with limit 2, judged by OnPublisherInfoLoaded.
Rows(c) ==
  IF op[c].publisher \in work.publishers THEN work.activity[Key(c)] ELSE 0

OnPublisherInfoLoaded(rows) ==
  CASE rows = 0 -> "NOT_FOUND"
    [] rows > 1 -> "TOO_MANY_RESULTS"
    [] OTHER    -> "LEDGER_OK"

Find(c) ==
  /\ pc[c] = "find"
  /\ Return(c)
  /\ UNCHANGED <<dbVars, created, ackVars>>

\* The process dies, at any time, and is started again.  OnMediaPublisherInfo-
\* Loaded, on a thread of its own, is one cause: it dereferences the null info
\* of a key that is not found, of a statement or an Init that failed.
Crash ==
  /\ work' = disk
  /\ inTransaction' = FALSE
  /\ initialized_' = FALSE
  /\ pc' = [c \in Caller |-> "idle"]
  /\ op' = [c \in Caller |-> NoOp]
  /\ created' = 0
  /\ UNCHANGED <<disk, ackVars>>

\* GetMediaPublisherInfo joins the key with its publisher.
MediaFound(c) == work.media[op[c].key] \in work.publishers

LoadMedia(c) ==
  /\ pc[c] = "load_media" /\ MediaFound(c)
  /\ Return(c)
  /\ UNCHANGED <<dbVars, created, ackVars>>

LoadMediaNotFound(c) == pc[c] = "load_media" /\ ~ MediaFound(c) /\ Crash

\* SQLite throws.  The operation returns false (a failed Find leaves the list
\* empty); the statements before it stay committed.
StatementFails(c) ==
  /\ pc[c] \in {"insert_publisher", "select", "update", "insert_activity",
                "statement", "find", "load_media"}
  /\ Return(c)
  /\ UNCHANGED <<dbVars, created, ackVars>>

InitStep(c) ==
  \/ Open(c) \/ Begin(c) \/ Create(c) \/ EnsureCurrentVersion(c) \/ Commit(c)
OpStep(c) ==
  \/ InsertPublisher(c) \/ SelectActivity(c) \/ UpdateActivity(c)
  \/ InsertActivity(c) \/ Statement(c) \/ Find(c) \/ LoadMedia(c)

Next ==
  \/ \E c \in Caller : \/ \E o \in Ops : Call(c, o)
                       \/ InitStep(c) \/ InitFails(c)
                       \/ OpStep(c) \/ StatementFails(c)
                       \/ LoadMediaNotFound(c)
  \/ Crash

Spec == Init /\ [][Next]_vars
-----------------------------------------------------------------------------
Image ==
  [version : Nat, tables : SUBSET AllTables, publishers : SUBSET Publisher,
   activity : [Publisher \X Period -> Nat],
   media : [MediaKey -> Publisher \cup {NoPublisher}],
   recurring : SUBSET Publisher, contributors : SUBSET Publisher]

Steps == {"idle", "open", "begin", "create", "version", "commit",
          "insert_publisher", "select", "update", "insert_activity",
          "statement", "find", "load_media"}

TypeOK ==
  /\ disk \in Image /\ work \in Image
  /\ inTransaction \in BOOLEAN /\ initialized_ \in BOOLEAN
  /\ pc \in [Caller -> Steps]
  /\ op \in [Caller -> Ops \cup {NoOp}]
  /\ created \in 0 .. Len(Tables)
  /\ acked \in SUBSET (Publisher \X (Period \cup {NoPeriod}))
  /\ ackedMedia \in SUBSET MediaKey

\* Init is all or nothing on disk: a crash or an error between two of its
\* statements never leaves a file with part of the schema, and a retried Init
\* starts from what is committed.
SchemaAtomic == disk.tables \in {{}, AllTables}

\* Init reports success only when the whole schema is committed and no
\* transaction is open: what later statements write is not at the mercy of a
\* transaction nobody will commit.
InitializedMeansCommitted ==
  initialized_ => disk.tables = AllTables /\ ~ inTransaction

KeysAreDurable ==
  \A k \in acked :
    /\ k[1] \in disk.publishers
    /\ k[2] \in Period => disk.activity[k] > 0
MediaAreDurable == \A m \in ackedMedia : disk.media[m] # NoPublisher

\* A save that returned true is on disk, and stays there through crashes.
AckedIsDurable == KeysAreDurable /\ MediaAreDurable

\* InsertOrUpdatePublisherInfo selects and then inserts, in two statements:
\* a key gets more than one activity row only if saves of it overlap, so never
\* more rows than there are threads, however often it is saved.
ActivityRowsBounded ==
  \A k \in Publisher \X Period : disk.activity[k] <= Cardinality(Caller)

\* LoadPublisherInfo, comment "set limit to 2 to make sure there is only 1
\* valid result for the filter": the answer is never ambiguous.
LoadIsUnambiguous ==
  \A c \in Caller :
    pc[c] = "find" => OnPublisherInfoLoaded(Rows(c)) # "TOO_MANY_RESULTS"

\* EnsureCurrentVersion, comment "We can't read databases newer than we were
\* designed for": Init never succeeds on such a file.
TooNewIsRefused ==
  [][~ initialized_ /\ initialized_' => disk.version <= kCurrentVersionNumber]_vars

\* The tables declare FOREIGN KEY (publisher_id) but SQLite does not enforce
\* it; for activity_info the order of InsertOrUpdatePublisherInfo's statements
\* does: whatever fails or dies in between, a row has its publisher, without
\* which Find's join would hide it.
ActivityHasPublisher ==
  \A k \in Publisher \X Period : disk.activity[k] > 0 => k[1] \in disk.publishers

\* What is saved, as Find and GetMediaPublisherInfo would have it: a publisher,
\* a publisher with an activity row, a media key.
SavedKeys ==
  {k \in Publisher \X (Period \cup {NoPeriod}) :
     k[1] \in disk.publishers /\ (k[2] = NoPeriod \/ disk.activity[k] > 0)}
SavedMedia == {m \in MediaKey : disk.media[m] # NoPublisher}

Saves == INSTANCE DurableSaves WITH
           Item <- Publisher \X (Period \cup {NoPeriod}),
           saved <- SavedKeys, acked <- acked
MediaSaves == INSTANCE DurableSaves WITH
           Item <- MediaKey, saved <- SavedMedia, acked <- ackedMedia

\* With threads interleaving statements, failing and dying between any two, the
\* database still keeps DurableSaves' promise: a row that is there is there for
\* good, whatever INSERT OR REPLACE and a retried Init do to its table, and an
\* answer of true comes with the row or after it.
SavesAreDurable == Saves!Spec /\ MediaSaves!Spec
=============================================================================

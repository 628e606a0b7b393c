-------------------- MODULE PublisherInfoDatabase_proofs --------------------
(***************************************************************************)
(* For every set of threads, publishers, periods and media keys, with      *)
(* SQLite errors and crashes anywhere: Init is all or nothing on disk, it  *)
(* succeeds only with the schema committed, what a save acknowledged stays *)
(* on disk, and an activity row has its publisher.                         *)
(***************************************************************************)
EXTENDS PublisherInfoDatabase, FiniteSetTheorems, TLAPS

USE DEF ackVars

InitSteps == {"open", "begin", "create", "version", "commit"}
SaveSteps == {"select", "update", "insert_activity"}

Types ==
  /\ disk \in Image /\ work \in Image
  /\ inTransaction \in BOOLEAN /\ initialized_ \in BOOLEAN
  /\ pc \in [Caller -> Steps]
  /\ op \in [Caller -> Ops \cup {NoOp}]
  /\ created \in 0 .. 6
  /\ acked \subseteq Publisher \X (Period \cup {NoPeriod})
  /\ ackedMedia \subseteq MediaKey

\* A save past its first statement is of a publisher and a period.
OpsFit ==
  \A c \in Caller :
    /\ pc[c] \in SaveSteps \cup {"insert_publisher"} => op[c].kind = "publisher"
    /\ pc[c] \in SaveSteps => op[c].period # NoPeriod

\* Until Init has committed at most one caller is active, and it is in Init.
OneInit ==
  ~ initialized_ =>
    /\ \A c \in Caller : pc[c] \in InitSteps \cup {"idle"}
    /\ \A c, d \in Caller : pc[c] # "idle" /\ pc[d] # "idle" => c = d

\* Afterwards nobody is in Init.
NoneInit == initialized_ => \A c \in Caller : pc[c] \notin InitSteps

\* What the connection sees is what is committed, except for the schema that
\* a transaction of Init is building.
Transaction ==
  /\ ~ inTransaction => work = disk
  /\ initialized_ => ~ inTransaction
  /\ \A c \in Caller :
       /\ pc[c] = "begin" => ~ inTransaction /\ created = 0
       /\ pc[c] = "create" =>
            /\ inTransaction /\ created < 6
            /\ \A i \in 1 .. created : Tables[i] \in work.tables
       /\ pc[c] \in {"version", "commit"} =>
            inTransaction /\ work.tables = AllTables

Schema == SchemaAtomic /\ InitializedMeansCommitted

Phases == OneInit /\ NoneInit /\ Transaction /\ Schema

\* Rows are written only after Init.
RowsCommitted ==
  work.publishers = disk.publishers /\ work.activity = disk.activity

\* A save past its first statement has its publisher on disk, and one about to
\* update has its activity row.
SavesProgress ==
  \A c \in Caller :
    /\ pc[c] \in SaveSteps => op[c].publisher \in disk.publishers
    /\ pc[c] = "update" => disk.activity[Key(c)] > 0

RowsSound == RowsCommitted /\ SavesProgress /\ KeysAreDurable /\ ActivityHasPublisher

\* So are media keys; they only ever change to a publisher.
MediaSound == work.media = disk.media /\ MediaAreDurable

DatabaseInv == Types /\ OpsFit /\ Phases /\ RowsSound /\ MediaSound
-----------------------------------------------------------------------------
\* The operations that can be in progress, field by field.
LEMMA OpFields ==
  ASSUME NEW o \in Ops \cup {NoOp}
  PROVE  /\ o.kind = "publisher" =>
              o.publisher \in Publisher /\ o.period \in Period \cup {NoPeriod}
         /\ o.kind = "media" => o.publisher \in Publisher /\ o.key \in MediaKey
         /\ o.kind \in {"contribution", "recurring"} => o.publisher \in Publisher
  BY DEF Ops, NoOp, SaveOp

\* Tables, counted.
LEMMA TablesFacts ==
  /\ Len(Tables) = 6
  /\ AllTables = {Tables[i] : i \in 1 .. 6}
  /\ \A i \in 1 .. 6 : Tables[i] \in AllTables
  BY DEF Tables, AllTables

\* An image with one more publisher or reference.
LEMMA AddPublisher ==
  ASSUME NEW image \in Image, NEW p \in Publisher,
         NEW new, new = [image EXCEPT !.publishers = @ \cup {p}]
  PROVE  /\ new \in Image
         /\ new.tables = image.tables
         /\ new.publishers = image.publishers \cup {p}
         /\ new.activity = image.activity
         /\ new.media = image.media
  BY DEF Image

LEMMA AddReference ==
  ASSUME NEW image \in Image, NEW p \in Publisher, NEW new,
         \/ new = [image EXCEPT !.contributors = @ \cup {p}]
         \/ new = [image EXCEPT !.recurring = @ \cup {p}]
  PROVE  /\ new \in Image
         /\ new.tables = image.tables
         /\ new.publishers = image.publishers
         /\ new.activity = image.activity
         /\ new.media = image.media
  BY DEF Image
-----------------------------------------------------------------------------
\* A save past its first statement has a key of the activity table.
LEMMA KeyFits ==
  ASSUME Types, OpsFit, NEW c \in Caller, pc[c] \in SaveSteps
  PROVE  /\ Key(c) = << op[c].publisher, op[c].period >>
         /\ Key(c) \in Publisher \X Period
  <1>1. op[c] \in Ops \cup {NoOp}
    BY DEF Types
  <1>2. op[c].kind = "publisher" /\ op[c].period # NoPeriod
    BY DEF OpsFit
  <1> QED
    BY <1>1, <1>2, OpFields DEF Key

\* What the table under construction by Create(c) is.
LEMMA CreateFits ==
  ASSUME DatabaseInv, NEW c \in Caller, Create(c)
  PROVE  /\ inTransaction /\ ~ initialized_
         /\ created \in 0 .. 5 /\ created' = created + 1
         /\ disk' = disk /\ work' \in Image
         /\ Tables[created'] \in AllTables
         /\ work'.tables = work.tables \cup {Tables[created']}
         /\ work'.publishers = work.publishers
         /\ work'.activity = work.activity
         /\ work'.media = work.media
  <1> DEFINE t == Tables[created + 1]
  <1> DEFINE v == IF t = "meta" THEN kCompatibleVersionNumber ELSE work.version
  <1>1. inTransaction /\ ~ initialized_ /\ created \in 0 .. 5
    BY DEF Create, DatabaseInv, Types, Phases, Transaction, NoneInit, InitSteps
  <1>2. t \in AllTables
    BY <1>1, TablesFacts
  <1>3. work \in Image /\ v \in Nat
    BY DEF DatabaseInv, Types, Image, kCompatibleVersionNumber
  <1>4. work' = [work EXCEPT !.tables = @ \cup {t}, !.version = v] /\ disk' = disk
    BY <1>1 DEF Create, Write
  <1>5. created' = created + 1
    BY DEF Create
  <1>6. /\ work' \in Image
        /\ work'.tables = work.tables \cup {t}
        /\ work'.publishers = work.publishers
        /\ work'.activity = work.activity
        /\ work'.media = work.media
    <2> HIDE DEF t, v
    <2> QED
      BY <1>2, <1>3, <1>4 DEF Image
  <1> HIDE DEF v
  <1> QED
    BY <1>1, <1>2, <1>4, <1>5, <1>6

\* The statements that write a row run after Init, outside a transaction, and
\* commit what they write; only the rows of the statement's own kind change.
LEMMA WriteFits ==
  ASSUME DatabaseInv, NEW c \in Caller,
         InsertPublisher(c) \/ InsertActivity(c) \/ Statement(c)
  PROVE  /\ initialized_ /\ ~ inTransaction
         /\ disk' = work' /\ work' \in Image
         /\ work'.tables = work.tables
         /\ work'.publishers =
              IF InsertPublisher(c) THEN work.publishers \cup {op[c].publisher}
              ELSE work.publishers
         /\ work'.activity =
              IF InsertActivity(c) THEN [work.activity EXCEPT ![Key(c)] = @ + 1]
              ELSE work.activity
         /\ work'.media =
              IF Statement(c) /\ op[c].kind = "media"
              THEN [work.media EXCEPT ![op[c].key] = op[c].publisher]
              ELSE work.media
  <1>1. pc[c] \notin InitSteps \cup {"idle"}
    BY DEF InsertPublisher, InsertActivity, Statement, InitSteps
  <1>2. initialized_ /\ ~ inTransaction
    BY <1>1 DEF DatabaseInv, Phases, OneInit, Transaction
  <1>3. work \in Image /\ op[c] \in Ops \cup {NoOp} /\ work = disk
    BY <1>2 DEF DatabaseInv, Types, Phases, Transaction
  <1>4. CASE InsertPublisher(c)
    <2>1. op[c].publisher \in Publisher
      BY <1>3, <1>4, OpFields DEF InsertPublisher, DatabaseInv, OpsFit
    <2>2. work' = [work EXCEPT !.publishers = @ \cup {op[c].publisher}] /\ disk' = work'
      BY <1>2, <1>4 DEF InsertPublisher, Write
    <2>3. ~ InsertActivity(c) /\ ~ Statement(c)
      BY <1>4 DEF InsertPublisher, InsertActivity, Statement
    <2>4. /\ work' \in Image /\ work'.tables = work.tables
          /\ work'.publishers = work.publishers \cup {op[c].publisher}
          /\ work'.activity = work.activity /\ work'.media = work.media
      BY <1>3, <2>1, <2>2, AddPublisher
    <2> QED
      BY <1>2, <1>4, <2>2, <2>3, <2>4
  <1>5. CASE InsertActivity(c)
    <2>1. Key(c) \in Publisher \X Period
      BY <1>5, KeyFits DEF InsertActivity, DatabaseInv, SaveSteps
    <2>2. work' = [work EXCEPT !.activity[Key(c)] = @ + 1] /\ disk' = work'
      BY <1>2, <1>5 DEF InsertActivity, Write
    <2>3. ~ InsertPublisher(c) /\ ~ Statement(c)
      BY <1>5 DEF InsertPublisher, InsertActivity, Statement
    <2>4. /\ work' \in Image /\ work'.tables = work.tables
          /\ work'.publishers = work.publishers /\ work'.media = work.media
          /\ work'.activity = [work.activity EXCEPT ![Key(c)] = @ + 1]
      <3> DEFINE a == [work.activity EXCEPT ![Key(c)] = @ + 1]
      <3>1. work.activity \in [Publisher \X Period -> Nat]
        BY <1>3 DEF Image
      <3>2. a \in [Publisher \X Period -> Nat]
        BY <2>1, <3>1
      <3>3. work' = [work EXCEPT !.activity = a]
        BY <1>3, <2>2 DEF Image
      <3> HIDE DEF a
      <3>4. /\ work' \in Image /\ work'.tables = work.tables
            /\ work'.publishers = work.publishers /\ work'.media = work.media
            /\ work'.activity = a
        BY <1>3, <3>2, <3>3 DEF Image
      <3> QED
        BY <3>4 DEF a
    <2> QED
      BY <1>2, <1>5, <2>2, <2>3, <2>4
  <1>6. CASE Statement(c)
    <2>1. ~ InsertPublisher(c) /\ ~ InsertActivity(c)
      BY <1>6 DEF InsertPublisher, InsertActivity, Statement
    <2>2. CASE op[c].kind \in {"remove", "list"}
      BY <1>2, <1>3, <1>6, <2>1, <2>2 DEF Statement
    <2>3. CASE op[c].kind = "media"
      <3>1. op[c].publisher \in Publisher /\ op[c].key \in MediaKey
        BY <1>3, <2>3, OpFields
      <3>2. work' = [work EXCEPT !.media[op[c].key] = op[c].publisher] /\ disk' = work'
        BY <1>2, <1>6, <2>3 DEF Statement, Write
      <3>3. /\ work' \in Image /\ work'.tables = work.tables
            /\ work'.publishers = work.publishers
            /\ work'.activity = work.activity
            /\ work'.media = [work.media EXCEPT ![op[c].key] = op[c].publisher]
        <4> DEFINE m == op[c].key
                   p == op[c].publisher
        <4>1. work' = [work EXCEPT !.media[m] = p] /\ m \in MediaKey /\ p \in Publisher
          BY <3>1, <3>2
        <4>2. /\ work' \in Image /\ work'.tables = work.tables
              /\ work'.publishers = work.publishers
              /\ work'.activity = work.activity
              /\ work'.media = [work.media EXCEPT ![m] = p]
          <5> HIDE DEF m, p
          <5> QED
            BY <1>3, <4>1 DEF Image
        <4> QED
          BY <4>2
      <3> QED
        BY <1>2, <1>6, <2>1, <2>3, <3>2, <3>3
    <2>4. CASE op[c].kind = "contribution"
      <3>1. op[c].publisher \in Publisher
        BY <1>3, <2>4, OpFields
      <3>2. work' = [work EXCEPT !.contributors = @ \cup {op[c].publisher}]
            /\ disk' = work'
        BY <1>2, <1>6, <2>4 DEF Statement, Write
      <3> QED
        BY <1>2, <1>3, <2>1, <2>4, <3>1, <3>2, AddReference
    <2>5. CASE op[c].kind = "recurring"
      <3>1. op[c].publisher \in Publisher
        BY <1>3, <2>5, OpFields
      <3>2. work' = [work EXCEPT !.recurring = @ \cup {op[c].publisher}]
            /\ disk' = work'
        BY <1>2, <1>6, <2>5 DEF Statement, Write
      <3> QED
        BY <1>2, <1>3, <2>1, <2>5, <3>1, <3>2, AddReference
    <2> QED
      BY <1>6, <2>2, <2>3, <2>4, <2>5 DEF Statement
  <1> QED
    BY <1>4, <1>5, <1>6
-----------------------------------------------------------------------------
LEMMA InitDatabase == Init => DatabaseInv
  <1> SUFFICES ASSUME Init PROVE DatabaseInv
    OBVIOUS
  <1>1. PICK v \in DiskVersions : disk = EmptyImage(v)
    BY DEF Init
  <1>2. disk \in Image
    BY <1>1, DatabaseAssumption DEF EmptyImage, Image
  <1>3. /\ disk.tables \in {{}, AllTables}
        /\ \A k \in Publisher \X Period : disk.activity[k] = 0
    BY <1>1 DEF EmptyImage
  <1>4. Types
    <2>1. created \in 0 .. 6
      BY DEF Init
    <2> QED
      BY <1>2, <2>1 DEF Init, Types, Steps
  <1>5. OpsFit
    BY DEF Init, OpsFit, SaveSteps
  <1>6. Phases
    BY <1>3 DEF Init, Phases, OneInit, NoneInit, Transaction, Schema,
                SchemaAtomic, InitializedMeansCommitted
  <1>7. RowsSound
    BY <1>3 DEF Init, RowsSound, RowsCommitted, SavesProgress, SaveSteps,
                KeysAreDurable, ActivityHasPublisher
  <1>8. MediaSound
    BY DEF Init, MediaSound, MediaAreDurable
  <1> QED
    BY <1>4, <1>5, <1>6, <1>7, <1>8 DEF DatabaseInv

LEMMA TypesStep == DatabaseInv /\ [Next]_vars => Types'
  <1> SUFFICES ASSUME DatabaseInv, [Next]_vars PROVE Types'
    OBVIOUS
  <1> USE DEF DatabaseInv
  <1>1. ASSUME NEW c \in Caller, NEW o \in Ops, Call(c, o) PROVE Types'
    BY <1>1 DEF Call, Types, Goto, FirstStatement, Steps, dbVars
  <1>2. ASSUME NEW c \in Caller, InitStep(c) \/ InitFails(c) PROVE Types'
    <2>1. CASE Open(c) \/ Begin(c)
      <3>1. created' \in 0 .. 6
        BY <2>1 DEF Open, Begin, Types
      <3> QED
        BY <2>1, <3>1 DEF Open, Begin, Types, Goto, Steps
    <2>2. CASE Create(c)
      <3>1. disk' \in Image /\ work' \in Image /\ created' \in 0 .. 6
        BY <2>2, CreateFits DEF Types
      <3>2. pc' \in [Caller -> Steps]
        BY <2>2 DEF Create, Types, Goto, Steps
      <3> QED
        BY <2>2, <3>1, <3>2 DEF Create, Types, Write
    <2>3. CASE EnsureCurrentVersion(c)
      BY <2>3 DEF EnsureCurrentVersion, Types, Goto, Return, Steps, dbVars
    <2>4. CASE Commit(c)
      BY <2>4 DEF Commit, Types, Goto, FirstStatement, Steps
    <2>5. CASE InitFails(c)
      BY <2>5 DEF InitFails, Types, Goto, Return, Steps
    <2> QED
      BY <1>2, <2>1, <2>2, <2>3, <2>4, <2>5 DEF InitStep
  <1>3. ASSUME NEW c \in Caller, OpStep(c) \/ StatementFails(c) PROVE Types'
    <2>1. CASE InsertPublisher(c)
      <3>1. disk' \in Image /\ work' \in Image
        BY <2>1, WriteFits
      <3>2. op[c] \in Ops \cup {NoOp} /\ op[c].kind = "publisher"
        BY <2>1 DEF InsertPublisher, Types, OpsFit
      <3>3. Key(c) \in Publisher \X (Period \cup {NoPeriod})
        BY <3>2, OpFields DEF Key
      <3> QED
        BY <2>1, <3>1, <3>3
        DEF InsertPublisher, Types, Goto, Return, Ack, Steps, Write
    <2>2. CASE UpdateActivity(c)
      <3>1. Key(c) \in Publisher \X (Period \cup {NoPeriod})
        BY <2>2, KeyFits DEF UpdateActivity, SaveSteps
      <3> QED
        BY <2>2, <3>1 DEF UpdateActivity, Types, Goto, Return, Ack, Steps, dbVars
    <2>3. CASE InsertActivity(c)
      <3>1. disk' \in Image /\ work' \in Image
        BY <2>3, WriteFits
      <3> QED
        BY <2>3, <3>1 DEF InsertActivity, Types, Goto, Return, Steps, Write
    <2>4. CASE Statement(c)
      <3>1. disk' \in Image /\ work' \in Image
        BY <2>4, WriteFits
      <3>2. ackedMedia' \subseteq MediaKey
        BY <2>4, OpFields DEF Statement, Types
      <3>3. inTransaction' = inTransaction
        BY <2>4 DEF Statement, Write
      <3>4. /\ pc' \in [Caller -> Steps] /\ op' \in [Caller -> Ops \cup {NoOp}]
            /\ UNCHANGED <<initialized_, created, acked>>
        BY <2>4 DEF Statement, Types, Goto, Return, Steps
      <3> QED
        BY <3>1, <3>2, <3>3, <3>4 DEF Types
    <2>5. CASE SelectActivity(c)
      BY <2>5 DEF SelectActivity, Types, Goto, Steps, dbVars
    <2>6. CASE Find(c) \/ LoadMedia(c) \/ StatementFails(c)
      BY <2>6 DEF Find, LoadMedia, StatementFails, Types, Goto, Return, Steps, dbVars
    <2> QED
      BY <1>3, <2>1, <2>2, <2>3, <2>4, <2>5, <2>6 DEF OpStep
  <1>4. CASE Crash
    <2>1. created' \in 0 .. 6
      BY <1>4 DEF Crash
    <2> QED
      BY <1>4, <2>1 DEF Crash, Types, Steps
  <1>5. CASE UNCHANGED vars
    BY <1>5 DEF vars, dbVars, Types
  <1> QED
    BY <1>1, <1>2, <1>3, <1>4, <1>5 DEF Next, LoadMediaNotFound

LEMMA OpsFitStep == DatabaseInv /\ [Next]_vars => OpsFit'
  <1> SUFFICES ASSUME DatabaseInv, [Next]_vars PROVE OpsFit'
    OBVIOUS
  <1> USE DEF DatabaseInv, Types, OpsFit, SaveSteps, Goto
  <1>1. ASSUME NEW c \in Caller, NEW o \in Ops, Call(c, o) PROVE OpsFit'
    BY <1>1 DEF Call, FirstStatement
  <1>2. ASSUME NEW c \in Caller, InitStep(c) \/ InitFails(c) PROVE OpsFit'
    <2>1. CASE Open(c) \/ Begin(c) \/ Create(c)
      BY <2>1 DEF Open, Begin, Create
    <2>2. CASE EnsureCurrentVersion(c)
      BY <2>2 DEF EnsureCurrentVersion, Return
    <2>3. CASE Commit(c)
      BY <2>3 DEF Commit, FirstStatement
    <2>4. CASE InitFails(c)
      BY <2>4 DEF InitFails, Return
    <2> QED
      BY <1>2, <2>1, <2>2, <2>3, <2>4 DEF InitStep
  <1>3. ASSUME NEW c \in Caller, OpStep(c) \/ StatementFails(c) PROVE OpsFit'
    <2>1. CASE InsertPublisher(c)
      BY <2>1 DEF InsertPublisher, Return
    <2>2. CASE SelectActivity(c)
      BY <2>2 DEF SelectActivity
    <2>3. CASE UpdateActivity(c) \/ InsertActivity(c) \/ Statement(c)
      BY <2>3 DEF UpdateActivity, InsertActivity, Statement, Return
    <2>4. CASE Find(c) \/ LoadMedia(c) \/ StatementFails(c)
      BY <2>4 DEF Find, LoadMedia, StatementFails, Return
    <2> QED
      BY <1>3, <2>1, <2>2, <2>3, <2>4 DEF OpStep
  <1>4. CASE Crash
    BY <1>4 DEF Crash
  <1>5. CASE UNCHANGED vars
    BY <1>5 DEF vars
  <1> QED
    BY <1>1, <1>2, <1>3, <1>4, <1>5 DEF Next, LoadMediaNotFound
-----------------------------------------------------------------------------
LEMMA OneInitStep == DatabaseInv /\ [Next]_vars => (OneInit /\ NoneInit)'
  <1> SUFFICES ASSUME DatabaseInv, [Next]_vars PROVE (OneInit /\ NoneInit)'
    OBVIOUS
  <1> USE DEF DatabaseInv, Types, Phases, OneInit, NoneInit, InitSteps, Goto
  <1>1. ASSUME NEW c \in Caller, NEW o \in Ops, Call(c, o)
        PROVE  (OneInit /\ NoneInit)'
    BY <1>1 DEF Call, FirstStatement, dbVars
  <1>2. ASSUME NEW c \in Caller, InitStep(c) \/ InitFails(c)
        PROVE  (OneInit /\ NoneInit)'
    <2>1. CASE Open(c) \/ Begin(c)
      BY <2>1 DEF Open, Begin
    <2>2. CASE Create(c)
      BY <2>2 DEF Create
    <2>3. CASE EnsureCurrentVersion(c)
      BY <2>3 DEF EnsureCurrentVersion, Return, dbVars
    <2>4. CASE Commit(c)
      BY <2>4 DEF Commit, FirstStatement
    <2>5. CASE InitFails(c)
      BY <2>5 DEF InitFails, Return
    <2> QED
      BY <1>2, <2>1, <2>2, <2>3, <2>4, <2>5 DEF InitStep
  <1>3. ASSUME NEW c \in Caller, OpStep(c) \/ StatementFails(c)
        PROVE  (OneInit /\ NoneInit)'
    <2>1. CASE InsertPublisher(c)
      BY <2>1 DEF InsertPublisher, Return
    <2>2. CASE SelectActivity(c)
      BY <2>2 DEF SelectActivity, dbVars
    <2>3. CASE UpdateActivity(c)
      BY <2>3 DEF UpdateActivity, Return, dbVars
    <2>4. CASE InsertActivity(c)
      BY <2>4 DEF InsertActivity, Return
    <2>5. CASE Statement(c)
      BY <2>5 DEF Statement, Return
    <2>6. CASE Find(c) \/ LoadMedia(c) \/ StatementFails(c)
      BY <2>6 DEF Find, LoadMedia, StatementFails, Return, dbVars
    <2> QED
      BY <1>3, <2>1, <2>2, <2>3, <2>4, <2>5, <2>6 DEF OpStep
  <1>4. CASE Crash
    BY <1>4 DEF Crash
  <1>5. CASE UNCHANGED vars
    BY <1>5 DEF vars, dbVars
  <1> QED
    BY <1>1, <1>2, <1>3, <1>4, <1>5 DEF Next, LoadMediaNotFound

LEMMA TransactionStep == DatabaseInv /\ [Next]_vars => (Transaction /\ Schema)'
  <1> SUFFICES ASSUME DatabaseInv, [Next]_vars PROVE (Transaction /\ Schema)'
    OBVIOUS
  <1> USE DEF DatabaseInv, Phases, Transaction, Schema, SchemaAtomic,
              InitializedMeansCommitted, Goto
  <1>0. pc \in [Caller -> Steps] /\ OneInit /\ NoneInit
    BY DEF Types
  <1>1. ASSUME NEW c \in Caller, NEW o \in Ops, Call(c, o)
        PROVE  (Transaction /\ Schema)'
    BY <1>0, <1>1 DEF Call, FirstStatement, dbVars
  <1>2. ASSUME NEW c \in Caller, InitStep(c) \/ InitFails(c)
        PROVE  (Transaction /\ Schema)'
    <2>1. ~ initialized_
      BY <1>0, <1>2
      DEF NoneInit, InitSteps, InitStep, InitFails, Open, Begin, Create,
          EnsureCurrentVersion, Commit
    <2>2. \A d \in Caller \ {c} : pc[d] = "idle"
      BY <1>0, <1>2, <2>1
      DEF OneInit, InitStep, InitFails, Open, Begin, Create,
          EnsureCurrentVersion, Commit
    <2>3. CASE Open(c)
      BY <1>0, <2>1, <2>2, <2>3 DEF Open
    <2>4. CASE Begin(c)
      BY <1>0, <2>1, <2>2, <2>4 DEF Begin
    <2>5. CASE Create(c)
      <3>1. \A i \in 1 .. created' : Tables[i] \in work'.tables
        <4>1. /\ created \in 0 .. 5 /\ created' = created + 1
              /\ work'.tables = work.tables \cup {Tables[created']}
          BY <2>5, CreateFits
        <4>2. \A i \in 1 .. created : Tables[i] \in work.tables
          BY <2>5 DEF Create
        <4>3. \A i \in 1 .. created' : i \in 1 .. created \/ i = created'
          BY <4>1
        <4> HIDE DEF DatabaseInv
        <4> QED
          BY <4>1, <4>2, <4>3
      <3>2. created' = 6 => work'.tables = AllTables
        <4>1. work'.tables \subseteq AllTables
          BY <2>5, CreateFits DEF Image
        <4> QED
          BY <3>1, <4>1, TablesFacts
      <3>3. pc' = [pc EXCEPT ![c] = IF created' = 6 THEN "version" ELSE "create"]
        BY <2>5, TablesFacts DEF Create
      <3>4. inTransaction' /\ disk' = disk /\ ~ initialized_' /\ created' \in 1 .. 6
        <4>1. /\ inTransaction /\ ~ initialized_ /\ disk' = disk
              /\ created \in 0 .. 5 /\ created' = created + 1
          BY <2>5, CreateFits
        <4>2. UNCHANGED <<inTransaction, initialized_>>
          BY <2>5 DEF Create, Write
        <4> QED
          BY <4>1, <4>2
      <3> QED
        BY <1>0, <2>2, <3>1, <3>2, <3>3, <3>4
    <2>6. CASE EnsureCurrentVersion(c)
      BY <1>0, <2>1, <2>2, <2>6 DEF EnsureCurrentVersion, Return, dbVars
    <2>7. CASE Commit(c)
      BY <1>0, <2>1, <2>2, <2>7 DEF Commit, FirstStatement
    <2>8. CASE InitFails(c)
      BY <1>0, <2>1, <2>2, <2>8 DEF InitFails, Return
    <2> QED
      BY <1>2, <2>3, <2>4, <2>5, <2>6, <2>7, <2>8 DEF InitStep
  <1>3. ASSUME NEW c \in Caller, OpStep(c) \/ StatementFails(c)
        PROVE  (Transaction /\ Schema)'
    <2>1. /\ initialized_ /\ ~ inTransaction
          /\ \A d \in Caller : pc[d] \notin InitSteps
      BY <1>0, <1>3
      DEF OneInit, NoneInit, InitSteps, OpStep, StatementFails, InsertPublisher,
          SelectActivity, UpdateActivity, InsertActivity, Statement, Find, LoadMedia
    <2>2. UNCHANGED <<inTransaction, initialized_>>
      BY <1>3, <2>1
      DEF OpStep, StatementFails, InsertPublisher, SelectActivity,
          UpdateActivity, InsertActivity, Statement, Find, LoadMedia, Write, dbVars
    <2>3. \A d \in Caller : pc'[d] \notin InitSteps
      BY <1>0, <1>3, <2>1
      DEF InitSteps, OpStep, StatementFails, InsertPublisher, SelectActivity,
          UpdateActivity, InsertActivity, Statement, Find, LoadMedia, Return
    <2>4. disk' = work' /\ work'.tables = work.tables
      <3>1. CASE InsertPublisher(c) \/ InsertActivity(c) \/ Statement(c)
        BY <3>1, WriteFits
      <3>2. CASE ~ (InsertPublisher(c) \/ InsertActivity(c) \/ Statement(c))
        BY <1>3, <2>1, <3>2
        DEF OpStep, StatementFails, SelectActivity, UpdateActivity, Find, LoadMedia, dbVars
      <3> QED
        BY <3>1, <3>2
    <2> QED
      BY <2>1, <2>2, <2>3, <2>4 DEF InitSteps
  <1>4. CASE Crash
    BY <1>4 DEF Crash
  <1>5. CASE UNCHANGED vars
    BY <1>5 DEF vars, dbVars
  <1> QED
    BY <1>1, <1>2, <1>3, <1>4, <1>5 DEF Next, LoadMediaNotFound
-----------------------------------------------------------------------------
LEMMA RowsSoundStep == DatabaseInv /\ [Next]_vars => RowsSound'
  <1> SUFFICES ASSUME DatabaseInv, [Next]_vars PROVE RowsSound'
    OBVIOUS
  <1> USE DEF RowsSound, RowsCommitted, SavesProgress, KeysAreDurable,
              ActivityHasPublisher, Goto
  <1>0. /\ pc \in [Caller -> Steps] /\ RowsSound
        /\ acked \subseteq Publisher \X (Period \cup {NoPeriod})
        /\ disk.activity \in [Publisher \X Period -> Nat]
    BY DEF DatabaseInv, Types, Image
  \* No caller's save goes on, and no row changes.
  <1>1. ASSUME pc' \in [Caller -> Steps],
               \A d \in Caller : pc'[d] \in SaveSteps => pc'[d] = pc[d] /\ op'[d] = op[d],
               disk'.publishers = disk.publishers, disk'.activity = disk.activity,
               work'.publishers = disk.publishers, work'.activity = disk.activity,
               acked' = acked
        PROVE  RowsSound'
    BY <1>0, <1>1 DEF Key, SaveSteps
  <1>2. ASSUME NEW c \in Caller, NEW o \in Ops, Call(c, o) PROVE RowsSound'
    BY <1>0, <1>1, <1>2, TypesStep
    DEF Call, FirstStatement, dbVars, SaveSteps, DatabaseInv, Types
  <1>3. ASSUME NEW c \in Caller, InitStep(c) \/ InitFails(c) PROVE RowsSound'
    <2>1. pc' \in [Caller -> Steps] /\ acked' = acked
      BY <1>3, TypesStep
      DEF Types, InitStep, InitFails, Open, Begin, Create, EnsureCurrentVersion,
          Commit
    <2>2. \A d \in Caller :
            pc'[d] \in SaveSteps => pc'[d] = pc[d] /\ op'[d] = op[d]
      BY <1>0, <1>3
      DEF SaveSteps, InitStep, InitFails, Open, Begin, Create,
          EnsureCurrentVersion, Commit, Return, FirstStatement, DatabaseInv, Types
    <2>3. /\ disk'.publishers = disk.publishers /\ disk'.activity = disk.activity
          /\ work'.publishers = disk.publishers /\ work'.activity = disk.activity
      <3>1. CASE Create(c)
        BY <1>0, <3>1, CreateFits
      <3>2. CASE ~ Create(c)
        BY <1>0, <1>3, <3>2
        DEF InitStep, InitFails, Open, Begin, EnsureCurrentVersion, Commit, dbVars
      <3> QED
        BY <3>1, <3>2
    <2> QED
      BY <1>1, <2>1, <2>2, <2>3
  <1>4. ASSUME NEW c \in Caller, OpStep(c) \/ StatementFails(c) PROVE RowsSound'
    <2>1. CASE InsertPublisher(c)
      <3>1. /\ disk' = work' /\ disk'.activity = disk.activity
            /\ disk'.publishers = disk.publishers \cup {op[c].publisher}
        <4>1. ~ InsertActivity(c)
          BY <2>1 DEF InsertPublisher, InsertActivity
        <4> QED
          BY <1>0, <2>1, <4>1, WriteFits
      <3>2. \A k \in acked' : k \in acked \/ (k = Key(c) /\ op[c].period = NoPeriod)
        BY <2>1 DEF InsertPublisher, Ack
      <3>3. KeysAreDurable'
        BY <1>0, <3>1, <3>2, DatabaseAssumption DEF Key
      <3>4. \A d \in Caller \ {c} : pc'[d] = pc[d] /\ op'[d] = op[d]
        BY <1>0, <2>1 DEF InsertPublisher, Return, DatabaseInv, Types
      <3>5. pc'[c] = "idle" \/ (pc'[c] = "select" /\ op'[c] = op[c])
        BY <1>0, <2>1 DEF InsertPublisher, Return
      <3>6. SavesProgress'
        BY <1>0, <3>1, <3>4, <3>5 DEF Key, SaveSteps
      <3>7. ActivityHasPublisher'
        BY <1>0, <3>1
      <3> QED
        BY <3>1, <3>3, <3>6, <3>7
    <2>2. CASE SelectActivity(c)
      BY <1>0, <2>2 DEF SelectActivity, dbVars, SaveSteps, Key
    <2>3. CASE UpdateActivity(c)
      <3>1. \A k \in acked' : k \in acked \/ k = Key(c)
        BY <2>3 DEF UpdateActivity, Ack
      <3>2. op[c].publisher \in disk.publishers /\ disk.activity[Key(c)] > 0
        BY <1>0, <2>3 DEF UpdateActivity, SaveSteps
      <3>3. UNCHANGED <<disk, work>>
        BY <2>3 DEF UpdateActivity, dbVars
      <3>4. KeysAreDurable'
        BY <1>0, <3>1, <3>2, <3>3 DEF Key
      <3>5. \A d \in Caller :
              pc'[d] \in SaveSteps => pc'[d] = pc[d] /\ op'[d] = op[d]
        BY <1>0, <2>3 DEF UpdateActivity, Return, SaveSteps, DatabaseInv, Types
      <3>6. SavesProgress'
        BY <1>0, <3>3, <3>5 DEF Key, SaveSteps
      <3> QED
        BY <1>0, <3>3, <3>4, <3>6
    <2>4. CASE InsertActivity(c)
      <3>1. Key(c) \in Publisher \X Period /\ Key(c)[1] = op[c].publisher
        BY <2>4, KeyFits DEF InsertActivity, DatabaseInv, SaveSteps
      <3>2. op[c].publisher \in disk.publishers
        BY <1>0, <2>4 DEF InsertActivity, SaveSteps
      <3>3. /\ disk' = work' /\ disk'.publishers = disk.publishers
            /\ disk'.activity = [disk.activity EXCEPT ![Key(c)] = @ + 1]
        <4>1. ~ InsertPublisher(c)
          BY <2>4 DEF InsertActivity, InsertPublisher
        <4> QED
          BY <1>0, <2>4, <4>1, WriteFits
      <3>4. \A k \in Publisher \X Period :
              /\ disk.activity[k] > 0 => disk'.activity[k] > 0
              /\ disk'.activity[k] > 0 => k = Key(c) \/ disk.activity[k] > 0
        BY <1>0, <3>1, <3>3
      <3>5. KeysAreDurable'
        <4>1. acked' = acked
          BY <2>4 DEF InsertActivity
        <4>2. \A k \in acked : k[2] \in Period => k \in Publisher \X Period
          BY <1>0
        <4> QED
          BY <1>0, <3>3, <3>4, <4>1, <4>2
      <3>6. \A d \in Caller :
              pc'[d] \in SaveSteps => pc'[d] = pc[d] /\ op'[d] = op[d]
        BY <1>0, <2>4 DEF InsertActivity, Return, SaveSteps, DatabaseInv, Types
      <3>7. SavesProgress'
        <4> SUFFICES ASSUME NEW d \in Caller, pc'[d] \in SaveSteps
                     PROVE  /\ op'[d].publisher \in disk'.publishers
                            /\ pc'[d] = "update" => disk'.activity[Key(d)'] > 0
          BY DEF SaveSteps
        <4>1. pc[d] \in SaveSteps /\ pc'[d] = pc[d] /\ op'[d] = op[d]
          BY <3>6
        <4>2. Key(d)' = Key(d) /\ Key(d) \in Publisher \X Period
          BY <4>1, KeyFits DEF Key, DatabaseInv
        <4> QED
          BY <1>0, <3>3, <3>4, <4>1, <4>2
      <3>8. ActivityHasPublisher'
        BY <1>0, <3>1, <3>2, <3>3, <3>4
      <3> QED
        BY <3>3, <3>5, <3>7, <3>8
    <2>5. CASE Statement(c)
      <3>1. /\ disk' = work' /\ disk'.publishers = disk.publishers
            /\ disk'.activity = disk.activity
        <4>1. ~ InsertPublisher(c) /\ ~ InsertActivity(c)
          BY <2>5 DEF Statement, InsertPublisher, InsertActivity
        <4> QED
          BY <1>0, <2>5, <4>1, WriteFits
      <3>2. /\ pc' \in [Caller -> Steps] /\ acked' = acked
            /\ \A d \in Caller :
                 pc'[d] \in SaveSteps => pc'[d] = pc[d] /\ op'[d] = op[d]
        BY <1>0, <2>5 DEF Statement, Return, Steps, SaveSteps, DatabaseInv, Types
      <3> QED
        BY <1>1, <3>1, <3>2
    <2>6. CASE Find(c) \/ LoadMedia(c) \/ StatementFails(c)
      <3>1. /\ pc' \in [Caller -> Steps] /\ acked' = acked
            /\ disk' = disk /\ work' = work
            /\ \A d \in Caller :
                 pc'[d] \in SaveSteps => pc'[d] = pc[d] /\ op'[d] = op[d]
        BY <1>0, <2>6
        DEF Find, LoadMedia, StatementFails, dbVars, Return, Steps, SaveSteps, DatabaseInv, Types
      <3> QED
        BY <1>0, <1>1, <3>1
    <2> QED
      BY <1>4, <2>1, <2>2, <2>3, <2>4, <2>5, <2>6 DEF OpStep
  <1>5. CASE Crash
    BY <1>0, <1>5 DEF Crash, SaveSteps
  <1>6. CASE UNCHANGED vars
    BY <1>0, <1>6 DEF vars, dbVars, Key
  <1> QED
    BY <1>2, <1>3, <1>4, <1>5, <1>6 DEF Next, LoadMediaNotFound

LEMMA MediaSoundStep == DatabaseInv /\ [Next]_vars => MediaSound'
  <1> SUFFICES ASSUME DatabaseInv, [Next]_vars PROVE MediaSound'
    OBVIOUS
  <1> USE DEF MediaSound, MediaAreDurable
  <1>0. /\ MediaSound /\ ackedMedia \subseteq MediaKey
        /\ disk.media \in [MediaKey -> Publisher \cup {NoPublisher}]
    BY DEF DatabaseInv, Types, Image
  <1>1. ASSUME NEW c \in Caller, NEW o \in Ops, Call(c, o) PROVE MediaSound'
    BY <1>0, <1>1 DEF Call, dbVars
  <1>2. ASSUME NEW c \in Caller, InitStep(c) \/ InitFails(c) PROVE MediaSound'
    <2>1. CASE Create(c)
      BY <1>0, <2>1, CreateFits DEF Create
    <2>2. CASE ~ Create(c)
      BY <1>0, <1>2, <2>2
      DEF InitStep, InitFails, Open, Begin, EnsureCurrentVersion, Commit, dbVars
    <2> QED
      BY <2>1, <2>2
  <1>3. ASSUME NEW c \in Caller, OpStep(c) \/ StatementFails(c) PROVE MediaSound'
    <2>1. CASE Statement(c) /\ op[c].kind = "media"
      <3>1. op[c].publisher \in Publisher /\ op[c].key \in MediaKey
        BY <2>1, OpFields DEF DatabaseInv, Types
      <3>2. /\ disk' = work' /\ ackedMedia' = ackedMedia \cup {op[c].key}
            /\ work'.media = [disk.media EXCEPT ![op[c].key] = op[c].publisher]
        BY <1>0, <2>1, WriteFits DEF Statement
      <3> QED
        BY <1>0, <3>1, <3>2, DatabaseAssumption
    <2>2. CASE (InsertPublisher(c) \/ InsertActivity(c) \/ Statement(c))
               /\ ~ (Statement(c) /\ op[c].kind = "media")
      <3>1. disk' = work' /\ work'.media = work.media
        BY <2>2, WriteFits
      <3>2. ackedMedia' = ackedMedia
        BY <2>2 DEF InsertPublisher, InsertActivity, Statement, Ack
      <3> QED
        BY <1>0, <3>1, <3>2
    <2>3. CASE ~ (InsertPublisher(c) \/ InsertActivity(c) \/ Statement(c))
      BY <1>0, <1>3, <2>3
      DEF OpStep, StatementFails, SelectActivity, UpdateActivity, Ack, Find,
          LoadMedia, dbVars
    <2> QED
      BY <2>1, <2>2, <2>3
  <1>4. CASE Crash
    BY <1>0, <1>4 DEF Crash
  <1>5. CASE UNCHANGED vars
    BY <1>0, <1>5 DEF vars, dbVars
  <1> QED
    BY <1>1, <1>2, <1>3, <1>4, <1>5 DEF Next, LoadMediaNotFound
-----------------------------------------------------------------------------
\* The inductive invariant holds in every state.
LEMMA DatabaseInvariant == Spec => []DatabaseInv
  <1>1. DatabaseInv /\ [Next]_vars => DatabaseInv'
    <2> SUFFICES ASSUME DatabaseInv, [Next]_vars PROVE DatabaseInv'
      OBVIOUS
    <2> QED
      BY TypesStep, OpsFitStep, OneInitStep, TransactionStep, RowsSoundStep,
         MediaSoundStep
      DEF DatabaseInv, Phases
  <1> QED
    BY InitDatabase, <1>1, PTL DEF Spec

\* Every variable keeps its type.
THEOREM TypesAreCorrect == Spec => []TypeOK
  <1>1. DatabaseInv => TypeOK
    BY TablesFacts DEF DatabaseInv, Types, TypeOK
  <1> QED
    BY DatabaseInvariant, <1>1, PTL

\* Init's six tables reach the file together or not at all, whichever of its
\* statements fails or is the last before a crash.
THEOREM SchemaIsAtomic == Spec => []SchemaAtomic
  <1>1. DatabaseInv => SchemaAtomic
    BY DEF DatabaseInv, Phases, Schema
  <1> QED
    BY DatabaseInvariant, <1>1, PTL

\* initialized_ is set only with the schema committed and no transaction open.
THEOREM InitializedIsCommitted == Spec => []InitializedMeansCommitted
  <1>1. DatabaseInv => InitializedMeansCommitted
    BY DEF DatabaseInv, Phases, Schema
  <1> QED
    BY DatabaseInvariant, <1>1, PTL

\* A publisher or an activity row whose save returned true is on disk, with any
\* number of threads saving at once and through any errors and crashes.
THEOREM AckedSavesAreDurable == Spec => []AckedIsDurable
  <1>1. DatabaseInv => AckedIsDurable
    BY DEF DatabaseInv, RowsSound, MediaSound, AckedIsDurable
  <1> QED
    BY DatabaseInvariant, <1>1, PTL

\* The join of Find never hides an activity row: its publisher is there.
THEOREM ActivityRowsHavePublishers == Spec => []ActivityHasPublisher
  <1>1. DatabaseInv => ActivityHasPublisher
    BY DEF DatabaseInv, RowsSound
  <1> QED
    BY DatabaseInvariant, <1>1, PTL
-----------------------------------------------------------------------------
(***************************************************************************)
(* The rows of a key, with finitely many threads.  Whoever finds no row is *)
(* going to insert one; as soon as there is a row nobody joins them.       *)
(***************************************************************************)
Inserting(k) == {c \in Caller : pc[c] = "insert_activity" /\ Key(c) = k}

RowsLeft ==
  \A k \in Publisher \X Period :
    disk.activity[k] + Cardinality(Inserting(k)) <= Cardinality(Caller)

LEMMA InsertingFinite ==
  ASSUME IsFiniteSet(Caller), NEW S \in SUBSET Caller
  PROVE  /\ IsFiniteSet(S) /\ Cardinality(S) \in Nat
         /\ Cardinality(Caller) \in Nat /\ Cardinality(S) <= Cardinality(Caller)
  BY FS_Subset, FS_CardinalityType

\* No statement but the INSERT changes the number of a key's rows, and nobody
\* comes to the INSERT but by the SELECT.
LEMMA OtherStepsKeepActivity ==
  ASSUME DatabaseInv, [Next]_vars,
         ~ \E c \in Caller : InsertActivity(c) \/ SelectActivity(c)
  PROVE  /\ disk'.activity = disk.activity
         /\ \A c \in Caller :
              pc'[c] = "insert_activity" => pc[c] = pc'[c] /\ op'[c] = op[c]
  <1> DEFINE Stays ==
        \A c \in Caller :
          pc'[c] = "insert_activity" => pc[c] = pc'[c] /\ op'[c] = op[c]
  <1>0. /\ work.activity = disk.activity
        /\ pc \in [Caller -> Steps] /\ op \in [Caller -> Ops \cup {NoOp}]
    BY DEF DatabaseInv, Types, RowsSound, RowsCommitted
  <1>1. ASSUME NEW c \in Caller, NEW o \in Ops, Call(c, o)
        PROVE  disk'.activity = disk.activity /\ Stays
    <2>1. FirstStatement(o) # "insert_activity"
      BY DEF FirstStatement
    <2> QED
      BY <1>0, <1>1, <2>1 DEF Call, Goto, dbVars
  <1>2. ASSUME NEW c \in Caller, InitStep(c) \/ InitFails(c)
        PROVE  disk'.activity = disk.activity /\ Stays
    <2>1. FirstStatement(op[c]) # "insert_activity"
      BY DEF FirstStatement
    <2>2. CASE Create(c)
      <3>1. disk' = disk
        BY <2>2, CreateFits
      <3>2. Stays
        BY <1>0, <2>2 DEF Create, Goto
      <3> QED
        BY <3>1, <3>2
    <2>3. CASE Commit(c)
      BY <1>0, <2>1, <2>3 DEF Commit, Goto
    <2>4. CASE Open(c) \/ Begin(c) \/ EnsureCurrentVersion(c) \/ InitFails(c)
      BY <1>0, <2>4 DEF Open, Begin, EnsureCurrentVersion, InitFails, Goto, Return, dbVars
    <2> QED
      BY <1>2, <2>2, <2>3, <2>4 DEF InitStep
  <1>3. ASSUME NEW c \in Caller, InsertPublisher(c) \/ Statement(c)
        PROVE  disk'.activity = disk.activity /\ Stays
    <2>1. disk'.activity = disk.activity
      BY <1>0, <1>3, WriteFits
    <2>2. Stays
      BY <1>0, <1>3 DEF InsertPublisher, Statement, Goto, Return
    <2> QED
      BY <2>1, <2>2
  <1>4. ASSUME NEW c \in Caller,
               UpdateActivity(c) \/ Find(c) \/ LoadMedia(c) \/ StatementFails(c)
        PROVE  disk'.activity = disk.activity /\ Stays
    BY <1>0, <1>4 DEF UpdateActivity, Find, LoadMedia, StatementFails, Return, Goto, dbVars
  <1>5. CASE Crash \/ UNCHANGED vars
    BY <1>5 DEF Crash, vars, dbVars
  <1> QED
    BY <1>1, <1>2, <1>3, <1>4, <1>5 DEF Next, OpStep, LoadMediaNotFound

LEMMA RowsLeftStep ==
  ASSUME IsFiniteSet(Caller), DatabaseInv, RowsLeft, [Next]_vars PROVE RowsLeft'
  <1> SUFFICES ASSUME NEW k \in Publisher \X Period
               PROVE  disk'.activity[k] + Cardinality(Inserting(k)')
                        <= Cardinality(Caller)
    BY DEF RowsLeft
  <1> DEFINE n == disk.activity[k]
             I == Inserting(k)
  <1>0. /\ n \in Nat /\ I \in SUBSET Caller /\ I' \in SUBSET Caller
        /\ work.activity = disk.activity
        /\ disk.activity \in [Publisher \X Period -> Nat]
        /\ pc \in [Caller -> Steps]
    BY DEF DatabaseInv, Types, Image, RowsSound, RowsCommitted, Inserting
  <1>1. /\ IsFiniteSet(I) /\ Cardinality(I) \in Nat /\ Cardinality(I') \in Nat
        /\ Cardinality(Caller) \in Nat /\ Cardinality(I') <= Cardinality(Caller)
        /\ n + Cardinality(I) <= Cardinality(Caller)
    BY <1>0, InsertingFinite DEF RowsLeft
  <1>2. ASSUME n' = n, n = 0 \/ I' \subseteq I
        PROVE  n' + Cardinality(I') <= Cardinality(Caller)
    <2>1. CASE n = 0
      BY <1>1, <1>2, <2>1
    <2>2. CASE I' \subseteq I
      <3>1. Cardinality(I') <= Cardinality(I)
        BY <1>1, <2>2, FS_Subset
      <3> QED
        BY <1>0, <1>1, <1>2, <3>1
    <2> QED
      BY <1>2, <2>1, <2>2
  <1>3. ASSUME NEW c \in Caller, SelectActivity(c)
        PROVE  n' = n /\ (n = 0 \/ I' \subseteq I)
    <2>1. /\ disk' = disk /\ op' = op
          /\ pc' = [pc EXCEPT ![c] = IF disk.activity[Key(c)] > 0 THEN "update"
                                     ELSE "insert_activity"]
      BY <1>0, <1>3 DEF SelectActivity, Goto, dbVars
    <2>2. ASSUME n # 0 PROVE I' \subseteq I
      <3>1. \A d \in Caller : Key(d)' = Key(d)
        BY <2>1 DEF Key
      <3>2. Key(c) = k => pc'[c] = "update"
        BY <1>0, <2>1, <2>2
      <3> QED
        BY <1>0, <2>1, <3>1, <3>2 DEF Inserting
    <2> QED
      BY <2>1, <2>2
  <1>4. ASSUME NEW c \in Caller, InsertActivity(c)
        PROVE  n' + Cardinality(I') <= Cardinality(Caller)
    <2>1. /\ pc[c] = "insert_activity" /\ pc' = [pc EXCEPT ![c] = "idle"]
          /\ \A d \in Caller \ {c} : Key(d)' = Key(d)
      BY <1>4 DEF InsertActivity, Return, Goto, Key, DatabaseInv, Types
    <2>2. disk'.activity = [disk.activity EXCEPT ![Key(c)] = @ + 1]
      BY <1>0, <1>4, WriteFits
    <2>3. CASE Key(c) = k
      <3>1. n' = n + 1
        BY <1>0, <2>2, <2>3
      <3>2. c \in I /\ I' = I \ {c}
        BY <1>0, <2>1, <2>3 DEF Inserting
      <3>3. Cardinality(I') = Cardinality(I) - 1
        BY <1>1, <3>2, FS_RemoveElement
      <3> QED
        BY <1>0, <1>1, <3>1, <3>3
    <2>4. CASE Key(c) # k
      <3>1. n' = n
        BY <1>0, <2>2, <2>4
      <3>2. I' \subseteq I
        BY <1>0, <2>1 DEF Inserting
      <3> QED
        BY <1>2, <3>1, <3>2
    <2> QED
      BY <2>3, <2>4
  <1>5. ASSUME ~ \E c \in Caller : InsertActivity(c) \/ SelectActivity(c)
        PROVE  n' = n /\ I' \subseteq I
    BY <1>5, OtherStepsKeepActivity DEF Inserting, Key
  <1> QED
    BY <1>2, <1>3, <1>4, <1>5

\* InsertOrUpdatePublisherInfo is not atomic, and a key may get several rows,
\* but never more than there are threads, however often it is saved and
\* whatever fails or dies.
THEOREM RowsAreBounded ==
  ASSUME IsFiniteSet(Caller) PROVE Spec => []ActivityRowsBounded
  <1>1. Init => RowsLeft
    <2> SUFFICES ASSUME Init, NEW k \in Publisher \X Period
                 PROVE  disk.activity[k] + Cardinality(Inserting(k))
                          <= Cardinality(Caller)
      BY DEF RowsLeft
    <2>1. disk.activity[k] = 0
      BY DEF Init, EmptyImage
    <2>2. Inserting(k) = {}
      BY DEF Init, Inserting
    <2> QED
      BY <2>1, <2>2, FS_EmptySet, FS_CardinalityType
  <1>2. DatabaseInv /\ RowsLeft /\ [Next]_vars => RowsLeft'
    BY RowsLeftStep
  <1>3. DatabaseInv /\ RowsLeft => ActivityRowsBounded
    <2> SUFFICES ASSUME DatabaseInv, RowsLeft, NEW k \in Publisher \X Period
                 PROVE  disk.activity[k] <= Cardinality(Caller)
      BY DEF ActivityRowsBounded
    <2>1. Inserting(k) \in SUBSET Caller /\ disk.activity[k] \in Nat
      BY DEF Inserting, DatabaseInv, Types, Image
    <2>2. disk.activity[k] + Cardinality(Inserting(k)) <= Cardinality(Caller)
      BY DEF RowsLeft
    <2> QED
      BY <2>1, <2>2, InsertingFinite
  <1> QED
    BY DatabaseInvariant, <1>1, <1>2, <1>3, PTL DEF Spec
-----------------------------------------------------------------------------
\* Find is run by a thread that looks up a publisher and a period.
FindsFit == \A c \in Caller : pc[c] = "find" => op[c].kind = "find"

LEMMA FindKey ==
  ASSUME NEW o \in Ops \cup {NoOp}, o.kind = "find"
  PROVE  <<o.publisher, o.period>> \in Publisher \X Period
  BY DEF Ops, NoOp, SaveOp

LEMMA FirstIsFind ==
  ASSUME NEW o \in Ops \cup {NoOp}, FirstStatement(o) = "find"
  PROVE  o.kind = "find"
  BY DEF FirstStatement

LEMMA FindsFitStep == DatabaseInv /\ FindsFit /\ [Next]_vars => FindsFit'
  <1> SUFFICES ASSUME DatabaseInv, FindsFit, [Next]_vars PROVE FindsFit'
    OBVIOUS
  <1> USE DEF DatabaseInv, Types, FindsFit, Goto
  <1>1. ASSUME NEW c \in Caller, NEW o \in Ops, Call(c, o) PROVE FindsFit'
    <2>1. /\ \A d \in Caller \ {c} : pc'[d] = pc[d] /\ op'[d] = op[d]
          /\ op'[c] = o /\ pc'[c] \in {FirstStatement(o), "open"}
      BY <1>1 DEF Call
    <2>2. pc'[c] = "find" => op'[c].kind = "find"
      BY <2>1, FirstIsFind
    <2> QED
      BY <2>1, <2>2
  <1>2. ASSUME NEW c \in Caller, Commit(c) PROVE FindsFit'
    <2>1. /\ \A d \in Caller \ {c} : pc'[d] = pc[d]
          /\ op' = op /\ pc'[c] = FirstStatement(op[c])
      BY <1>2 DEF Commit
    <2>2. pc'[c] = "find" => op'[c].kind = "find"
      BY <2>1, FirstIsFind
    <2> QED
      BY <2>1, <2>2
  <1>3. ASSUME NEW c \in Caller, pc'[c] # "find",
               \A d \in Caller \ {c} : pc'[d] = pc[d] /\ op'[d] = op[d]
        PROVE  FindsFit'
    BY <1>3
  <1>4. ASSUME NEW c \in Caller,
               Open(c) \/ Begin(c) \/ Create(c) \/ EnsureCurrentVersion(c)
               \/ InitFails(c)
        PROVE  FindsFit'
    <2>1. /\ pc'[c] # "find"
          /\ \A d \in Caller \ {c} : pc'[d] = pc[d] /\ op'[d] = op[d]
      BY <1>4 DEF Open, Begin, Create, EnsureCurrentVersion, InitFails, Return
    <2> QED
      BY <1>3, <2>1
  <1>5. ASSUME NEW c \in Caller, OpStep(c) \/ StatementFails(c) PROVE FindsFit'
    <2>1. /\ pc'[c] # "find"
          /\ \A d \in Caller \ {c} : pc'[d] = pc[d] /\ op'[d] = op[d]
      <3>1. CASE InsertPublisher(c) \/ SelectActivity(c)
        BY <3>1 DEF InsertPublisher, SelectActivity, Return
      <3>2. CASE UpdateActivity(c) \/ InsertActivity(c) \/ Statement(c)
        BY <3>2 DEF UpdateActivity, InsertActivity, Statement, Return
      <3>3. CASE Find(c) \/ LoadMedia(c) \/ StatementFails(c)
        BY <3>3 DEF Find, LoadMedia, StatementFails, Return
      <3> QED
        BY <1>5, <3>1, <3>2, <3>3 DEF OpStep
    <2> QED
      BY <1>3, <2>1
  <1>6. CASE Crash
    BY <1>6 DEF Crash
  <1>7. CASE UNCHANGED vars
    BY <1>7 DEF vars
  <1> QED
    BY <1>1, <1>2, <1>4, <1>5, <1>6, <1>7 DEF Next, InitStep, LoadMediaNotFound

\* LoadPublisherInfo's "only 1 valid result" holds as long as one thread alone
\* uses the database: it is the overlapping of saves, and nothing else (no error,
\* crash or repetition), that makes a load ambiguous.
THEOREM OneThreadIsUnambiguous ==
  ASSUME IsFiniteSet(Caller), Cardinality(Caller) = 1
  PROVE  Spec => []LoadIsUnambiguous
  <1>1. Spec => []ActivityRowsBounded
    BY RowsAreBounded
  <1>2. Init => FindsFit
    BY DEF Init, FindsFit
  <1>3. DatabaseInv /\ FindsFit /\ [Next]_vars => FindsFit'
    BY FindsFitStep
  <1>4. DatabaseInv /\ FindsFit /\ ActivityRowsBounded => LoadIsUnambiguous
    <2> SUFFICES ASSUME DatabaseInv, FindsFit, ActivityRowsBounded,
                        NEW c \in Caller, pc[c] = "find"
                 PROVE  OnPublisherInfoLoaded(Rows(c)) # "TOO_MANY_RESULTS"
      BY DEF LoadIsUnambiguous
    <2>1. Key(c) \in Publisher \X Period
      BY FindKey DEF FindsFit, DatabaseInv, Types, Key
    <2>2. work.activity[Key(c)] \in Nat /\ work.activity[Key(c)] <= 1
      BY <2>1 DEF ActivityRowsBounded, DatabaseInv, Types, Image, RowsSound,
                  RowsCommitted
    <2>3. Rows(c) \in {0, 1}
      BY <2>2 DEF Rows
    <2> QED
      BY <2>3 DEF OnPublisherInfoLoaded
  <1> QED
    BY <1>1, <1>2, <1>3, <1>4, DatabaseInvariant, PTL DEF Spec
-----------------------------------------------------------------------------
(***************************************************************************)
(* The refinement of DurableSaves.  Of the committed image only the        *)
(* publishers, the activity rows and the media keys are mapped; a step     *)
(* that changes none of them and acknowledges nothing is a stutter.        *)
(***************************************************************************)
Keys == Publisher \X (Period \cup {NoPeriod})

\* A step that leaves the rows of the image alone leaves the mapping alone.
LEMMA SameRowsSameSaved ==
  ASSUME disk'.publishers = disk.publishers, disk'.activity = disk.activity,
         disk'.media = disk.media
  PROVE  SavedKeys' = SavedKeys /\ SavedMedia' = SavedMedia
  BY DEF SavedKeys, SavedMedia

\* A publisher inserted: its period-less key is saved, and no other is lost.
LEMMA InsertPublisherStores ==
  ASSUME DatabaseInv, NEW c \in Caller, InsertPublisher(c)
  PROVE  \E k \in Keys :
           /\ SavedKeys' = SavedKeys \cup {k} /\ SavedMedia' = SavedMedia
           /\ acked' = acked \/ acked' = acked \cup {k}
           /\ ackedMedia' = ackedMedia
  <1> DEFINE p == op[c].publisher
             k == << p, NoPeriod >>
  <1>1. p \in Publisher
    BY OpFields DEF InsertPublisher, DatabaseInv, Types, OpsFit
  <1>2. ~ InsertActivity(c) /\ ~ Statement(c) /\ disk = work
    <2>1. pc[c] = "insert_publisher"
      BY DEF InsertPublisher
    <2>2. ~ inTransaction
      BY WriteFits
    <2> QED
      BY <2>1, <2>2
      DEF InsertActivity, Statement, DatabaseInv, Phases, Transaction
  <1>3. /\ disk'.publishers = disk.publishers \cup {p}
        /\ disk'.activity = disk.activity /\ disk'.media = disk.media
    BY <1>2, WriteFits
  <1>4. ActivityHasPublisher
    BY DEF DatabaseInv, RowsSound
  <1>5. \A q \in Publisher : q = p => \A t \in Period :
          disk.activity[<< q, t >>] > 0 => q \in disk.publishers
    BY <1>4 DEF ActivityHasPublisher
  <1>6. SavedKeys' = SavedKeys \cup {k}
    <2>1. ASSUME NEW q \in Publisher, NEW t \in Period \cup {NoPeriod}
          PROVE  << q, t >> \in SavedKeys' <=>
                   << q, t >> \in SavedKeys \/ << q, t >> = k
      BY <1>1, <1>3, <1>5, DatabaseAssumption DEF SavedKeys
    <2>2. SavedKeys' \subseteq Keys /\ SavedKeys \subseteq Keys /\ k \in Keys
      BY <1>1 DEF SavedKeys, Keys
    <2> QED
      BY <2>1, <2>2 DEF Keys
  <1>7. SavedMedia' = SavedMedia
    BY <1>3 DEF SavedMedia
  <1>8. (acked' = acked \/ acked' = acked \cup {k}) /\ ackedMedia' = ackedMedia
    BY DEF InsertPublisher, Ack, Key
  <1> QED
    BY <1>1, <1>6, <1>7, <1>8 DEF Keys

\* An activity row inserted: its key is saved, since its publisher is there.
LEMMA InsertActivityStores ==
  ASSUME DatabaseInv, NEW c \in Caller, InsertActivity(c)
  PROVE  \E k \in Keys :
           /\ SavedKeys' = SavedKeys \cup {k} /\ SavedMedia' = SavedMedia
           /\ acked' = acked /\ ackedMedia' = ackedMedia
  <1> DEFINE k == Key(c)
  <1>1. /\ k = << op[c].publisher, op[c].period >>
        /\ k \in Publisher \X Period
    BY KeyFits DEF InsertActivity, DatabaseInv, SaveSteps
  <1>2. op[c].publisher \in disk.publishers
    BY DEF InsertActivity, DatabaseInv, RowsSound, SavesProgress, SaveSteps
  <1>3. ~ InsertPublisher(c) /\ ~ Statement(c) /\ disk = work
    <2>1. pc[c] = "insert_activity"
      BY DEF InsertActivity
    <2>2. ~ inTransaction
      BY WriteFits
    <2> QED
      BY <2>1, <2>2
      DEF InsertPublisher, Statement, DatabaseInv, Phases, Transaction
  <1>4. /\ disk'.publishers = disk.publishers /\ disk'.media = disk.media
        /\ disk'.activity = [disk.activity EXCEPT ![k] = @ + 1]
    BY <1>3, WriteFits
  <1>5. disk.activity \in [Publisher \X Period -> Nat]
    BY DEF DatabaseInv, Types, Image
  <1>6. SavedKeys' = SavedKeys \cup {k}
    <2> HIDE DEF k
    <2>1. \A j \in Publisher \X Period :
            disk'.activity[j] > 0 <=> disk.activity[j] > 0 \/ j = k
      BY <1>1, <1>4, <1>5
    <2>2. k \in Keys /\ k[1] \in disk.publishers /\ k[2] # NoPeriod
      BY <1>1, <1>2, DatabaseAssumption DEF Keys
    <2>3. \A j \in Keys : j[2] = NoPeriod \/ j \in Publisher \X Period
      BY DEF Keys
    <2>4. \A j \in Keys : j \in SavedKeys' <=> j \in SavedKeys \/ j = k
      BY <1>1, <1>4, <2>1, <2>2, <2>3 DEF SavedKeys, Keys
    <2>5. SavedKeys' \subseteq Keys /\ SavedKeys \subseteq Keys
      BY DEF SavedKeys, Keys
    <2> QED
      BY <2>2, <2>4, <2>5
  <1>7. SavedMedia' = SavedMedia
    BY <1>4 DEF SavedMedia
  <1>8. acked' = acked /\ ackedMedia' = ackedMedia
    BY DEF InsertActivity
  <1> QED
    BY <1>1, <1>6, <1>7, <1>8 DEF Keys

\* A media key saved: it is stored and acknowledged in one statement.
LEMMA MediaStatementStores ==
  ASSUME DatabaseInv, NEW c \in Caller, Statement(c), op[c].kind = "media"
  PROVE  \E m \in MediaKey :
           /\ SavedMedia' = SavedMedia \cup {m} /\ ackedMedia' = ackedMedia \cup {m}
           /\ SavedKeys' = SavedKeys /\ acked' = acked
  <1> DEFINE m == op[c].key
             p == op[c].publisher
  <1>1. m \in MediaKey /\ p \in Publisher
    BY OpFields DEF DatabaseInv, Types
  <1>2. ~ InsertPublisher(c) /\ ~ InsertActivity(c) /\ disk = work
    <2>1. pc[c] = "statement"
      BY DEF Statement
    <2>2. ~ inTransaction
      BY WriteFits
    <2> QED
      BY <2>1, <2>2
      DEF InsertPublisher, InsertActivity, DatabaseInv, Phases, Transaction
  <1>3. /\ disk'.publishers = disk.publishers /\ disk'.activity = disk.activity
        /\ disk'.media = [disk.media EXCEPT ![m] = p]
    BY <1>2, WriteFits
  <1>4. disk.media \in [MediaKey -> Publisher \cup {NoPublisher}]
    BY DEF DatabaseInv, Types, Image
  <1>5. SavedMedia' = SavedMedia \cup {m}
    <2> HIDE DEF m, p
    <2> QED
      BY <1>1, <1>3, <1>4, DatabaseAssumption DEF SavedMedia
  <1>6. SavedKeys' = SavedKeys
    BY <1>3 DEF SavedKeys
  <1>7. acked' = acked /\ ackedMedia' = ackedMedia \cup {m}
    BY DEF Statement
  <1> QED
    BY <1>1, <1>5, <1>6, <1>7

\* Every other step leaves the rows as they are; only UpdateActivity
\* acknowledges, and what it acknowledges is saved.
LEMMA OtherStepsKeepRows ==
  ASSUME DatabaseInv, DatabaseInv', [Next]_vars,
         ~ \E c \in Caller : InsertPublisher(c) \/ InsertActivity(c),
         ~ \E c \in Caller : Statement(c) /\ op[c].kind = "media"
  PROVE  /\ SavedKeys' = SavedKeys /\ SavedMedia' = SavedMedia
         /\ ackedMedia' = ackedMedia
         /\ \/ acked' = acked
            \/ \E k \in SavedKeys : acked' = acked \cup {k}
  <1> DEFINE SameRows == /\ disk'.publishers = disk.publishers
                         /\ disk'.activity = disk.activity
                         /\ disk'.media = disk.media
  <1> DEFINE SameAcks == acked' = acked /\ ackedMedia' = ackedMedia
  <1> HIDE DEF SameAcks
  <1>0. /\ work.publishers = disk.publishers /\ work.activity = disk.activity
        /\ work.media = disk.media
    BY DEF DatabaseInv, RowsSound, RowsCommitted, MediaSound
  <1>1. ASSUME SameRows, SameAcks
        PROVE  /\ SavedKeys' = SavedKeys /\ SavedMedia' = SavedMedia
               /\ acked' = acked /\ ackedMedia' = ackedMedia
    BY <1>1, SameRowsSameSaved DEF SameAcks
  <1>2. ASSUME NEW c \in Caller, NEW o \in Ops, Call(c, o)
        PROVE  SameRows /\ SameAcks
    BY <1>2 DEF Call, dbVars, SameAcks
  <1>3. ASSUME NEW c \in Caller, InitStep(c) \/ InitFails(c)
        PROVE  SameRows /\ SameAcks
    <2>1. CASE Create(c)
      BY <2>1, CreateFits DEF Create, SameAcks
    <2>2. CASE ~ Create(c)
      BY <1>0, <1>3, <2>2
      DEF InitStep, InitFails, Open, Begin, EnsureCurrentVersion, Commit, dbVars,
          SameAcks
    <2> QED
      BY <2>1, <2>2
  <1>4. ASSUME NEW c \in Caller, Statement(c), op[c].kind # "media"
        PROVE  SameRows /\ SameAcks
    <2>1. /\ disk' = work' /\ work'.publishers = work.publishers
          /\ work'.activity = work.activity /\ work'.media = work.media
      BY <1>4, WriteFits
    <2> QED
      BY <1>0, <1>4, <2>1 DEF Statement, SameAcks
  <1>5. ASSUME NEW c \in Caller,
               SelectActivity(c) \/ Find(c) \/ LoadMedia(c) \/ StatementFails(c)
        PROVE  SameRows /\ SameAcks
    BY <1>5 DEF SelectActivity, Find, LoadMedia, StatementFails, dbVars, SameAcks
  <1>6. ASSUME NEW c \in Caller, UpdateActivity(c)
        PROVE  /\ SameRows /\ ackedMedia' = ackedMedia
               /\ Key(c) \in SavedKeys /\ acked' = acked \cup {Key(c)}
    <2>1. Key(c) = << op[c].publisher, op[c].period >> /\ Key(c) \in Publisher \X Period
      BY <1>6, KeyFits DEF UpdateActivity, DatabaseInv, SaveSteps
    <2>2. op[c].publisher \in disk.publishers /\ disk.activity[Key(c)] > 0
      BY <1>6
      DEF UpdateActivity, DatabaseInv, RowsSound, SavesProgress, SaveSteps
    <2>3. Key(c) \in SavedKeys
      BY <2>1, <2>2 DEF SavedKeys
    <2> QED
      BY <1>6, <2>3 DEF UpdateActivity, Ack, dbVars
  <1>7. ASSUME Crash \/ UNCHANGED vars
        PROVE  SameRows /\ SameAcks
    BY <1>7 DEF Crash, vars, dbVars, SameAcks
  <1>8. \/ \E c \in Caller, o \in Ops : Call(c, o)
        \/ \E c \in Caller : InitStep(c) \/ InitFails(c)
        \/ \E c \in Caller : Statement(c) /\ op[c].kind # "media"
        \/ \E c \in Caller :
             SelectActivity(c) \/ Find(c) \/ LoadMedia(c) \/ StatementFails(c)
        \/ \E c \in Caller : UpdateActivity(c)
        \/ Crash \/ UNCHANGED vars
    BY DEF Next, OpStep, LoadMediaNotFound
  <1>9. CASE \E c \in Caller : UpdateActivity(c)
    BY <1>6, <1>9, SameRowsSameSaved
  <1>10. CASE ~ \E c \in Caller : UpdateActivity(c)
    <2>1. SameRows /\ SameAcks
      BY <1>2, <1>3, <1>4, <1>5, <1>7, <1>8, <1>10
    <2> QED
      BY <1>1, <2>1
  <1> QED
    BY <1>9, <1>10

\* PublisherInfoDatabase implements DurableSaves twice over, for publishers
\* with their activity rows and for media keys: whatever threads, errors and
\* crashes interleave, nothing saved is lost and true is answered only of what
\* is saved.
THEOREM SavesImplementDurableSaves == Spec => SavesAreDurable
  <1>1. Init => Saves!Init /\ MediaSaves!Init
    <2> SUFFICES ASSUME Init PROVE SavedKeys = {} /\ SavedMedia = {}
                                   /\ acked = {} /\ ackedMedia = {}
      BY DEF Saves!Init, MediaSaves!Init
    <2>1. PICK v \in DiskVersions : disk = EmptyImage(v)
      BY DEF Init
    <2>2. /\ disk.publishers = {}
          /\ \A m \in MediaKey : disk.media[m] = NoPublisher
      BY <2>1 DEF EmptyImage
    <2> QED
      BY <2>2 DEF SavedKeys, SavedMedia, Init
  <1>2. DatabaseInv /\ DatabaseInv' /\ [Next]_vars
          => /\ [Saves!Next]_<<SavedKeys, acked>>
             /\ [MediaSaves!Next]_<<SavedMedia, ackedMedia>>
    <2> SUFFICES ASSUME DatabaseInv, DatabaseInv', [Next]_vars
                 PROVE  /\ [Saves!Next]_<<SavedKeys, acked>>
                        /\ [MediaSaves!Next]_<<SavedMedia, ackedMedia>>
      OBVIOUS
    <2> USE DEF Saves!Next, Saves!Store, Saves!Acknowledge,
                Saves!StoreAndAcknowledge, MediaSaves!Next, MediaSaves!Store,
                MediaSaves!Acknowledge, MediaSaves!StoreAndAcknowledge
    <2>1. CASE \E c \in Caller : InsertPublisher(c) \/ InsertActivity(c)
      <3>1. PICK c \in Caller : InsertPublisher(c) \/ InsertActivity(c)
        BY <2>1
      <3>2. PICK k \in Keys :
              /\ SavedKeys' = SavedKeys \cup {k} /\ SavedMedia' = SavedMedia
              /\ acked' = acked \/ acked' = acked \cup {k}
              /\ ackedMedia' = ackedMedia
        BY <3>1, InsertPublisherStores, InsertActivityStores
      <3> QED
        BY <3>2 DEF Keys
    <2>2. CASE \E c \in Caller : Statement(c) /\ op[c].kind = "media"
      <3>1. PICK c \in Caller : Statement(c) /\ op[c].kind = "media"
        BY <2>2
      <3>2. PICK m \in MediaKey :
              /\ SavedMedia' = SavedMedia \cup {m}
              /\ ackedMedia' = ackedMedia \cup {m}
              /\ SavedKeys' = SavedKeys /\ acked' = acked
        BY <3>1, MediaStatementStores
      <3> QED
        BY <3>2
    <2>3. CASE ~ (\/ \E c \in Caller : InsertPublisher(c) \/ InsertActivity(c)
                  \/ \E c \in Caller : Statement(c) /\ op[c].kind = "media")
      <3>1. /\ SavedKeys' = SavedKeys /\ SavedMedia' = SavedMedia
            /\ ackedMedia' = ackedMedia
            /\ \/ acked' = acked
               \/ \E k \in SavedKeys : acked' = acked \cup {k}
        BY <2>3, OtherStepsKeepRows
      <3>2. SavedKeys \subseteq Keys
        BY DEF SavedKeys, Keys
      <3> QED
        BY <3>1, <3>2 DEF Keys
    <2> QED
      BY <2>1, <2>2, <2>3
  <1> QED
    BY DatabaseInvariant, <1>1, <1>2, PTL
    DEF Spec, SavesAreDurable, Saves!Spec, MediaSaves!Spec
=============================================================================

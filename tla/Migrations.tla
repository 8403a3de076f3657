----------------------------- MODULE Migrations -----------------------------
(***************************************************************************)
(* The schema of the case store and how it comes about: the revisions      *)
(* under alembic/versions, run by env.py, and create_all, run by the API   *)
(* when it starts with DB_AUTO_CREATE. Indexes and the columns that no     *)
(* revision touches are left out. The database is PostgreSQL: a migration  *)
(* is one transaction from its first revision to its last. Every table     *)
(* refers to exception_cases, so that the first statement of a migration   *)
(* that creates or drops one waits for any other that has done so.         *)
(***************************************************************************)
EXTENDS Naturals, Sequences, SequencesExt

CONSTANTS
    Runners,          \* commands and starting APIs that may run at once
    Cases             \* the cases that may be stored

VARIABLES
    db_auto_create,   \* the setting DB_AUTO_CREATE of the deployment
    db,               \* what is committed: schema, revision, rows
    runner            \* the transaction of each runner

vars == <<db_auto_create, db, runner>>

-----------------------------------------------------------------------------
(* The schema: its tables, and the one column that a revision adds. What   *)
(* each revision creates, in its order, and what its downgrade drops.      *)
Column == "execution_state"

Phase4Baseline ==
    <<"exception_cases", "audit_events", "ai_records", "approval_decisions">>
Phase5Alignment == <<Column, "execution_records">>
Phase7Evidence == <<"evidence_records">>

DropPhase4 ==
    <<"approval_decisions", "ai_records", "audit_events", "exception_cases">>
DropPhase5 == <<"execution_records", Column>>
DropPhase7 == <<"evidence_records">>

(* The chain of revisions, up and down; 0 is the empty database.           *)
Revision == 0 .. 3
Up == <<Phase4Baseline, Phase5Alignment, Phase7Evidence>>

(* Mutant of Down: the tables fall in the order they were made.            *)
DownInOrder == Up

Down == <<DropPhase4, DropPhase5, DropPhase7>>

Object == UNION {ToSet(Up[v]) : v \in 1 .. 3}
RefersTo(o) == IF o = "exception_cases" THEN {} ELSE {"exception_cases"}

(* The tables of models.py, in the order of their dependencies.            *)
Models ==
    <<"exception_cases", "audit_events", "ai_records", "approval_decisions",
      "evidence_records", "execution_records">>

SchemaOf(version) == UNION {ToSet(Up[v]) : v \in 1 .. version}

(* A row is "new" without the column, and holds in it the name of a member *)
(* of the enumeration, as the models store it, or its value.               *)
Row == {"absent", "new", "name", "value"}

Statement ==
    [op: {"create", "drop"}, object: Object] \cup [op: {"stamp"}, from: Revision,
                                                   to: Revision]

Create(o) == [op |-> "create", object |-> o]
Drop(o) == [op |-> "drop", object |-> o]
Stamp(from, to) == [op |-> "stamp", from |-> from, to |-> to]

Statements(Make(_), objects) == [i \in DOMAIN objects |-> Make(objects[i])]

(* Mutant of Upgrading: every revision is stamped as the one after it.     *)
StampedOneAhead(from) ==
    FlattenSeq([i \in 1 .. (3 - from) |->
                  Append(Statements(Create, Up[from + i]),
                         Stamp(from + i - 1, from + i + 1))])

(* The statements of a command: those of its revisions, each followed by   *)
(* the update of alembic_version.                                          *)
Upgrading(from) ==
    FlattenSeq([i \in 1 .. (3 - from) |->
                  Append(Statements(Create, Up[from + i]),
                         Stamp(from + i - 1, from + i))])
Downgrading(from, to) ==
    FlattenSeq([i \in 1 .. (from - to) |->
                  Append(Statements(Drop, Down[from + 1 - i]),
                         Stamp(from + 1 - i, from - i))])

(* create_all: the tables that are not there, with all their columns.      *)
Missing(schema) ==
    FlattenSeq([i \in DOMAIN Models |->
                  IF Models[i] \in schema THEN <<>> ELSE <<Create(Models[i])>>])
    \o (IF "exception_cases" \in schema THEN <<>> ELSE <<Create(Column)>>)

-----------------------------------------------------------------------------
Database ==
    [schema: SUBSET Object, version: Revision, rows: [Cases -> Row]]
Idle == [pc |-> "idle", read |-> 0, todo |-> <<>>]

MigrationsTypeOK ==
    /\ db_auto_create \in BOOLEAN
    /\ db \in Database
    /\ \A r \in Runners :
         /\ runner[r].pc \in {"idle", "planned", "inside"}
         /\ runner[r].todo \in Seq(Statement)
         /\ runner[r].pc = "inside" => runner[r].db \in Database

Init ==
    /\ db_auto_create \in BOOLEAN
    /\ db = [schema |-> {}, version |-> 0, rows |-> [c \in Cases |-> "absent"]]
    /\ runner = [r \in Runners |-> Idle]

(* Mutant of RowsAfter: the table is made anew for the column.             *)
RecreatedEmpty(statement, rows) ==
    [c \in Cases |->
       CASE statement = Create(Column) -> "absent"
         [] rows[c] # "absent" /\ statement = Drop(Column) -> "new"
         [] statement = Drop("exception_cases") -> "absent"
         [] OTHER -> rows[c]]

(* A new column fills the rows with its server_default, the value and not  *)
(* the name; without the column, or the table, its contents are gone.      *)
RowsAfter(statement, rows) ==
    [c \in Cases |->
       IF rows[c] = "absent" THEN "absent"
       ELSE CASE statement = Create(Column) -> "value"
              [] statement = Drop(Column) -> "new"
              [] statement = Drop("exception_cases") -> "absent"
              [] OTHER -> rows[c]]

(* Mutant of Possible: whatever the version is, it is overwritten.         *)
StampsAnything(statement, base) ==
    CASE statement.op = "create" ->
           /\ statement.object \notin base.schema
           /\ RefersTo(statement.object) \subseteq base.schema
      [] statement.op = "drop" ->
           /\ statement.object \in base.schema
           /\ \A o \in base.schema : statement.object \notin RefersTo(o)
      [] statement.op = "stamp" -> TRUE

(* A table cannot be made twice, nor dropped under those that refer to it; *)
(* alembic updates the one row that holds the version it started from, or  *)
(* raises.                                                                 *)
Possible(statement, base) ==
    CASE statement.op = "create" ->
           /\ statement.object \notin base.schema
           /\ RefersTo(statement.object) \subseteq base.schema
      [] statement.op = "drop" ->
           /\ statement.object \in base.schema
           /\ \A o \in base.schema : statement.object \notin RefersTo(o)
      [] statement.op = "stamp" -> base.version = statement.from

After(statement, base) ==
    CASE statement.op = "create" ->
           [base EXCEPT !.schema = @ \cup {statement.object},
                        !.rows = RowsAfter(statement, @)]
      [] statement.op = "drop" ->
           [base EXCEPT !.schema = @ \ {statement.object},
                        !.rows = RowsAfter(statement, @)]
      [] statement.op = "stamp" -> [base EXCEPT !.version = statement.to]

-----------------------------------------------------------------------------
Plan(r, statements) ==
    /\ runner[r].pc = "idle"
    /\ statements # <<>>
    /\ runner' = [runner EXCEPT ![r] = [pc |-> "planned", read |-> db.version,
                                        todo |-> statements]]
    /\ UNCHANGED db

(* alembic upgrade head, and alembic downgrade.                            *)
UpgradeHead(r) == Plan(r, Upgrading(db.version))
Downgrade(r) == \E to \in 0 .. db.version : Plan(r, Downgrading(db.version, to))

(* init_db of an API that starts.                                          *)
InitDb(r) == db_auto_create /\ Plan(r, Missing(db.schema))

(* The first statement gets the lock; what was planned may be out of date. *)
Locked == \E r \in Runners : runner[r].pc = "inside"
Enter(r) ==
    /\ runner[r].pc = "planned"
    /\ ~Locked
    /\ runner' = [runner EXCEPT ![r] = [pc |-> "inside", read |-> @.read,
                                        todo |-> @.todo, db |-> db]]
    /\ UNCHANGED db

(* Mutant of Execute: every statement is committed on its own.             *)
ExecuteAndCommit(r) ==
    /\ runner[r].pc = "inside" /\ runner[r].todo # <<>>
    /\ Possible(Head(runner[r].todo), runner[r].db)
    /\ db' = After(Head(runner[r].todo), runner[r].db)
    /\ runner' = [runner EXCEPT ![r].db = db', ![r].todo = Tail(@)]

Execute(r) ==
    /\ runner[r].pc = "inside" /\ runner[r].todo # <<>>
    /\ Possible(Head(runner[r].todo), runner[r].db)
    /\ runner' = [runner EXCEPT ![r].db = After(Head(runner[r].todo), @),
                                ![r].todo = Tail(@)]
    /\ UNCHANGED db

CommitAll(r) ==
    /\ runner[r].pc = "inside" /\ runner[r].todo = <<>>
    /\ db' = runner[r].db
    /\ runner' = [runner EXCEPT ![r] = Idle]

Raise(r) ==
    /\ runner[r].pc = "inside" /\ runner[r].todo # <<>>
    /\ ~Possible(Head(runner[r].todo), runner[r].db)
    /\ runner' = [runner EXCEPT ![r] = Idle]
    /\ UNCHANGED db

(* The command is interrupted or loses its connection: a rollback.         *)
Crash(r) ==
    /\ runner[r].pc # "idle"
    /\ runner' = [runner EXCEPT ![r] = Idle]
    /\ UNCHANGED db

(* The application stores a case; the release before revision 2, which is  *)
(* not in the repository, knew nothing of the column.                      *)
InsertCase(c) ==
    /\ db.rows[c] = "absent" /\ ~Locked
    /\ {"exception_cases", "audit_events", Column} \subseteq db.schema
    /\ db' = [db EXCEPT !.rows[c] = "name"]
    /\ UNCHANGED runner

InsertByPhase4(c) ==
    /\ db.rows[c] = "absent" /\ ~Locked
    /\ {"exception_cases", "audit_events"} \subseteq db.schema
    /\ Column \notin db.schema
    /\ db' = [db EXCEPT !.rows[c] = "new"]
    /\ UNCHANGED runner

Next ==
    /\ \/ \E r \in Runners :
            \/ UpgradeHead(r) \/ Downgrade(r) \/ InitDb(r) \/ Enter(r)
            \/ Execute(r) \/ CommitAll(r) \/ Raise(r) \/ Crash(r)
       \/ \E c \in Cases : InsertCase(c) \/ InsertByPhase4(c)
    /\ UNCHANGED db_auto_create

Spec == Init /\ [][Next]_vars
-----------------------------------------------------------------------------
(* Without create_all the schema is the one of the revision it says it is, *)
(* after interrupted and concurrent commands too, and at the last revision *)
(* it has every table of the models and the column they map.               *)
SchemaMatchesRevision ==
    ~db_auto_create =>
        /\ db.schema = SchemaOf(db.version)
        /\ db.version = 3 => db.schema = ToSet(Models) \cup {Column}

(* Without create_all a command raises only when another one has got in    *)
(* between: nothing in the revisions themselves is in the way of going up  *)
(* or down from any revision to any other, with or without cases stored.   *)
RaisesOnlyWhenOvertaken ==
    [][\A r \in Runners :
         Raise(r) /\ ~db_auto_create => db.version # runner[r].read]_vars

(* create_all may put tables beside the revision, and a later upgrade then *)
(* raises; but the tables of the revision are there at any time.           *)
AtLeastItsRevision == SchemaOf(db.version) \subseteq db.schema

(* No command loses a case but the downgrade that drops the first          *)
(* revision, whatever create_all has done before.                          *)
CasesSurvive ==
    [][\A c \in Cases :
         db.rows[c] # "absent" /\ db'.rows[c] = "absent"
           => db.version > 0 /\ db'.version = 0]_vars

(* What an upgrade makes of an existing database can be read: a row whose  *)
(* column does not hold the name of a member raises LookupError when it is *)
(* loaded, on every page that lists it.                                    *)
EveryCaseReadable ==
    db.version = 3 => \A c \in Cases : db.rows[c] \in {"absent", "name"}
=============================================================================

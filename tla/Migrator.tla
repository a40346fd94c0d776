------------------------------ MODULE Migrator ------------------------------
(***************************************************************************)
(* Db and DbMigrator (server/src/db/db.cpp, migrator.cpp) with the files   *)
(* of server/migrations: the database as the connection sees it (view) and *)
(* as it is on disk.  A file runs between BEGIN and COMMIT; sqlite3_exec   *)
(* stops at the first statement that fails and nobody rolls back, so the   *)
(* connection stays in the transaction and everything it writes from then  *)
(* on is gone when the process ends.                                       *)
(***************************************************************************)
EXTENDS Integers, Sequences

CONSTANTS TaskId,       \* ids of legacy tasks: 1, 2, ...
          NoRow,        \* "no such row"
          MaxFailures   \* bound: statements that fail for an outside reason

VARIABLES view,         \* the database seen by the connection
          disk,         \* the committed database
          inTx,         \* the connection is in a transaction
          mig,          \* where migrate() stands
          fault,        \* a statement of this boot has failed
          failures      \* number of failed statements

dbVars == <<view, disk, inTx, mig, fault, failures>>

(* Two columns stand for the four that 002 adds to tasks. *)
V101Columns == {"timeout_sec", "cancel_flag"}
Object      == {"tasks", "meta", "templates", "runs", "name", "schema"} \cup V101Columns
Program     == 6        \* PROGRAM_SCHEMA_VERSION

Create(o)    == [op |-> "create", obj |-> o, on |-> o]       \* CREATE TABLE IF NOT EXISTS
Alter(on, o) == [op |-> "alter", obj |-> o, on |-> on]       \* ALTER TABLE ADD COLUMN
SetVersion   == [op |-> "version", obj |-> "meta", on |-> "meta"]
File(v) == CASE v = 1 -> <<Create("tasks"), Create("meta"), SetVersion>>
             [] v = 2 -> <<Alter("tasks", "timeout_sec"), Alter("tasks", "cancel_flag"), SetVersion>>
             [] v = 3 -> <<Create("templates"), SetVersion>>
             [] v = 4 -> <<Create("runs"), SetVersion>>
             [] v = 5 -> <<Alter("runs", "name"), SetVersion>>
             [] v = 6 -> <<Alter("runs", "schema"), SetVersion>>

(* The first file inserts the version row, the others update it, if it is  *)
(* there.                                                                  *)
Possible(s, d) == /\ s.op # "create" => s.on \in d.obj
                  /\ s.op = "alter" => s.obj \notin d.obj
Effect(s, v, d) ==
    IF s.op = "version" THEN [d EXCEPT !.ver = IF v = 1 \/ @ # 0 THEN v ELSE 0]
                        ELSE [d EXCEPT !.obj = @ \cup {s.obj}]

(* A statement outside a transaction is committed at once. *)
Write(d) == view' = d /\ disk' = IF inTx THEN disk ELSE d

At(l)     == mig.pc = l
Goto(l)   == mig' = [mig EXCEPT !.pc = l]
Fails     == failures < MaxFailures /\ failures' = failures + 1 /\ fault' = TRUE
KeepFault == UNCHANGED <<failures, fault>>

(* migrate, with get_db_schema_version; apply_migrations starts at v. *)
Apply(v) == mig' = IF v <= Program THEN [pc |-> "begin", v |-> v, k |-> 1] ELSE [mig EXCEPT !.pc = "done"]

get_db_schema_version == view.ver
table_exists(o)  == o \in view.obj
column_exists(o) == o \in view.obj

migrate ==
    /\ At("version")
    /\ IF get_db_schema_version = 0 THEN Goto("infer") ELSE Apply(get_db_schema_version + 1)
    /\ KeepFault /\ UNCHANGED <<view, disk, inTx>>

(* infer_schema_version_and_bootstrap_meta *)
Inferred == IF \A c \in V101Columns : column_exists(c) THEN 2 ELSE 1

Infer ==
    /\ At("infer")
    /\ IF ~table_exists("tasks") THEN Apply(1)
       ELSE IF ~table_exists("meta") THEN Goto("createMeta")
       ELSE Apply(Inferred + 1)
    /\ KeepFault /\ UNCHANGED <<view, disk, inTx>>

CreateMeta ==
    /\ At("createMeta")
    /\ Goto("insertMeta")
    /\ \/ Write([view EXCEPT !.obj = @ \cup {"meta"}]) /\ KeepFault
       \/ Fails /\ UNCHANGED <<view, disk>>
    /\ UNCHANGED inTx

InsertMeta ==
    /\ At("insertMeta")
    /\ Apply(Inferred + 1)
    /\ \/ "meta" \in view.obj /\ Write([view EXCEPT !.ver = Inferred]) /\ KeepFault
       \/ "meta" \notin view.obj /\ KeepFault /\ UNCHANGED <<view, disk>>
       \/ Fails /\ UNCHANGED <<view, disk>>
    /\ UNCHANGED inTx

(* exec_sql_file: a file that cannot be read runs no statement; BEGIN      *)
(* fails inside a transaction.                                             *)
Begin ==
    /\ At("begin")
    /\ \/ ~inTx /\ inTx' = TRUE /\ Goto("exec") /\ KeepFault
       \/ inTx /\ Goto("check") /\ KeepFault /\ UNCHANGED inTx
       \/ Fails /\ Goto("check") /\ UNCHANGED inTx
    /\ UNCHANGED <<view, disk>>

Exec ==
    /\ At("exec") /\ mig.k <= Len(File(mig.v))
    /\ LET s == File(mig.v)[mig.k]
       IN  \/ Possible(s, view) /\ view' = Effect(s, mig.v, view) /\ KeepFault
              /\ mig' = [mig EXCEPT !.k = @ + 1]
           \/ ~Possible(s, view) /\ Goto("check") /\ KeepFault /\ UNCHANGED view
           \/ Fails /\ Goto("check") /\ UNCHANGED view
    /\ UNCHANGED <<disk, inTx>>

(* Mutant: a file is not committed. *)
Commit_Forgotten ==
    /\ At("exec") /\ mig.k > Len(File(mig.v))
    /\ Goto("check")
    /\ KeepFault /\ UNCHANGED <<view, disk, inTx>>

Commit ==
    /\ At("exec") /\ mig.k > Len(File(mig.v))
    /\ Goto("check")
    /\ \/ inTx' = FALSE /\ disk' = view /\ KeepFault
       \/ Fails /\ UNCHANGED <<inTx, disk>>
    /\ UNCHANGED view

(* apply_migrations goes on if the version has advanced; what the first    *)
(* file did is not looked at.                                              *)
CheckVersion ==
    /\ At("check")
    /\ IF mig.v = 1 \/ get_db_schema_version = mig.v THEN Apply(mig.v + 1) ELSE Goto("done")
    /\ KeepFault /\ UNCHANGED <<view, disk, inTx>>

MigrateStep == migrate \/ Infer \/ CreateMeta \/ InsertMeta \/ Begin \/ Exec \/ Commit \/ CheckVersion

(* Db::open after the process has ended: what was not committed is gone. *)
open == /\ view' = disk /\ inTx' = FALSE /\ fault' = FALSE
        /\ mig' = [pc |-> "version", v |-> 0, k |-> 0]
        /\ UNCHANGED <<disk, failures>>

(* The databases the program may find: none, or one of an earlier program, *)
(* which had no meta table.                                                *)
Found(rows) == {[obj |-> o, ver |-> 0, rows |-> rows] : o \in {{"tasks"}, {"tasks"} \cup V101Columns}}
Empty       == [obj |-> {}, ver |-> 0, rows |-> [t \in TaskId |-> NoRow]]
DbInit(rows) == /\ disk \in Found(rows) \cup {Empty}
                /\ view = disk /\ inTx = FALSE /\ fault = FALSE /\ failures = 0
                /\ mig = [pc |-> "version", v |-> 0, k |-> 0]
-----------------------------------------------------------------------------
(* A start at which no statement fails ends at the program's version, with *)
(* all of its tables and columns, committed, from whatever earlier starts  *)
(* and crashes left behind.  One state is excepted: a meta table without   *)
(* its row, which a crash between the two statements of                    *)
(* infer_schema_version_and_bootstrap_meta leaves.                         *)
OrphanMeta == "meta" \in disk.obj /\ disk.ver = 0
MigrationComplete == (At("done") /\ ~fault) =>
    \/ view.ver = Program /\ view.obj = Object /\ view = disk
    \/ OrphanMeta

(* The version on disk never says more than the tables on disk. *)
VersionHonest == \A v \in 1..Program : disk.ver >= v =>
    {File(v)[j].obj : j \in 1..Len(File(v))} \subseteq disk.obj

(* Over failing statements, crashes and restarts the version never runs     *)
(* ahead of the tables, and a start without fault completes both.           *)
MigrationSafe == MigrationComplete /\ VersionHonest
=============================================================================

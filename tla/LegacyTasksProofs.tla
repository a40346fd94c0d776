-------------------------- MODULE LegacyTasksProofs --------------------------
(***************************************************************************)
(* Proofs about Migrator and LegacyTasks, for every set of task ids and of *)
(* worker threads, all retries and any number of failing statements,       *)
(* crashes and cancellations.                                              *)
(***************************************************************************)
EXTENDS LegacyTasks, WellFoundedInduction, TLAPS

Rows == [TaskId -> Task \cup {NoRow}]
Db   == [obj : SUBSET Object, ver : 0..Program, rows : Rows]
MigPc == {"version", "infer", "createMeta", "insertMeta", "begin", "exec", "check", "done"}
DbOK == /\ view \in Db /\ disk \in Db
        /\ inTx \in BOOLEAN /\ fault \in BOOLEAN /\ failures \in Nat
        /\ mig \in [pc : MigPc, v : 0..Program, k : 0..4]

(***************************************************************************)
(* The migrations.  On disk there is either a version with exactly its     *)
(* tables and columns, or no version and what an earlier program or the    *)
(* inference of the version left.                                          *)
(***************************************************************************)
Objs(v) == CASE v = 1 -> {"tasks", "meta"}
             [] v = 2 -> {"tasks", "meta", "timeout_sec", "cancel_flag"}
             [] v = 3 -> {"tasks", "meta", "timeout_sec", "cancel_flag", "templates"}
             [] v = 4 -> {"tasks", "meta", "timeout_sec", "cancel_flag", "templates", "runs"}
             [] v = 5 -> {"tasks", "meta", "timeout_sec", "cancel_flag", "templates", "runs", "name"}
             [] v = 6 -> {"tasks", "meta", "timeout_sec", "cancel_flag", "templates", "runs", "name", "schema"}
Unnamed == {{"tasks"}, {"tasks", "timeout_sec", "cancel_flag"}}
Named   == {{"tasks", "meta"}, {"tasks", "meta", "timeout_sec", "cancel_flag"}}
Orphans == Named \cup {{"tasks", "meta", "timeout_sec", "cancel_flag", "templates"}}
Shape(d) == \/ d.ver \in 1..Program /\ d.obj = Objs(d.ver)
            \/ d.ver = 0 /\ d.obj \in {{}} \cup Unnamed \cup Orphans

(* What is on disk when the file of version v is due. *)
Ready(v) == \/ disk.ver = 0 /\ disk.obj = {} /\ v = 1
            \/ disk.ver = v - 1 /\ v > 1
            \/ disk.ver = 0 /\ disk.obj \in Orphans
                            /\ v = IF V101Columns \subseteq disk.obj THEN 3 ELSE 2
            \/ disk.ver = 0 /\ disk.obj \in {{}} \cup Unnamed /\ v \in {2, 3} /\ fault

(* What the first statements of a file have done. *)
Before(v, k) == {File(v)[j].obj : j \in 1..(k - 1)}
Progress(v, k) ==
    /\ k \in 1..(Len(File(v)) + 1)
    /\ k <= Len(File(v)) => view.ver = disk.ver /\ view.obj = disk.obj \cup Before(v, k)
    /\ k > Len(File(v)) => \/ view.ver = v /\ view.obj = Objs(v)
                           \/ view.ver = 0 /\ view.obj \in Orphans /\ v # 1

MigInv ==
    /\ Shape(disk)
    /\ ~inTx => view = disk
    /\ At("version") => ~inTx /\ ~fault
    /\ At("infer") => ~inTx /\ ~fault /\ disk.ver = 0
    /\ At("createMeta") => ~inTx /\ ~fault /\ disk.ver = 0 /\ disk.obj \in Unnamed
    /\ At("insertMeta") => ~inTx /\ disk.ver = 0 /\ (disk.obj \in Named \/ (fault /\ disk.obj \in Unnamed))
    /\ At("begin") => mig.v \in 1..Program /\ mig.k = 1 /\ IF inTx THEN fault ELSE Ready(mig.v)
    /\ At("exec") => mig.v \in 1..Program /\ inTx /\ Ready(mig.v) /\ Progress(mig.v, mig.k)
    /\ At("check") => /\ mig.v \in 1..Program
                      /\ ~fault => ~inTx /\ (disk.ver = mig.v \/ (OrphanMeta /\ mig.v # 1))
                      /\ ~inTx /\ mig.v = 1 => disk.ver = 1 \/ (disk.ver = 0 /\ disk.obj = {} /\ fault)
    /\ At("done") => (fault \/ (~inTx /\ (disk.ver = Program \/ OrphanMeta)))

(***************************************************************************)
(* The tasks.                                                              *)
(***************************************************************************)
Writing == {"write", "writeRetry"}
WorkerPc == {"idle", "start", "setRunning", "loop", "run", "failed", "final", "save", "saveRetry"} \cup Writing
WorkerState == [pc : WorkerPc, task : TaskId \cup {Nobody}, attempt : Nat,
                out : {"ok", "fail", "timeout", "canceled"}, seen : Status]
MemOK == /\ tasks \in Rows /\ nextId \in Nat \ {0}
         /\ loaded \in BOOLEAN /\ stopping \in BOOLEAN
         /\ creating \in TaskId \cup {Nobody} /\ queue \in Seq(TaskId)
         /\ lock \in Worker \cup {Nobody, "canc"}
         /\ wk \in [Worker -> WorkerState]
         /\ canc \in [pc : {"idle", "flag", "save", "write"}, task : TaskId \cup {Nobody}, seen : Status]
         /\ late \in [TaskId -> Nat]

(* Before load_from_db nobody works on a task. *)
BootInv == /\ loaded => At("done")
           /\ ~loaded => /\ tasks = [t \in TaskId |-> NoRow] /\ creating = Nobody /\ queue = <<>>
                         /\ lock = Nobody /\ wk = [w \in Worker |-> Idle] /\ canc = Resting
                         /\ late = [t \in TaskId |-> 0]

(* Ids below m_next_id are taken, and there is a largest one. *)
FreshInv == /\ \A t \in TaskId : tasks[t] # NoRow => t < nextId
            /\ loaded /\ Full => \A t \in TaskId : Stored(t) => t < nextId
            /\ \E n \in Nat : \A t \in TaskId : (view.rows[t] # NoRow \/ disk.rows[t] # NoRow) => t <= n

(* Who works on a task works on one there is, ... *)
HandledInv ==
    /\ \A w \in Worker : IF wk[w].pc = "idle" THEN wk[w].task = Nobody
                         ELSE wk[w].task \in TaskId /\ tasks[wk[w].task] # NoRow
    /\ IF canc.pc = "idle" THEN canc = Resting ELSE canc.task \in TaskId /\ tasks[canc.task] # NoRow
    /\ \A i \in DOMAIN queue : tasks[queue[i]] # NoRow
    /\ creating # Nobody => tasks[creating] # NoRow

(* ... and a task is submitted once: it is waiting or has one worker. *)
OnceInv ==
    /\ \A w, u \in Worker : wk[w].task = wk[u].task /\ wk[w].task # Nobody => w = u
    /\ \A i, j \in DOMAIN queue : queue[i] = queue[j] => i = j
    /\ \A i \in DOMAIN queue : \A w \in Worker : wk[w].task # queue[i]
    /\ \A i \in DOMAIN queue : queue[i] # creating
    /\ \A w \in Worker : wk[w].task = creating => creating = Nobody

LockInv == /\ \A w \in Worker : wk[w].pc \in Writing <=> lock = w
           /\ canc.pc = "write" <=> lock = "canc"

(* The status that updateTask has read is still the status when the row is *)
(* written, unless a worker has taken the task and will write it again.    *)
SeenInv ==
    /\ \A w \in Worker : wk[w].pc \in Writing => wk[w].seen = tasks[wk[w].task].status
    /\ canc.pc = "write" /\ (\A w \in Worker : wk[w].task # canc.task) => canc.seen = tasks[canc.task].status

RowInv == \A t \in TaskId :
    loaded /\ Full /\ tasks[t] # NoRow /\ Stored(t) /\ canc.task # t /\ (\A w \in Worker : wk[w].task # t)
        => view.rows[t] = tasks[t]

(* After a late attempt the flag stays set and is seen before the next. *)
LateInv == \A t \in TaskId :
    /\ late[t] <= 1
    /\ late[t] # 0 => /\ tasks[t] # NoRow /\ tasks[t].cancel
                      /\ \A w \in Worker : wk[w].task = t => wk[w].pc # "run"

MemInv == BootInv /\ FreshInv /\ HandledInv /\ OnceInv /\ LockInv /\ SeenInv /\ RowInv /\ LateInv
IInv   == DbOK /\ MigInv /\ MemOK /\ MemInv

-----------------------------------------------------------------------------
(***************************************************************************)
(* The migration files.                                                    *)
(***************************************************************************)
(* The statements of the files, one by one. *)
LEMMA FileFacts ==
    /\ File(1) = <<Create("tasks"), Create("meta"), SetVersion>>
    /\ File(2) = <<Alter("tasks", "timeout_sec"), Alter("tasks", "cancel_flag"), SetVersion>>
    /\ File(3) = <<Create("templates"), SetVersion>>
    /\ File(4) = <<Create("runs"), SetVersion>>
    /\ File(5) = <<Alter("runs", "name"), SetVersion>>
    /\ File(6) = <<Alter("runs", "schema"), SetVersion>>
  BY DEF File

LEMMA LenFacts ==
    /\ Len(File(1)) = 3 /\ Len(File(2)) = 3 /\ Len(File(3)) = 2
    /\ Len(File(4)) = 2 /\ Len(File(5)) = 2 /\ Len(File(6)) = 2
  BY FileFacts

(* The objects that a prefix of a file brings. *)
LEMMA BeforeFacts ==
    ASSUME NEW v \in 1..6
    PROVE  /\ Before(v, 1) = {} /\ Before(v, 2) = {File(v)[1].obj}
           /\ Before(v, 3) = {File(v)[1].obj, File(v)[2].obj}
<1>1. 1..(1 - 1) = {} /\ 1..(2 - 1) = {1} /\ 1..(3 - 1) = {1, 2}
  OBVIOUS
<1> QED
  BY <1>1 DEF Before

(* Versions are numbers from 1 to 6, with their objects. *)
LEMMA ObjsFacts ==
    /\ \A v \in 1..6 : v \in {1, 2, 3, 4, 5, 6}
    /\ Objs(1) = {"tasks", "meta"}
    /\ Objs(2) = {"tasks", "meta", "timeout_sec", "cancel_flag"}
    /\ Objs(3) = {"tasks", "meta", "timeout_sec", "cancel_flag", "templates"}
    /\ Objs(4) = {"tasks", "meta", "timeout_sec", "cancel_flag", "templates", "runs"}
    /\ Objs(5) = {"tasks", "meta", "timeout_sec", "cancel_flag", "templates", "runs", "name"}
    /\ Objs(6) = {"tasks", "meta", "timeout_sec", "cancel_flag", "templates", "runs", "name", "schema"}
    /\ Objs(6) = Object
<1>1. \A v \in 1..6 : v \in {1, 2, 3, 4, 5, 6}
  OBVIOUS
<1>2. /\ Objs(1) = {"tasks", "meta"}
      /\ Objs(2) = {"tasks", "meta", "timeout_sec", "cancel_flag"}
      /\ Objs(3) = {"tasks", "meta", "timeout_sec", "cancel_flag", "templates"}
      /\ Objs(4) = {"tasks", "meta", "timeout_sec", "cancel_flag", "templates", "runs"}
      /\ Objs(5) = {"tasks", "meta", "timeout_sec", "cancel_flag", "templates", "runs", "name"}
      /\ Objs(6) = {"tasks", "meta", "timeout_sec", "cancel_flag", "templates", "runs", "name", "schema"}
  BY DEF Objs
<1>3. Object = {"tasks", "meta", "timeout_sec", "cancel_flag", "templates", "runs", "name", "schema"}
  BY Zenon DEF Object, V101Columns
<1> QED
  BY <1>1, <1>2, <1>3

(* A version says which objects there are, and no version is an orphan's. *)
LEMMA ShapeHonest == ASSUME DbOK, MigInv PROVE MigrationSafe
<1>1. CASE disk.ver = 0
  <2>1. VersionHonest
    BY <1>1 DEF VersionHonest, Program
  <2>2. MigrationComplete
    BY <1>1, ObjsFacts DEF MigrationComplete, MigInv, OrphanMeta, Program
  <2> QED
    BY <2>1, <2>2 DEF MigrationSafe
<1>2. CASE disk.ver # 0
  <2>1. disk.ver \in 1..6 /\ disk.obj = Objs(disk.ver)
    BY <1>2 DEF MigInv, Shape, Program
  <2>2. VersionHonest
    <3> SUFFICES ASSUME NEW v \in 1..6, disk.ver >= v
                 PROVE  {File(v)[j].obj : j \in 1..Len(File(v))} \subseteq disk.obj
      BY DEF VersionHonest, Program
    <3>1. {File(v)[j].obj : j \in 1..Len(File(v))} \subseteq Objs(v)
      <4> SUFFICES ASSUME NEW j \in 1..Len(File(v)) PROVE File(v)[j].obj \in Objs(v)
        OBVIOUS
      <4>1. v \in {1, 2, 3, 4, 5, 6}
        BY ObjsFacts
      <4>4. 1..2 = {1, 2} /\ 1..3 = {1, 2, 3}
        OBVIOUS
      <4>2. CASE v \in {1, 2}
        <5>1. j \in {1, 2, 3}
          BY <4>2, <4>4, LenFacts, Zenon
        <5> QED
          BY <4>2, <5>1, ObjsFacts, FileFacts DEF Create, Alter, SetVersion
      <4>3. CASE v \in {3, 4, 5, 6}
        <5>1. j \in {1, 2}
          BY <4>3, <4>4, LenFacts, Zenon
        <5> QED
          BY <4>3, <5>1, ObjsFacts, FileFacts DEF Create, Alter, SetVersion
      <4> QED
        BY <4>1, <4>2, <4>3
    <3>2. Objs(v) \subseteq Objs(disk.ver)
      <4>1. disk.ver \in {1, 2, 3, 4, 5, 6} /\ v \in {1, 2, 3, 4, 5, 6}
        BY <2>1, ObjsFacts
      <4> QED
        BY <4>1, <2>1, ObjsFacts
    <3> QED
      BY <3>1, <3>2, <2>1
  <2>3. MigrationComplete
    <3> SUFFICES ASSUME At("done"), ~fault PROVE view.ver = Program /\ view.obj = Object /\ view = disk
      BY DEF MigrationComplete
    <3>1. ~inTx /\ disk.ver = Program /\ view = disk
      BY <1>2 DEF MigInv, OrphanMeta
    <3> QED
      BY <3>1, <2>1, ObjsFacts DEF Program
  <2> QED
    BY <2>2, <2>3 DEF MigrationSafe
<1> QED
  BY <1>1, <1>2

-----------------------------------------------------------------------------
(***************************************************************************)
(* migrate, one lemma per step.                                            *)
(***************************************************************************)
(* Where apply_migrations goes for a version that is due. *)
LEMMA ApplyFacts ==
    ASSUME DbOK, NEW v \in 1..7, Apply(v)
    PROVE  /\ mig' \in [pc : MigPc, v : 0..Program, k : 0..4]
           /\ v <= 6 => mig'.pc = "begin" /\ mig'.v = v /\ mig'.k = 1
           /\ v = 7 => mig'.pc = "done"
<1>1. CASE v <= 6
  BY <1>1 DEF Apply, Program, MigPc
<1>2. CASE v = 7
  BY <1>2 DEF Apply, Program, MigPc, DbOK
<1> QED
  BY <1>1, <1>2

LEMMA GotoFacts ==
    ASSUME DbOK, NEW l \in MigPc, Goto(l)
    PROVE  /\ mig' \in [pc : MigPc, v : 0..Program, k : 0..4]
           /\ mig'.pc = l /\ mig'.v = mig.v /\ mig'.k = mig.k
  BY DEF DbOK, Goto

(* A step to "begin" outside a transaction, with the disk ready. *)
LEMMA BeginReady ==
    ASSUME Shape(disk)', (~inTx => view = disk)', At("begin")', mig'.v \in 1..Program, mig'.k = 1,
           ~inTx', Ready(mig.v)'
    PROVE  MigInv'
  BY DEF MigInv, At

(* A step to "done". *)
LEMMA DoneReady ==
    ASSUME Shape(disk)', (~inTx => view = disk)', At("done")',
           fault' \/ (~inTx' /\ (disk'.ver = Program \/ OrphanMeta'))
    PROVE  MigInv'
  BY DEF MigInv, At

LEMMA migrateKeeps == ASSUME DbOK, MigInv, migrate PROVE DbOK' /\ MigInv'
<1>1. UNCHANGED <<view, disk, inTx, failures, fault>>
  BY DEF migrate, KeepFault
<1>2. ~inTx /\ ~fault /\ view = disk /\ Shape(disk)
  BY DEF MigInv, migrate
<1>3. CASE view.ver = 0
  <2>1. Goto("infer")
    BY <1>3 DEF migrate, get_db_schema_version
  <2>2. mig'.pc = "infer" /\ mig' \in [pc : MigPc, v : 0..Program, k : 0..4]
    BY <2>1, GotoFacts DEF MigPc
  <2> QED
    BY <1>1, <1>2, <1>3, <2>2 DEF DbOK, MigInv, At, Shape
<1>4. CASE view.ver # 0
  <2>1. Apply(view.ver + 1) /\ view.ver \in 1..6
    BY <1>4 DEF migrate, get_db_schema_version, DbOK, Db, Program
  <2>2. view.ver + 1 \in 1..7
    BY <2>1
  <2>3. DbOK'
    BY <1>1, <2>1, <2>2, ApplyFacts DEF DbOK
  <2>4. CASE view.ver = 6
    <3>1. mig'.pc = "done"
      BY <2>1, <2>2, <2>4, ApplyFacts
    <3> QED
      BY <1>1, <1>2, <2>4, <2>3, <3>1, DoneReady DEF Shape, At, Program
  <2>5. CASE view.ver # 6
    <3>1. mig'.pc = "begin" /\ mig'.v = view.ver + 1 /\ mig'.k = 1
      BY <2>1, <2>2, <2>5, ApplyFacts
    <3>2. Ready(mig.v)' /\ mig'.v \in 1..Program
      BY <1>1, <1>2, <2>1, <2>5, <3>1 DEF Ready, Program
    <3> QED
      BY <1>1, <1>2, <2>3, <3>1, <3>2, BeginReady DEF Shape, At
  <2> QED
    BY <2>4, <2>5
<1> QED
  BY <1>3, <1>4

(* The columns tell how far the files without a version went. *)
LEMMA InferredFacts ==
    ASSUME view = disk
    PROVE  Inferred = IF V101Columns \subseteq disk.obj THEN 2 ELSE 1
  BY DEF Inferred, column_exists

LEMMA UnversionedFacts ==
    /\ \A o \in Unnamed : "tasks" \in o /\ "meta" \notin o
    /\ \A o \in Orphans : "tasks" \in o /\ "meta" \in o
    /\ Named \subseteq Orphans
  BY DEF Unnamed, Named, Orphans

LEMMA InferKeeps == ASSUME DbOK, MigInv, Infer PROVE DbOK' /\ MigInv'
<1>1. UNCHANGED <<view, disk, inTx, failures, fault>>
  BY DEF Infer, KeepFault
<1>2. ~inTx /\ ~fault /\ view = disk /\ Shape(disk) /\ disk.ver = 0
  BY DEF MigInv, Infer
<1>3. disk.obj \in {{}} \cup Unnamed \cup Orphans
  BY <1>2 DEF Shape, Program
<1>4. CASE "tasks" \notin view.obj
  <2>1. disk.obj = {} /\ Apply(1) /\ 1 \in 1..7
    BY <1>2, <1>3, <1>4, UnversionedFacts DEF Infer, table_exists
  <2>2. /\ mig' \in [pc : MigPc, v : 0..Program, k : 0..4]
        /\ mig'.pc = "begin" /\ mig'.v = 1 /\ mig'.k = 1
    BY <2>1, ApplyFacts
  <2>3. Ready(mig.v)' /\ mig'.v \in 1..Program
    BY <1>1, <1>2, <2>1, <2>2 DEF Ready, Program
  <2> QED
    BY <1>1, <1>2, <2>2, <2>3, BeginReady DEF Shape, At, DbOK
<1>5. CASE "tasks" \in view.obj /\ "meta" \notin view.obj
  <2>1. disk.obj \in Unnamed /\ Goto("createMeta")
    BY <1>2, <1>3, <1>5, UnversionedFacts DEF Infer, table_exists
  <2>2. mig'.pc = "createMeta" /\ mig' \in [pc : MigPc, v : 0..Program, k : 0..4]
    BY <2>1, GotoFacts DEF MigPc
  <2> QED
    BY <1>1, <1>2, <2>1, <2>2 DEF DbOK, MigInv, At, Shape
<1>6. CASE "tasks" \in view.obj /\ "meta" \in view.obj
  <2>1. disk.obj \in Orphans
    BY <1>2, <1>3, <1>6, UnversionedFacts
  <2>2. Apply(Inferred + 1) /\ Inferred = (IF V101Columns \subseteq disk.obj THEN 2 ELSE 1)
    BY <1>2, <1>6, InferredFacts DEF Infer, table_exists
  <2>3. Inferred + 1 \in 1..7 /\ Inferred + 1 <= 6
    BY <2>2
  <2>4. /\ mig' \in [pc : MigPc, v : 0..Program, k : 0..4]
        /\ mig'.pc = "begin" /\ mig'.v = Inferred + 1 /\ mig'.k = 1
    BY <2>2, <2>3, ApplyFacts
  <2>5. Ready(mig.v)' /\ mig'.v \in 1..Program
    BY <1>1, <1>2, <2>1, <2>2, <2>4 DEF Ready, Program
  <2> QED
    BY <1>1, <1>2, <2>4, <2>5, BeginReady DEF Shape, At, DbOK
<1> QED
  BY <1>4, <1>5, <1>6

(* Adding the meta table to a database of an earlier program. *)
LEMMA CreateMetaKeeps == ASSUME DbOK, MigInv, CreateMeta PROVE DbOK' /\ MigInv'
<1>1. ~inTx /\ ~fault /\ view = disk /\ disk.ver = 0 /\ disk.obj \in Unnamed /\ inTx' = inTx
  BY DEF MigInv, CreateMeta
<1>2. mig'.pc = "insertMeta" /\ mig' \in [pc : MigPc, v : 0..Program, k : 0..4]
  BY GotoFacts DEF MigPc, CreateMeta
<1>3. CASE Write([view EXCEPT !.obj = @ \cup {"meta"}]) /\ KeepFault
  <2>1. view' = [view EXCEPT !.obj = @ \cup {"meta"}] /\ disk' = view'
    BY <1>1, <1>3 DEF Write
  <2>2. disk' \in Db /\ disk'.ver = 0 /\ disk'.obj = disk.obj \cup {"meta"}
    BY <1>1, <2>1 DEF DbOK, Db, Object
  <2>3. disk'.obj \in Named
    BY <1>1, <2>2 DEF Unnamed, Named
  <2>4. DbOK'
    BY <1>1, <1>2, <1>3, <2>1, <2>2 DEF DbOK, KeepFault
  <2>5. Shape(disk)'
    BY <2>2, <2>3, UnversionedFacts DEF Shape
  <2> QED
    BY <1>1, <1>2, <2>1, <2>2, <2>3, <2>4, <2>5 DEF MigInv, At
<1>4. CASE Fails /\ UNCHANGED <<view, disk>>
  <2>1. DbOK' /\ fault'
    BY <1>1, <1>2, <1>4 DEF DbOK, Fails
  <2>2. Shape(disk)'
    BY <1>4 DEF MigInv, Shape
  <2> QED
    BY <1>1, <1>2, <1>4, <2>1, <2>2 DEF MigInv, At
<1> QED
  BY <1>3, <1>4 DEF CreateMeta

LEMMA InsertMetaKeeps == ASSUME DbOK, MigInv, InsertMeta PROVE DbOK' /\ MigInv'
<1>1. /\ ~inTx /\ view = disk /\ disk.ver = 0 /\ inTx' = inTx /\ Shape(disk)
      /\ disk.obj \in Named \/ (fault /\ disk.obj \in Unnamed)
  BY DEF MigInv, InsertMeta
<1>2. Apply(Inferred + 1) /\ Inferred = (IF V101Columns \subseteq disk.obj THEN 2 ELSE 1)
  BY <1>1, InferredFacts DEF InsertMeta
<1>3. Inferred + 1 \in 1..7 /\ Inferred + 1 <= 6 /\ Inferred \in {1, 2}
  BY <1>2
<1>4. /\ mig' \in [pc : MigPc, v : 0..Program, k : 0..4]
      /\ mig'.pc = "begin" /\ mig'.v = Inferred + 1 /\ mig'.k = 1
  BY <1>2, <1>3, ApplyFacts
<1>5. mig'.v \in 1..Program
  BY <1>3, <1>4 DEF Program
<1>6. CASE "meta" \in view.obj /\ Write([view EXCEPT !.ver = Inferred]) /\ KeepFault
  <2>1. view' = [view EXCEPT !.ver = Inferred] /\ disk' = view'
    BY <1>1, <1>6 DEF Write
  <2>2. disk' \in Db /\ disk'.ver = Inferred /\ disk'.obj = disk.obj
    BY <1>1, <1>3, <2>1 DEF DbOK, Db, Program
  <2>3. disk.obj \in Named
    BY <1>1, <1>6, UnversionedFacts
  <2>4. DbOK'
    BY <1>1, <1>4, <1>6, <2>1, <2>2 DEF DbOK, KeepFault
  <2>5. disk.obj = Objs(Inferred)
    BY <1>2, <2>3, ObjsFacts DEF Named, V101Columns
  <2>6. Shape(disk)'
    BY <1>3, <2>2, <2>5 DEF Shape, Program
  <2>7. Ready(mig.v)'
    BY <1>3, <1>4, <2>2 DEF Ready
  <2> QED
    BY <1>1, <1>4, <1>5, <2>1, <2>4, <2>6, <2>7, BeginReady DEF At
<1>7. CASE "meta" \notin view.obj /\ KeepFault /\ UNCHANGED <<view, disk>>
  <2>1. fault' /\ disk'.obj \in Unnamed /\ disk'.ver = 0
    BY <1>1, <1>7, UnversionedFacts DEF KeepFault
  <2>2. Ready(mig.v)'
    BY <1>3, <1>4, <2>1 DEF Ready
  <2>3. DbOK' /\ Shape(disk)'
    BY <1>1, <1>4, <1>7 DEF DbOK, KeepFault, Shape
  <2> QED
    BY <1>1, <1>4, <1>5, <1>7, <2>2, <2>3, BeginReady DEF At
<1>8. CASE Fails /\ UNCHANGED <<view, disk>>
  <2>1. fault' /\ disk'.obj \in Named \cup Unnamed /\ disk'.ver = 0 /\ disk'.obj = disk.obj
    BY <1>1, <1>8 DEF Fails
  <2>2. Ready(mig.v)'
    <3>1. CASE disk.obj \in Unnamed
      BY <1>3, <1>4, <2>1, <3>1 DEF Ready
    <3>2. CASE disk.obj \in Named
      BY <1>2, <1>4, <2>1, <3>2, UnversionedFacts DEF Ready
    <3> QED
      BY <2>1, <3>1, <3>2
  <2>3. DbOK'
    BY <1>1, <1>4, <1>8 DEF DbOK, Fails
  <2>4. Shape(disk)'
    BY <1>1, <1>8 DEF Shape
  <2> QED
    BY <1>1, <1>4, <1>5, <1>8, <2>2, <2>3, <2>4, BeginReady DEF At
<1> QED
  BY <1>6, <1>7, <1>8 DEF InsertMeta

LEMMA BeginKeeps == ASSUME DbOK, MigInv, Begin PROVE DbOK' /\ MigInv'
<1>1. UNCHANGED <<view, disk>> /\ Shape(disk) /\ mig.v \in 1..Program /\ mig.k = 1
  BY DEF Begin, MigInv
<1>2. CASE ~inTx /\ inTx' = TRUE /\ Goto("exec") /\ KeepFault
  <2>1. /\ mig' \in [pc : MigPc, v : 0..Program, k : 0..4]
        /\ mig'.pc = "exec" /\ mig'.v = mig.v /\ mig'.k = 1
    BY <1>1, <1>2, GotoFacts DEF MigPc
  <2>2. DbOK'
    BY <1>1, <1>2, <2>1 DEF DbOK, KeepFault
  <2>3. view = disk /\ Ready(mig.v)
    BY <1>2 DEF MigInv, Begin
  <2>4. Ready(mig.v)' /\ Shape(disk)'
    BY <1>1, <1>2, <2>1, <2>3 DEF Ready, KeepFault, Shape
  <2>5. Progress(mig.v, mig.k)
    <3>1. Before(mig.v, 1) = {} /\ Len(File(mig.v)) \in {2, 3}
      <4>1. mig.v \in {1, 2, 3, 4, 5, 6} /\ mig.v \in 1..6
        BY <1>1, ObjsFacts DEF Program
      <4> QED
        BY <4>1, BeforeFacts, LenFacts
    <3>2. 1 \in 1..(Len(File(mig.v)) + 1) /\ 1 <= Len(File(mig.v)) /\ ~(1 > Len(File(mig.v)))
      BY <3>1
    <3> QED
      BY <1>1, <2>3, <3>1, <3>2 DEF Progress
  <2>6. Progress(mig.v, mig.k)'
    BY <1>1, <2>1, <2>5 DEF Progress, Before
  <2> QED
    BY <1>1, <1>2, <2>1, <2>2, <2>4, <2>6 DEF MigInv, At
<1>3. CASE inTx /\ Goto("check") /\ KeepFault /\ UNCHANGED inTx
  <2>1. /\ mig' \in [pc : MigPc, v : 0..Program, k : 0..4]
        /\ mig'.pc = "check" /\ mig'.v = mig.v
    BY <1>3, GotoFacts DEF MigPc
  <2>2. DbOK' /\ fault' /\ Shape(disk)'
    BY <1>1, <1>3, <2>1 DEF DbOK, KeepFault, MigInv, Begin, Shape
  <2> QED
    BY <1>1, <1>3, <2>1, <2>2 DEF MigInv, At
<1>4. CASE Fails /\ Goto("check") /\ UNCHANGED inTx
  <2>1. /\ mig' \in [pc : MigPc, v : 0..Program, k : 0..4]
        /\ mig'.pc = "check" /\ mig'.v = mig.v
    BY <1>4, GotoFacts DEF MigPc
  <2>2. DbOK' /\ fault' /\ Shape(disk)'
    BY <1>1, <1>4, <2>1 DEF DbOK, Fails, Shape
  <2>3. ~inTx /\ mig.v = 1 => disk.ver = 0 /\ disk.obj = {}
    <3> SUFFICES ASSUME ~inTx, mig.v = 1 PROVE disk.ver = 0 /\ disk.obj = {}
      OBVIOUS
    <3>1. Ready(1)
      BY DEF MigInv, Begin
    <3> QED
      BY <3>1 DEF Ready
  <2>4. (~inTx => view = disk)
    BY DEF MigInv
  <2> QED
    BY <1>1, <1>4, <2>1, <2>2, <2>3, <2>4 DEF MigInv, At
<1> QED
  BY <1>2, <1>3, <1>4 DEF Begin

(* The statements of the files and what stands before each. *)
StatementAt(v, k, last, s) ==
    \/ v = 1 /\ k = 1 /\ last = FALSE /\ s = Create("tasks")
             /\ Before(v, k) = {} /\ Before(v, k + 1) = {"tasks"}
    \/ v = 1 /\ k = 2 /\ last = FALSE /\ s = Create("meta")
             /\ Before(v, k) = {"tasks"} /\ Before(v, k + 1) = {"tasks", "meta"}
    \/ v = 1 /\ last = TRUE /\ s = SetVersion /\ Before(v, k) = {"tasks", "meta"}
    \/ v = 2 /\ k = 1 /\ last = FALSE /\ s = Alter("tasks", "timeout_sec")
             /\ Before(v, k) = {} /\ Before(v, k + 1) = {"timeout_sec"}
    \/ v = 2 /\ k = 2 /\ last = FALSE /\ s = Alter("tasks", "cancel_flag")
             /\ Before(v, k) = {"timeout_sec"} /\ Before(v, k + 1) = {"timeout_sec", "cancel_flag"}
    \/ v = 2 /\ last = TRUE /\ s = SetVersion /\ Before(v, k) = {"timeout_sec", "cancel_flag"}
    \/ v = 3 /\ k = 1 /\ last = FALSE /\ s = Create("templates")
             /\ Before(v, k) = {} /\ Before(v, k + 1) = {"templates"}
    \/ v = 3 /\ last = TRUE /\ s = SetVersion /\ Before(v, k) = {"templates"}
    \/ v = 4 /\ k = 1 /\ last = FALSE /\ s = Create("runs")
             /\ Before(v, k) = {} /\ Before(v, k + 1) = {"runs"}
    \/ v = 4 /\ last = TRUE /\ s = SetVersion /\ Before(v, k) = {"runs"}
    \/ v = 5 /\ k = 1 /\ last = FALSE /\ s = Alter("runs", "name")
             /\ Before(v, k) = {} /\ Before(v, k + 1) = {"name"}
    \/ v = 5 /\ last = TRUE /\ s = SetVersion /\ Before(v, k) = {"name"}
    \/ v = 6 /\ k = 1 /\ last = FALSE /\ s = Alter("runs", "schema")
             /\ Before(v, k) = {} /\ Before(v, k + 1) = {"schema"}
    \/ v = 6 /\ last = TRUE /\ s = SetVersion /\ Before(v, k) = {"schema"}
LEMMA Statements ==
    ASSUME NEW v \in 1..6, NEW k \in 1..3, k <= Len(File(v))
    PROVE  StatementAt(v, k, k = Len(File(v)), File(v)[k])
<1> USE DEF StatementAt
<1>1. CASE v = 1
  <2>1. File(v) = <<Create("tasks"), Create("meta"), SetVersion>> /\ Len(File(v)) = 3
    BY <1>1, FileFacts, LenFacts
  <2>2. k = 1 \/ k = 2 \/ k = 3
    BY <2>1
  <2>3. File(v)[1].obj = "tasks" /\ File(v)[2].obj = "meta"
    BY <2>1 DEF Create, Alter
  <2>7. Before(v, 2) = {"tasks"} /\ Before(v, 2 + 1) = {"tasks", "meta"}
    BY <2>3, BeforeFacts
  <2>4. CASE k = 1
    BY <1>1, <2>1, <2>3, <2>4, BeforeFacts
  <2>5. CASE k = 2
    BY <1>1, <2>1, <2>3, <2>5, <2>7
  <2>6. CASE k = 3
    BY <1>1, <2>1, <2>3, <2>6, BeforeFacts
  <2> QED
    BY <2>2, <2>4, <2>5, <2>6
<1>2. CASE v = 2
  <2>1. File(v) = <<Alter("tasks", "timeout_sec"), Alter("tasks", "cancel_flag"), SetVersion>> /\ Len(File(v)) = 3
    BY <1>2, FileFacts, LenFacts
  <2>2. k = 1 \/ k = 2 \/ k = 3
    BY <2>1
  <2>3. File(v)[1].obj = "timeout_sec" /\ File(v)[2].obj = "cancel_flag"
    BY <2>1 DEF Create, Alter
  <2>7. Before(v, 2) = {"timeout_sec"} /\ Before(v, 2 + 1) = {"timeout_sec", "cancel_flag"}
    BY <2>3, BeforeFacts
  <2>4. CASE k = 1
    BY <1>2, <2>1, <2>3, <2>4, BeforeFacts
  <2>5. CASE k = 2
    BY <1>2, <2>1, <2>3, <2>5, <2>7
  <2>6. CASE k = 3
    BY <1>2, <2>1, <2>3, <2>6, BeforeFacts
  <2> QED
    BY <2>2, <2>4, <2>5, <2>6
<1>3. CASE v = 3
  <2>1. File(v) = <<Create("templates"), SetVersion>> /\ Len(File(v)) = 2
    BY <1>3, FileFacts, LenFacts
  <2>2. k = 1 \/ k = 2
    BY <2>1
  <2>3. File(v)[1].obj = "templates"
    BY <2>1 DEF Create, Alter
  <2>4. CASE k = 1
    BY <1>3, <2>1, <2>3, <2>4, BeforeFacts
  <2>5. CASE k = 2
    BY <1>3, <2>1, <2>3, <2>5, BeforeFacts
  <2> QED
    BY <2>2, <2>4, <2>5
<1>4. CASE v = 4
  <2>1. File(v) = <<Create("runs"), SetVersion>> /\ Len(File(v)) = 2
    BY <1>4, FileFacts, LenFacts
  <2>2. k = 1 \/ k = 2
    BY <2>1
  <2>3. File(v)[1].obj = "runs"
    BY <2>1 DEF Create, Alter
  <2>4. CASE k = 1
    BY <1>4, <2>1, <2>3, <2>4, BeforeFacts
  <2>5. CASE k = 2
    BY <1>4, <2>1, <2>3, <2>5, BeforeFacts
  <2> QED
    BY <2>2, <2>4, <2>5
<1>5. CASE v = 5
  <2>1. File(v) = <<Alter("runs", "name"), SetVersion>> /\ Len(File(v)) = 2
    BY <1>5, FileFacts, LenFacts
  <2>2. k = 1 \/ k = 2
    BY <2>1
  <2>3. File(v)[1].obj = "name"
    BY <2>1 DEF Create, Alter
  <2>4. CASE k = 1
    BY <1>5, <2>1, <2>3, <2>4, BeforeFacts
  <2>5. CASE k = 2
    BY <1>5, <2>1, <2>3, <2>5, BeforeFacts
  <2> QED
    BY <2>2, <2>4, <2>5
<1>6. CASE v = 6
  <2>1. File(v) = <<Alter("runs", "schema"), SetVersion>> /\ Len(File(v)) = 2
    BY <1>6, FileFacts, LenFacts
  <2>2. k = 1 \/ k = 2
    BY <2>1
  <2>3. File(v)[1].obj = "schema"
    BY <2>1 DEF Create, Alter
  <2>4. CASE k = 1
    BY <1>6, <2>1, <2>3, <2>4, BeforeFacts
  <2>5. CASE k = 2
    BY <1>6, <2>1, <2>3, <2>5, BeforeFacts
  <2> QED
    BY <2>2, <2>4, <2>5
<1> QED
  BY <1>1, <1>2, <1>3, <1>4, <1>5, <1>6, ObjsFacts

(* A statement that comes next can run, unless something has failed before,*)
(* and does what brings the file to its end.                               *)
LEMMA StatementRuns ==
    ASSUME NEW v \in 1..6, DbOK, Shape(disk), Ready(v), NEW k \in 1..3, k <= Len(File(v)), Progress(v, k)
    PROVE  /\ Possible(File(v)[k], view) \/ fault
           /\ Possible(File(v)[k], view) =>
                /\ Effect(File(v)[k], v, view) \in Db
                /\ Effect(File(v)[k], v, view).rows = view.rows
                /\ k < Len(File(v)) =>
                     /\ Effect(File(v)[k], v, view).ver = disk.ver
                     /\ Effect(File(v)[k], v, view).obj = disk.obj \cup Before(v, k + 1)
                /\ k = Len(File(v)) =>
                     LET d == Effect(File(v)[k], v, view)
                     IN  (d.ver = v /\ d.obj = Objs(v)) \/ (d.ver = 0 /\ d.obj \in Orphans /\ v # 1)
<1>1. v \in {1, 2, 3, 4, 5, 6} /\ k \in {1, 2, 3}
  BY ObjsFacts
<1>2. view.ver = disk.ver /\ view.obj = disk.obj \cup Before(v, k) /\ view \in Db
  BY DEF Progress, DbOK
<1>3. \/ disk.ver = v - 1 /\ v > 1 /\ disk.obj = Objs(v - 1)
      \/ disk.ver = 0 /\ disk.obj = {} /\ v = 1
      \/ disk.ver = 0 /\ v = 2 /\ disk.obj = {"tasks", "meta"}
      \/ disk.ver = 0 /\ v = 3 /\ disk.obj = {"tasks", "meta", "timeout_sec", "cancel_flag"}
      \/ disk.ver = 0 /\ v = 3 /\ disk.obj = {"tasks", "meta", "timeout_sec", "cancel_flag", "templates"}
      \/ disk.ver = 0 /\ disk.obj \in {{}} \cup Unnamed /\ v \in {2, 3} /\ fault
  <2>1. CASE disk.ver = v - 1 /\ v > 1
    BY <2>1 DEF Shape, Program
  <2>2. CASE disk.ver = 0 /\ disk.obj \in Orphans /\ v = IF V101Columns \subseteq disk.obj THEN 3 ELSE 2
    BY <2>2 DEF Orphans, Named, V101Columns
  <2> QED
    BY <2>1, <2>2 DEF Ready
<1>6. StatementAt(v, k, k = Len(File(v)), File(v)[k])
  BY Statements
<1> DEFINE s == File(v)[k]
           d == Effect(File(v)[k], v, view)
<1>4. CASE k = Len(File(v))
  <2>1. s = SetVersion
    BY <1>4, <1>6 DEF StatementAt
  <2>2. d = [view EXCEPT !.ver = IF v = 1 \/ @ # 0 THEN v ELSE 0] /\ (Possible(s, view) <=> "meta" \in view.obj)
    BY <2>1 DEF Effect, Possible, SetVersion
  <2>3. /\ d \in Db /\ d.rows = view.rows /\ d.obj = view.obj
        /\ d.ver = IF v = 1 \/ disk.ver # 0 THEN v ELSE 0
    BY <1>2, <2>2 DEF Db, Program
  <2>4. Before(v, k) = IF v = 1 THEN {"tasks", "meta"}
                       ELSE IF v = 2 THEN {"timeout_sec", "cancel_flag"}
                       ELSE IF v = 3 THEN {"templates"} ELSE IF v = 4 THEN {"runs"}
                       ELSE IF v = 5 THEN {"name"} ELSE {"schema"}
    BY <1>4, <1>6 DEF StatementAt
  <2> HIDE DEF s, d
  <2>5. Possible(s, view) \/ fault
    <3>1. CASE v > 1 /\ disk.obj = Objs(v - 1)
      <4>1. "meta" \in Objs(v - 1)
        BY <1>1, <3>1, ObjsFacts
      <4> QED
        BY <1>2, <2>2, <3>1, <4>1
    <3> QED
      BY <1>2, <1>3, <2>2, <2>4, <3>1
  <2>6. Possible(s, view) => (d.ver = v /\ d.obj = Objs(v)) \/ (d.ver = 0 /\ d.obj \in Orphans /\ v # 1)
    <3> SUFFICES ASSUME "meta" \in view.obj
                 PROVE  (d.ver = v /\ d.obj = Objs(v)) \/ (d.ver = 0 /\ d.obj \in Orphans /\ v # 1)
      BY <2>2
    <3>1. CASE disk.ver = v - 1 /\ v > 1 /\ disk.obj = Objs(v - 1)
      BY <1>1, <1>2, <2>3, <2>4, <3>1, ObjsFacts
    <3>2. CASE disk.ver = 0 /\ disk.obj = {} /\ v = 1
      BY <1>2, <2>3, <2>4, <3>2, ObjsFacts
    <3>3. CASE disk.ver = 0 /\ v = 2 /\ disk.obj = {"tasks", "meta"}
      BY <1>2, <2>3, <2>4, <3>3 DEF Orphans, Named
    <3>4. CASE disk.ver = 0 /\ v = 3 /\ disk.obj = {"tasks", "meta", "timeout_sec", "cancel_flag"}
      BY <1>2, <2>3, <2>4, <3>4 DEF Orphans, Named
    <3>5. CASE disk.ver = 0 /\ v = 3 /\ disk.obj = {"tasks", "meta", "timeout_sec", "cancel_flag", "templates"}
      BY <1>2, <2>3, <2>4, <3>5 DEF Orphans, Named
    <3>6. CASE disk.obj \in {{}} \cup Unnamed /\ v \in {2, 3}
      BY <1>2, <2>4, <3>6, UnversionedFacts
    <3> QED
      BY <1>3, <3>1, <3>2, <3>3, <3>4, <3>5, <3>6
  <2> QED
    BY <1>4, <2>3, <2>5, <2>6 DEF s, d
<1>5. CASE k < Len(File(v))
  <2>1. /\ s.op # "version" /\ s.obj \in Object
        /\ d = [view EXCEPT !.obj = @ \cup {s.obj}]
    BY <1>5, <1>6 DEF StatementAt, Effect, Create, Alter, Object, V101Columns
  <2>2. d \in Db /\ d.rows = view.rows /\ d.ver = view.ver /\ d.obj = view.obj \cup {s.obj}
    BY <1>2, <2>1 DEF Db
  <2>3. Before(v, k + 1) = Before(v, k) \cup {s.obj}
    BY <1>5, <1>6 DEF StatementAt, Create, Alter
  <2>4. Possible(s, view) \/ fault
    <3>1. \/ v = 1 /\ s.op = "create"
          \/ v = 2 /\ k = 1 /\ s.op = "alter" /\ s.on = "tasks" /\ s.obj = "timeout_sec"
          \/ v = 2 /\ k = 2 /\ s.op = "alter" /\ s.on = "tasks" /\ s.obj = "cancel_flag"
          \/ v \in {3, 4} /\ s.op = "create"
          \/ v = 5 /\ k = 1 /\ s.op = "alter" /\ s.on = "runs" /\ s.obj = "name"
          \/ v = 6 /\ k = 1 /\ s.op = "alter" /\ s.on = "runs" /\ s.obj = "schema"
      BY <1>5, <1>6 DEF StatementAt, Create, Alter
    <3>2. k = 1 => Before(v, k) = {}
      BY BeforeFacts
    <3>3. v = 2 /\ k = 2 => Before(v, k) = {"timeout_sec"}
      BY BeforeFacts, FileFacts DEF Alter
    <3> HIDE DEF s, d
    <3>4. CASE s.op = "create"
      BY <3>4 DEF Possible
    <3>5. CASE v = 2
      <4>1. fault \/ disk.obj = {"tasks", "meta"}
        BY <1>3, <3>5, ObjsFacts
      <4> QED
        BY <1>2, <3>1, <3>2, <3>3, <3>5, <4>1 DEF Possible
    <3>6. CASE v = 5
      <4>1. disk.obj = Objs(4)
        BY <1>3, <3>6
      <4> QED
        BY <1>2, <3>1, <3>2, <3>6, <4>1, ObjsFacts DEF Possible
    <3>7. CASE v = 6
      <4>1. disk.obj = Objs(5)
        BY <1>3, <3>7
      <4> QED
        BY <1>2, <3>1, <3>2, <3>7, <4>1, ObjsFacts DEF Possible
    <3> QED
      BY <3>1, <3>4, <3>5, <3>6, <3>7
  <2> QED
    BY <1>2, <1>5, <2>2, <2>3, <2>4
<1> QED
  BY <1>1, <1>4, <1>5, LenFacts

LEMMA ExecKeeps == ASSUME DbOK, MigInv, Exec PROVE DbOK' /\ MigInv'
<1> DEFINE v == mig.v
           k == mig.k
           s == File(mig.v)[mig.k]
<1>1. UNCHANGED <<disk, inTx>> /\ Shape(disk) /\ v \in 1..6 /\ inTx /\ Ready(v) /\ Progress(v, k) /\ k <= Len(File(v))
  BY DEF Exec, MigInv, Program
<1>2. Len(File(v)) \in {2, 3} /\ v \in {1, 2, 3, 4, 5, 6}
  BY <1>1, ObjsFacts, LenFacts
<1>3. k \in 1..3
  <2>1. k \in 1..(Len(File(v)) + 1)
    BY <1>1 DEF Progress
  <2>2. k <= Len(File(v)) /\ Len(File(v)) \in {2, 3}
    BY <1>1, <1>2
  <2>3. \A n \in {2, 3} : \A i \in 1..(n + 1) : i <= n => i \in 1..3
    OBVIOUS
  <2> HIDE DEF k, v
  <2> QED
    BY <2>1, <2>2, <2>3
<1>4. Shape(disk)'
  BY <1>1 DEF Shape
<1>5. CASE /\ Possible(s, view) /\ view' = Effect(s, v, view) /\ KeepFault
           /\ mig' = [mig EXCEPT !.k = @ + 1]
  <2>1. mig' \in [pc : MigPc, v : 0..Program, k : 0..4] /\ mig'.pc = "exec" /\ mig'.v = v /\ mig'.k = k + 1
    BY <1>3, <1>5 DEF DbOK, Exec, At
  <2> DEFINE d == Effect(s, v, view)
  <2>2. /\ d \in Db
        /\ k < Len(File(v)) => d.ver = disk.ver /\ d.obj = disk.obj \cup Before(v, k + 1)
        /\ k = Len(File(v)) => (d.ver = v /\ d.obj = Objs(v)) \/ (d.ver = 0 /\ d.obj \in Orphans /\ v # 1)
    BY <1>1, <1>3, <1>5, StatementRuns
  <2>3. DbOK'
    BY <1>1, <1>5, <2>1, <2>2 DEF DbOK, KeepFault
  <2>4. Ready(mig.v)'
    BY <1>1, <1>5, <2>1 DEF Ready, KeepFault
  <2>5. Progress(mig.v, mig.k)'
    <3> HIDE DEF d
    <3>1. view' = d
      BY <1>5 DEF d
    <3>2. CASE k < Len(File(v))
      <4>1. k + 1 \in 1..(Len(File(v)) + 1) /\ k + 1 <= Len(File(v)) /\ ~(k + 1 > Len(File(v)))
        <5> HIDE DEF k, v
        <5> QED
          BY <1>2, <1>3, <3>2
      <4>2. /\ mig'.k \in 1..(Len(File(mig'.v)) + 1) /\ mig'.k <= Len(File(mig'.v))
            /\ ~(mig'.k > Len(File(mig'.v)))
        BY <2>1, <4>1
      <4>3. view'.ver = disk'.ver /\ view'.obj = disk'.obj \cup Before(mig'.v, mig'.k)
        BY <1>1, <2>1, <2>2, <3>1, <3>2
      <4> QED
        BY <4>2, <4>3 DEF Progress
    <3>3. CASE k = Len(File(v))
      <4>1. k + 1 \in 1..(Len(File(v)) + 1) /\ ~(k + 1 <= Len(File(v)))
        <5> HIDE DEF k, v
        <5> QED
          BY <1>2, <1>3, <3>3
      <4>2. mig'.k \in 1..(Len(File(mig'.v)) + 1) /\ ~(mig'.k <= Len(File(mig'.v)))
        BY <2>1, <4>1
      <4>3. \/ view'.ver = mig'.v /\ view'.obj = Objs(mig'.v)
            \/ view'.ver = 0 /\ view'.obj \in Orphans /\ mig'.v # 1
        BY <2>1, <2>2, <3>1, <3>3
      <4> QED
        BY <4>2, <4>3 DEF Progress
    <3>4. k < Len(File(v)) \/ k = Len(File(v))
      <4> HIDE DEF k, v
      <4> QED
        BY <1>1, <1>2, <1>3
    <3> QED
      BY <3>2, <3>3, <3>4
  <2> QED
    BY <1>1, <1>4, <2>1, <2>3, <2>4, <2>5 DEF MigInv, At, Program
<1>6. ASSUME Goto("check"), UNCHANGED view, fault', failures' \in Nat PROVE DbOK' /\ MigInv'
  <2>1. mig' \in [pc : MigPc, v : 0..Program, k : 0..4] /\ mig'.pc = "check" /\ mig'.v = v
    BY <1>6, GotoFacts DEF MigPc
  <2>2. DbOK'
    BY <1>1, <1>6, <2>1 DEF DbOK
  <2> QED
    BY <1>1, <1>4, <1>6, <2>1, <2>2 DEF MigInv, At, Program
<1>7. CASE ~Possible(s, view) /\ Goto("check") /\ KeepFault /\ UNCHANGED view
  <2>1. fault
    BY <1>1, <1>3, <1>7, StatementRuns
  <2> QED
    BY <1>6, <1>7, <2>1 DEF KeepFault, DbOK
<1>8. CASE Fails /\ Goto("check") /\ UNCHANGED view
  BY <1>6, <1>8 DEF Fails, DbOK
<1> QED
  BY <1>5, <1>7, <1>8 DEF Exec

LEMMA CommitKeeps == ASSUME DbOK, MigInv, Commit PROVE DbOK' /\ MigInv'
<1>1. UNCHANGED view /\ Shape(disk) /\ mig.v \in 1..6 /\ inTx /\ Progress(mig.v, mig.k)
      /\ mig.k > Len(File(mig.v))
  BY DEF Commit, MigInv, Program
<1>2. mig' \in [pc : MigPc, v : 0..Program, k : 0..4] /\ mig'.pc = "check" /\ mig'.v = mig.v
  BY GotoFacts DEF MigPc, Commit
<1>3. (view.ver = mig.v /\ view.obj = Objs(mig.v)) \/ (view.ver = 0 /\ view.obj \in Orphans /\ mig.v # 1)
  BY <1>1 DEF Progress
<1>4. CASE inTx' = FALSE /\ disk' = view /\ KeepFault
  <2>1. DbOK'
    BY <1>1, <1>2, <1>4 DEF DbOK, KeepFault
  <2>2. Shape(disk)'
    BY <1>1, <1>3, <1>4 DEF Shape, Program
  <2>3. disk'.ver = mig.v \/ (OrphanMeta' /\ mig.v # 1)
    BY <1>3, <1>4, UnversionedFacts DEF OrphanMeta
  <2>4. mig.v = 1 => disk'.ver = 1
    BY <1>3, <1>4
  <2> QED
    BY <1>1, <1>2, <1>4, <2>1, <2>2, <2>3, <2>4 DEF MigInv, At, Program
<1>5. CASE Fails /\ UNCHANGED <<inTx, disk>>
  <2>1. DbOK' /\ fault'
    BY <1>1, <1>2, <1>5 DEF DbOK, Fails
  <2>2. Shape(disk)'
    BY <1>1, <1>5 DEF Shape
  <2> QED
    BY <1>1, <1>2, <1>5, <2>1, <2>2 DEF MigInv, At, Program
<1> QED
  BY <1>4, <1>5 DEF Commit

LEMMA CheckVersionKeeps == ASSUME DbOK, MigInv, CheckVersion PROVE DbOK' /\ MigInv'
<1>1. /\ UNCHANGED <<view, disk, inTx, failures, fault>> /\ Shape(disk) /\ mig.v \in 1..6
      /\ ~inTx => view = disk
      /\ ~fault => ~inTx /\ (disk.ver = mig.v \/ (OrphanMeta /\ mig.v # 1))
      /\ ~inTx /\ mig.v = 1 => disk.ver = 1 \/ (disk.ver = 0 /\ disk.obj = {} /\ fault)
  BY DEF CheckVersion, MigInv, KeepFault, Program
<1>2. Shape(disk)' /\ (~inTx => view = disk)' /\ (OrphanMeta => OrphanMeta')
  BY <1>1 DEF Shape, OrphanMeta
<1>3. CASE mig.v = 1 \/ view.ver = mig.v
  <2>1. Apply(mig.v + 1) /\ mig.v + 1 \in 1..7
    BY <1>1, <1>3 DEF CheckVersion, get_db_schema_version
  <2>2. DbOK'
    BY <1>1, <2>1, ApplyFacts DEF DbOK
  <2>3. CASE mig.v = 6
    <3>1. mig'.pc = "done"
      BY <2>1, <2>3, ApplyFacts
    <3>2. fault \/ (~inTx /\ disk.ver = 6)
      BY <1>1, <1>3, <2>3
    <3> QED
      BY <1>1, <1>2, <2>2, <3>1, <3>2, DoneReady DEF At, Program
  <2>4. CASE mig.v < 6
    <3>1. mig'.pc = "begin" /\ mig'.v = mig.v + 1 /\ mig'.k = 1
      BY <1>1, <2>1, <2>4, ApplyFacts
    <3>2. mig'.v \in 1..Program
      BY <1>1, <2>4, <3>1 DEF Program
    <3>3. CASE inTx
      BY <1>1, <1>2, <2>2, <3>1, <3>2, <3>3 DEF MigInv, At
    <3>4. CASE ~inTx
      <4>1. \/ disk.ver = mig.v
            \/ disk.ver = 0 /\ disk.obj = {} /\ fault /\ mig.v = 1
        BY <1>1, <1>3, <3>4
      <4>2. Ready(mig.v)'
        BY <1>1, <3>1, <4>1 DEF Ready
      <4> QED
        BY <1>1, <1>2, <2>2, <3>1, <3>2, <3>4, <4>2, BeginReady DEF At
    <3> QED
      BY <3>3, <3>4
  <2> QED
    BY <1>1, <2>3, <2>4
<1>4. CASE ~(mig.v = 1 \/ view.ver = mig.v)
  <2>1. Goto("done")
    BY <1>4 DEF CheckVersion, get_db_schema_version
  <2>2. mig' \in [pc : MigPc, v : 0..Program, k : 0..4] /\ mig'.pc = "done"
    BY <2>1, GotoFacts DEF MigPc
  <2>3. DbOK'
    BY <1>1, <2>2 DEF DbOK
  <2>4. fault \/ (~inTx /\ OrphanMeta)
    BY <1>1, <1>4
  <2> QED
    BY <1>1, <1>2, <2>2, <2>3, <2>4, DoneReady DEF At
<1> QED
  BY <1>3, <1>4

(* No step of the migrations touches a row. *)
LEMMA RowsKept == ASSUME DbOK, MigInv, MigrateStep PROVE view'.rows = view.rows /\ disk'.rows \in {view.rows, disk.rows}
<1>1. CASE migrate \/ Infer \/ Begin \/ CheckVersion
  BY <1>1 DEF migrate, Infer, Begin, CheckVersion
<1>2. CASE CreateMeta
  <2>1. CASE Write([view EXCEPT !.obj = @ \cup {"meta"}])
    BY <2>1 DEF Write, DbOK, Db
  <2> QED
    BY <1>2, <2>1 DEF CreateMeta
<1>3. CASE InsertMeta
  <2>1. CASE Write([view EXCEPT !.ver = Inferred])
    BY <2>1 DEF Write, DbOK, Db
  <2> QED
    BY <1>3, <2>1 DEF InsertMeta
<1>4. CASE Exec
  <2>1. UNCHANGED disk
    BY <1>4 DEF Exec
  <2>2. \/ UNCHANGED view
        \/ view' = Effect(File(mig.v)[mig.k], mig.v, view)
    BY <1>4 DEF Exec
  <2> QED
    BY <2>1, <2>2 DEF Effect, DbOK, Db
<1>5. CASE Commit
  BY <1>5 DEF Commit
<1> QED
  BY <1>1, <1>2, <1>3, <1>4, <1>5 DEF MigrateStep

(* Over a restart. *)
LEMMA openKeeps == ASSUME DbOK, MigInv, open PROVE DbOK' /\ MigInv'
<1>1. mig'.pc = "version" /\ mig' \in [pc : MigPc, v : 0..Program, k : 0..4]
  BY DEF open, MigPc, Program
<1>2. DbOK'
  BY <1>1 DEF open, DbOK
<1>3. Shape(disk)'
  BY DEF open, MigInv, Shape
<1> QED
  BY <1>1, <1>2, <1>3 DEF open, MigInv, At

LEMMA MigrateKeeps == ASSUME DbOK, MigInv, MigrateStep PROVE DbOK' /\ MigInv'
  BY migrateKeeps, InferKeeps, CreateMetaKeeps, InsertMetaKeeps, BeginKeeps, ExecKeeps, CommitKeeps,
     CheckVersionKeeps DEF MigrateStep

-----------------------------------------------------------------------------
(***************************************************************************)
(* Rows and ids.                                                           *)
(***************************************************************************)
(* A set of numbers that is not empty has a least element. *)
LEMMA LeastExists ==
    ASSUME NEW S, S \subseteq Nat, S # {} PROVE \E m \in S : \A k \in S : m <= k
<1>1. PICK m \in S : \A k \in S : ~(<<k, m>> \in OpToRel(<, Nat))
  BY NatLessThanWellFounded, WFMin
<1>2. \A k \in S : ~(k < m)
  BY <1>1 DEF OpToRel
<1> QED
  BY <1>2

(* A set of numbers with a bound has a largest one, or is empty. *)
LEMMA GreatestExists ==
    ASSUME NEW S, S \subseteq Nat \ {0}, NEW n \in Nat, \A t \in S : t <= n
    PROVE  \E m \in Nat : (\A t \in S : t <= m) /\ (m # 0 => m \in S)
<1> DEFINE Bound == {m \in Nat : \A t \in S : t <= m}
<1>1. PICK m \in Bound : \A k \in Bound : m <= k
  <2>1. n \in Bound /\ Bound \subseteq Nat
    OBVIOUS
  <2> HIDE DEF Bound
  <2> QED
    BY <2>1, LeastExists
<1>2. m \in Nat /\ \A t \in S : t <= m
  BY <1>1
<1>3. m # 0 => m \in S
  <2> SUFFICES ASSUME m # 0, m \notin S PROVE FALSE
    OBVIOUS
  <2>1. m - 1 \in Nat /\ ~(m <= m - 1)
    BY <1>2
  <2>2. \A t \in S : t <= m - 1
    <3>1. \A t \in S : t \in Nat /\ t <= m /\ t # m
      BY <1>2
    <3> QED
      BY <1>2, <3>1
  <2>3. m - 1 \in Bound
    BY <2>1, <2>2
  <2> QED
    BY <1>1, <2>1, <2>3
<1> QED
  BY <1>2, <1>3

(* load_from_db continues after the largest id. *)
LEMMA NextIdFacts ==
    ASSUME FreshInv
    PROVE  NextId \in Nat \ {0} /\ \A t \in TaskId : Stored(t) => t < NextId
<1> DEFINE S == {t \in TaskId : Stored(t)}
<1>1. S \subseteq Nat \ {0} /\ TaskId \subseteq Nat \ {0}
  BY IdAssumption
<1>2. PICK n \in Nat : \A t \in S : t <= n
  BY DEF FreshInv, Stored
<1>3. PICK m \in Nat : (\A t \in S : t <= m) /\ (m # 0 => m \in S)
  <2> HIDE DEF S
  <2> QED
    BY <1>1, <1>2, GreatestExists
<1>4. \E k \in TaskId \cup {0} : (\A t \in TaskId : Stored(t) => t <= k) /\ (k # 0 => Stored(k))
  BY <1>3
<1>5. MaxId \in TaskId \cup {0} /\ \A t \in TaskId : Stored(t) => t <= MaxId
  BY <1>4 DEF MaxId
<1>6. MaxId \in Nat
  BY <1>1, <1>5
<1> QED
  BY <1>1, <1>5, <1>6 DEF NextId

(* A step that at most rewrites the row of task t. *)
RowStep(t) ==
    /\ DbOK' /\ MigInv' /\ mig' = mig /\ view'.obj = view.obj
    /\ \A u \in TaskId : u # t => view'.rows[u] = view.rows[u]
    /\ view'.rows[t] = NoRow <=> view.rows[t] = NoRow
    /\ disk'.rows \in {disk.rows, view'.rows}

LEMMA KeepDbRow == ASSUME DbOK, MigInv, KeepDb, NEW t PROVE RowStep(t)
<1>1. DbOK'
  BY DEF DbOK, KeepDb, dbVars
<1>2. MigInv'
  BY DEF MigInv, KeepDb, dbVars, At, Shape, Ready, Progress, OrphanMeta, Before
<1> QED
  BY <1>1, <1>2 DEF RowStep, KeepDb, dbVars

(* A statement of the server, after the migrations, on the row of a task. *)
LEMMA WriteRow ==
    ASSUME DbOK, MigInv, At("done"), KeepMig, NEW t \in TaskId, NEW x \in Task,
           NEW d, d = [view EXCEPT !.rows = [view.rows EXCEPT ![t] = x]], Write(d)
    PROVE  /\ DbOK' /\ MigInv' /\ mig' = mig /\ view'.obj = view.obj
           /\ view'.rows = [view.rows EXCEPT ![t] = x]
           /\ disk'.rows \in {disk.rows, view'.rows}
<1> DEFINE rows == [view.rows EXCEPT ![t] = x]
<1>1. view.rows \in Rows /\ disk.rows \in Rows /\ view.obj \in SUBSET Object /\ view.ver \in 0..Program
  BY DEF DbOK, Db
<1>2. rows \in Rows
  BY <1>1 DEF Rows
<1> HIDE DEF rows
<1>3. d \in Db /\ d.rows = rows /\ d.obj = view.obj /\ d.ver = view.ver
  BY <1>1, <1>2 DEF Db, DbOK, rows
<1>4. view' = d /\ disk' = (IF inTx THEN disk ELSE d) /\ UNCHANGED <<inTx, mig, fault, failures>>
  BY DEF Write, KeepMig
<1>5. DbOK'
  BY <1>3, <1>4 DEF DbOK
<1>6. disk'.obj = disk.obj /\ disk'.ver = disk.ver
  BY <1>3, <1>4 DEF MigInv
<1>7. Shape(disk)' /\ (OrphanMeta => OrphanMeta')
  BY <1>6 DEF MigInv, Shape, OrphanMeta
<1>8. MigInv'
  BY <1>4, <1>6, <1>7 DEF MigInv, At
<1> QED
  BY <1>3, <1>4, <1>5, <1>8 DEF rows

LEMMA WriteRowStep ==
    ASSUME DbOK, MigInv, At("done"), KeepMig, NEW t \in TaskId, NEW x \in Task, Stored(t),
           NEW d, d = [view EXCEPT !.rows = [view.rows EXCEPT ![t] = x]], Write(d)
    PROVE  RowStep(t) /\ view'.rows[t] = x
<1>1. /\ DbOK' /\ MigInv' /\ mig' = mig /\ view'.obj = view.obj
      /\ view'.rows = [view.rows EXCEPT ![t] = x]
      /\ disk'.rows \in {disk.rows, view'.rows}
  BY WriteRow
<1>2. view.rows \in Rows
  BY DEF DbOK, Db
<1>3. view'.rows[t] = x /\ \A u \in TaskId : u # t => view'.rows[u] = view.rows[u]
  BY <1>1, <1>2 DEF Rows
<1> QED
  BY <1>1, <1>3, NoRowAssumption DEF RowStep, Stored

(* A step that leaves the ids as they are keeps them fresh. *)
LEMMA FreshKept ==
    ASSUME IInv, NEW t \in TaskId, RowStep(t), UNCHANGED <<nextId, loaded>>,
           \A u \in TaskId : tasks'[u] # NoRow => tasks[u] # NoRow
    PROVE  FreshInv'
<1>1. \A u \in TaskId : view'.rows[u] = NoRow <=> view.rows[u] = NoRow
  BY DEF RowStep
<1>2. \A u \in TaskId : tasks'[u] # NoRow => u < nextId'
  BY DEF IInv, MemInv, FreshInv
<1>3. (loaded /\ Full => \A u \in TaskId : Stored(u) => u < nextId)'
  BY <1>1 DEF IInv, MemInv, FreshInv, RowStep, Full, Stored
<1>4. (\E n \in Nat : \A u \in TaskId : (view.rows[u] # NoRow \/ disk.rows[u] # NoRow) => u <= n)'
  <2>1. PICK n \in Nat : \A u \in TaskId : (view.rows[u] # NoRow \/ disk.rows[u] # NoRow) => u <= n
    BY DEF IInv, MemInv, FreshInv
  <2>2. \A u \in TaskId : (view'.rows[u] # NoRow \/ disk'.rows[u] # NoRow) => u <= n
    BY <1>1, <2>1 DEF RowStep
  <2> QED
    BY <2>2
<1> QED
  BY <1>2, <1>3, <1>4 DEF FreshInv

(* Statuses and the fields of a task. *)
LEMMA TaskFacts ==
    ASSUME MemOK, NEW t \in TaskId, tasks[t] # NoRow
    PROVE  /\ tasks[t] \in Task /\ tasks[t].status \in Status
           /\ tasks[t].cancel \in BOOLEAN /\ tasks[t].retry \in Nat
           /\ \A s \in Status : /\ [tasks[t] EXCEPT !.status = s] \in Task
                                /\ [tasks[t] EXCEPT !.status = s].status = s
                                /\ [tasks[t] EXCEPT !.status = s].cancel = tasks[t].cancel
           /\ \A n \in Nat : /\ [tasks[t] EXCEPT !.retry = n] \in Task
                             /\ [tasks[t] EXCEPT !.retry = n].status = tasks[t].status
                             /\ [tasks[t] EXCEPT !.retry = n].cancel = tasks[t].cancel
<1>1. tasks[t] \in Task
  BY DEF MemOK, Rows
<1> QED
  BY <1>1 DEF Task

-----------------------------------------------------------------------------
(***************************************************************************)
(* A worker.                                                               *)
(***************************************************************************)
(* What holds of a worker that has a task. *)
LEMMA JobFacts ==
    ASSUME IInv, NEW w \in Worker, wk[w].pc # "idle"
    PROVE  /\ wk[w] \in WorkerState /\ wk[w].task \in TaskId /\ tasks[wk[w].task] # NoRow
           /\ wk[w].task # Nobody /\ loaded /\ At("done")
           /\ \A u \in Worker : u # w => wk[u].task # wk[w].task
<1>1. wk[w] \in WorkerState /\ loaded \in BOOLEAN
  BY DEF IInv, MemOK
<1>2. wk[w].task \in TaskId /\ tasks[wk[w].task] # NoRow /\ wk[w].task # Nobody
  BY IdAssumption DEF IInv, MemInv, HandledInv
<1>3. loaded
  <2> SUFFICES ASSUME ~loaded PROVE FALSE
    OBVIOUS
  <2>1. wk[w] = Idle
    BY DEF IInv, MemInv, BootInv
  <2> QED
    BY <2>1 DEF Idle
<1>4. At("done")
  BY <1>3 DEF IInv, MemInv, BootInv
<1>5. \A u \in Worker : u # w => wk[u].task # wk[w].task
  BY <1>2 DEF IInv, MemInv, OnceInv
<1> QED
  BY <1>1, <1>2, <1>3, <1>4, <1>5

(* A step of a worker on its task keeps the invariant if the worker takes  *)
(* and gives back the mutex as its place says, remembers the status that   *)
(* the task has, and does not start an attempt after a late one.           *)
LEMMA WorkerFrame ==
    ASSUME IInv, NEW w \in Worker, NEW r \in WorkerState, NEW x \in Task,
           wk[w].pc # "idle", r.pc # "idle", r.task = wk[w].task,
           x.cancel = tasks[wk[w].task].cancel,
           wk' = [wk EXCEPT ![w] = r], tasks' = [tasks EXCEPT ![wk[w].task] = x],
           KeepRest, queue' = queue, RowStep(wk[w].task),
           lock' \in Worker \cup {Nobody, "canc"}, r.pc \in Writing <=> lock' = w,
           \A p \in (Worker \cup {"canc"}) \ {w} : lock' = p <=> lock = p,
           r.pc \in Writing => r.seen = x.status,
           late' \in [TaskId -> Nat], \A t \in TaskId : t # wk[w].task => late'[t] = late[t],
           late'[wk[w].task] <= 1, late'[wk[w].task] # 0 => x.cancel /\ r.pc # "run"
    PROVE  IInv'
<1> DEFINE job == wk[w].task
<1>1. /\ job \in TaskId /\ tasks[job] # NoRow /\ job # Nobody /\ loaded /\ At("done")
      /\ \A u \in Worker : u # w => wk[u].task # job
  BY JobFacts
<1>2. wk \in [Worker -> WorkerState] /\ tasks \in Rows
  BY DEF IInv, MemOK
<1>3. /\ wk'[w] = r /\ \A u \in Worker : u # w => wk'[u] = wk[u]
      /\ \A u \in Worker : wk'[u].task = wk[u].task
      /\ \A u \in Worker : wk'[u].pc = "idle" <=> wk[u].pc = "idle"
      /\ wk' \in [Worker -> WorkerState]
  BY <1>2
<1>4. /\ tasks'[job] = x /\ \A t \in TaskId : t # job => tasks'[t] = tasks[t]
      /\ tasks' \in Rows
  BY <1>1, <1>2 DEF Rows
<1>5. x # NoRow /\ \A t \in TaskId : tasks'[t] # NoRow <=> tasks[t] # NoRow
  BY <1>1, <1>4, NoRowAssumption
<1>6. UNCHANGED <<nextId, loaded, creating, stopping, canc>>
  BY DEF KeepRest
<1> HIDE DEF job
<1>7. MemOK'
  BY <1>3, <1>4, <1>6 DEF IInv, MemOK
<1>8. BootInv'
  BY <1>1, <1>6 DEF BootInv, At, RowStep
<1>9. FreshInv'
  BY <1>1, <1>5, <1>6, FreshKept DEF job
<1>10. HandledInv'
  <2>1. \A u \in Worker : IF wk'[u].pc = "idle" THEN wk'[u].task = Nobody
                          ELSE wk'[u].task \in TaskId /\ tasks'[wk'[u].task] # NoRow
    BY <1>3, <1>5 DEF IInv, MemInv, HandledInv
  <2>2. IF canc'.pc = "idle" THEN canc' = Resting ELSE canc'.task \in TaskId /\ tasks'[canc'.task] # NoRow
    BY <1>5, <1>6 DEF IInv, MemInv, HandledInv
  <2>3. \A i \in DOMAIN queue' : tasks'[queue'[i]] # NoRow
    <3>1. \A i \in DOMAIN queue : queue[i] \in TaskId
      BY DEF IInv, MemOK
    <3> QED
      BY <1>5, <3>1 DEF IInv, MemInv, HandledInv
  <2>4. creating' # Nobody => tasks'[creating'] # NoRow
    BY <1>5, <1>6 DEF IInv, MemInv, HandledInv, MemOK
  <2> QED
    BY <2>1, <2>2, <2>3, <2>4 DEF HandledInv
<1>11. OnceInv'
  BY <1>3, <1>6 DEF IInv, MemInv, OnceInv
<1>12. LockInv'
  <2>1. "canc" # w
    BY NameAssumption
  <2>2. \A u \in Worker : wk'[u].pc \in Writing <=> lock' = u
    BY <1>3 DEF IInv, MemInv, LockInv
  <2>3. canc'.pc = "write" <=> lock' = "canc"
    BY <1>6, <2>1 DEF IInv, MemInv, LockInv
  <2> QED
    BY <2>2, <2>3 DEF LockInv
<1>13. SeenInv'
  <2>1. ASSUME NEW u \in Worker, wk'[u].pc \in Writing PROVE wk'[u].seen = tasks'[wk'[u].task].status
    <3>1. CASE u = w
      BY <1>3, <1>4, <2>1, <3>1 DEF job
    <3>2. CASE u # w
      <4>1. wk'[u] = wk[u] /\ wk[u].task \in TaskId /\ wk[u].task # job
        BY <1>1, <1>3, <2>1, <3>2 DEF IInv, MemInv, HandledInv, Writing
      <4> QED
        BY <1>4, <2>1, <4>1 DEF IInv, MemInv, SeenInv
    <3> QED
      BY <3>1, <3>2
  <2>2. ASSUME canc'.pc = "write", \A u \in Worker : wk'[u].task # canc'.task
        PROVE  canc'.seen = tasks'[canc'.task].status
    <3>1. canc.task # job /\ canc.task \in TaskId
      BY <1>3, <1>6, <2>2 DEF job, IInv, MemInv, HandledInv
    <3> QED
      BY <1>3, <1>4, <1>6, <2>2, <3>1 DEF IInv, MemInv, SeenInv
  <2> QED
    BY <2>1, <2>2 DEF SeenInv
<1>14. RowInv'
  <2> SUFFICES ASSUME NEW t \in TaskId, (loaded /\ Full /\ tasks[t] # NoRow /\ Stored(t) /\ canc.task # t)',
                      \A u \in Worker : wk'[u].task # t
               PROVE  view'.rows[t] = tasks'[t]
    BY DEF RowInv
  <2>1. t # job
    BY <1>3 DEF job
  <2>2. view'.rows[t] = view.rows[t] /\ tasks'[t] = tasks[t] /\ view'.obj = view.obj
    BY <1>4, <2>1 DEF RowStep, job
  <2> QED
    BY <1>3, <1>6, <2>2 DEF IInv, MemInv, RowInv, Full, Stored
<1>15. LateInv'
  <2> SUFFICES ASSUME NEW t \in TaskId
               PROVE  /\ late'[t] <= 1
                      /\ late'[t] # 0 => /\ tasks'[t] # NoRow /\ tasks'[t].cancel
                                         /\ \A u \in Worker : wk'[u].task = t => wk'[u].pc # "run"
    BY DEF LateInv
  <2>1. CASE t = job
    <3>1. \A u \in Worker : wk'[u].task = t => u = w
      BY <1>1, <1>3, <2>1
    <3> QED
      BY <1>3, <1>4, <1>5, <2>1, <3>1 DEF job
  <2>2. CASE t # job
    <3>1. \A u \in Worker : wk'[u].task = t => wk'[u] = wk[u]
      BY <1>3, <2>2 DEF job
    <3>2. late'[t] = late[t] /\ tasks'[t] = tasks[t]
      BY <1>4, <2>2 DEF job
    <3> QED
      BY <1>3, <3>1, <3>2 DEF IInv, MemInv, LateInv
  <2> QED
    BY <2>1, <2>2
<1> QED
  BY <1>7, <1>8, <1>9, <1>10, <1>11, <1>12, <1>13, <1>14, <1>15 DEF IInv, MemInv, RowStep

(* A step outside of updateTask that starts no attempt of a canceled task. *)
LEMMA QuietWorker ==
    ASSUME IInv, NEW w \in Worker, NEW r \in WorkerState, NEW x \in Task,
           wk[w].pc \notin Writing \cup {"idle"}, r.pc \notin Writing \cup {"idle"}, r.task = wk[w].task,
           x.cancel = tasks[wk[w].task].cancel,
           wk' = [wk EXCEPT ![w] = r], tasks' = [tasks EXCEPT ![wk[w].task] = x],
           KeepRest, UNCHANGED <<queue, lock, late>>, RowStep(wk[w].task), r.pc = "run" => ~x.cancel
    PROVE  IInv'
<1>1. lock \in Worker \cup {Nobody, "canc"} /\ late \in [TaskId -> Nat]
  BY DEF IInv, MemOK
<1>2. lock # w
  BY DEF IInv, MemInv, LockInv
<1>3. wk[w].task \in TaskId
  BY JobFacts
<1>4. late[wk[w].task] <= 1 /\ (late[wk[w].task] # 0 => tasks[wk[w].task].cancel)
  BY <1>3 DEF IInv, MemInv, LateInv
<1> QED
  BY <1>1, <1>2, <1>3, <1>4, WorkerFrame

LEMMA SkipKeeps == ASSUME IInv, NEW w \in Worker, SkipCanceled(w) PROVE IInv'
<1> DEFINE r == [wk[w] EXCEPT !.pc = "save"]
           x == [tasks[wk[w].task] EXCEPT !.status = "canceled"]
<1>1. /\ wk[w].pc = "start" /\ KeepRest /\ UNCHANGED <<queue, lock, late>>
      /\ wk' = [wk EXCEPT ![w] = r] /\ tasks' = [tasks EXCEPT ![wk[w].task] = x]
  BY DEF SkipCanceled, On, To, Job
<1>2. wk[w] \in WorkerState /\ wk[w].task \in TaskId /\ tasks[wk[w].task] # NoRow
  BY <1>1, JobFacts
<1>3. x \in Task /\ x.cancel = tasks[wk[w].task].cancel
  BY <1>2, TaskFacts DEF IInv, Status, Terminal
<1>4. r \in WorkerState /\ r.pc = "save" /\ r.task = wk[w].task
  BY <1>2 DEF WorkerState, WorkerPc
<1>5. RowStep(wk[w].task)
  BY KeepDbRow DEF IInv, SkipCanceled
<1> HIDE DEF r, x
<1> QED
  BY <1>1, <1>3, <1>4, <1>5, QuietWorker DEF Writing

LEMMA StartKeeps == ASSUME IInv, NEW w \in Worker, Start(w) PROVE IInv'
<1> DEFINE r == [wk[w] EXCEPT !.pc = "setRunning"]
           x == [tasks[wk[w].task] EXCEPT !.status = "running"]
<1>1. /\ wk[w].pc = "start" /\ KeepRest /\ UNCHANGED <<queue, lock, late>>
      /\ wk' = [wk EXCEPT ![w] = r] /\ tasks' = [tasks EXCEPT ![wk[w].task] = x]
  BY DEF Start, On, To, Job
<1>2. wk[w] \in WorkerState /\ wk[w].task \in TaskId /\ tasks[wk[w].task] # NoRow
  BY <1>1, JobFacts
<1>3. x \in Task /\ x.cancel = tasks[wk[w].task].cancel
  BY <1>2, TaskFacts DEF IInv, Status, Terminal
<1>4. r \in WorkerState /\ r.pc = "setRunning" /\ r.task = wk[w].task
  BY <1>2 DEF WorkerState, WorkerPc
<1>5. RowStep(wk[w].task)
  BY KeepDbRow DEF IInv, Start
<1> HIDE DEF r, x
<1> QED
  BY <1>1, <1>3, <1>4, <1>5, QuietWorker DEF Writing

LEMMA SetRunningKeeps == ASSUME IInv, NEW w \in Worker, set_running(w) PROVE IInv'
<1> DEFINE r == [wk[w] EXCEPT !.pc = "loop"]
           x == [tasks[wk[w].task] EXCEPT !.status = "running"]
           job == wk[w].task
<1>1. /\ wk[w].pc = "setRunning" /\ KeepRest /\ KeepMig /\ UNCHANGED <<queue, lock, late>>
      /\ wk' = [wk EXCEPT ![w] = r] /\ tasks' = [tasks EXCEPT ![job] = x] /\ RunningRow(job)
  BY DEF set_running, On, To, Job
<1>2. wk[w] \in WorkerState /\ job \in TaskId /\ tasks[job] # NoRow /\ At("done")
  BY <1>1, JobFacts
<1>3. x \in Task /\ x.cancel = tasks[job].cancel
  BY <1>2, TaskFacts DEF IInv, Status, Terminal
<1>4. r \in WorkerState /\ r.pc = "loop" /\ r.task = job
  BY <1>2 DEF WorkerState, WorkerPc
<1>5. RowStep(job)
  <2> HIDE DEF job
  <2>1. CASE Stored(job)
    <3> DEFINE y == [view.rows[job] EXCEPT !.status = "running"]
               d == [view EXCEPT !.rows[job].status = "running"]
    <3>1. view \in Db /\ view.rows \in Rows /\ view.rows[job] \in Task
      BY <1>2, <2>1 DEF IInv, DbOK, Db, Rows, Stored
    <3>2. y \in Task
      BY <3>1 DEF Task, Status
    <3>3. d = [view EXCEPT !.rows = [view.rows EXCEPT ![job] = y]]
      OBVIOUS
    <3>4. Write(d)
      BY <1>1, <2>1 DEF RunningRow
    <3> HIDE DEF y, d
    <3> QED
      BY <1>1, <1>2, <2>1, <3>2, <3>3, <3>4, WriteRowStep DEF IInv
  <2>2. CASE ~Stored(job)
    <3>1. KeepDb
      BY <1>1, <2>2 DEF RunningRow, KeepDb, dbVars, KeepMig
    <3> QED
      BY <3>1, KeepDbRow DEF IInv
  <2> QED
    BY <2>1, <2>2
<1> HIDE DEF r, x
<1> QED
  BY <1>1, <1>3, <1>4, <1>5, QuietWorker DEF Writing

LEMMA AttemptKeeps == ASSUME IInv, NEW w \in Worker, Attempt(w) PROVE IInv'
<1> DEFINE x == tasks[wk[w].task]
<1>1. wk[w].pc = "loop" /\ KeepRest /\ UNCHANGED <<tasks, queue, lock, late>> /\ KeepDb
  BY DEF Attempt, On
<1>2. wk[w] \in WorkerState /\ wk[w].task \in TaskId /\ tasks[wk[w].task] # NoRow /\ tasks \in Rows
  BY <1>1, JobFacts DEF IInv, MemOK
<1>3. x \in Task /\ tasks' = [tasks EXCEPT ![wk[w].task] = x]
  BY <1>1, <1>2, TaskFacts DEF IInv, Rows
<1>5. RowStep(wk[w].task)
  BY <1>1, KeepDbRow DEF IInv
<1>6. CASE tasks[wk[w].task].cancel
  <2> DEFINE r == [wk[w] EXCEPT !.pc = "final", !.out = "canceled"]
  <2>1. wk' = [wk EXCEPT ![w] = r]
    BY <1>6 DEF Attempt, Job
  <2>2. r \in WorkerState /\ r.pc = "final" /\ r.task = wk[w].task
    BY <1>2 DEF WorkerState, WorkerPc
  <2> HIDE DEF r
  <2> QED
    BY <1>1, <1>3, <1>5, <2>1, <2>2, QuietWorker DEF Writing
<1>7. CASE ~tasks[wk[w].task].cancel
  <2> DEFINE r == [wk[w] EXCEPT !.pc = "run"]
  <2>1. wk' = [wk EXCEPT ![w] = r]
    BY <1>7 DEF Attempt, Job, To
  <2>2. r \in WorkerState /\ r.pc = "run" /\ r.task = wk[w].task
    BY <1>2 DEF WorkerState, WorkerPc
  <2> HIDE DEF r
  <2> QED
    BY <1>1, <1>3, <1>5, <1>7, <2>1, <2>2, QuietWorker DEF Writing
<1> QED
  BY <1>6, <1>7

LEMMA RunKeeps == ASSUME IInv, NEW w \in Worker, NEW o \in {"ok", "fail", "timeout"}, RunCommand(w, o) PROVE IInv'
<1> DEFINE x == tasks[wk[w].task]
           job == wk[w].task
           l == IF o = "fail" THEN "failed" ELSE "final"
           r == [wk[w] EXCEPT !.pc = l, !.out = o]
<1>1. wk[w].pc = "run" /\ KeepRest /\ UNCHANGED <<tasks, queue, lock>> /\ KeepDb
  BY DEF RunCommand, On
<1>2. wk[w] \in WorkerState /\ job \in TaskId /\ tasks[job] # NoRow /\ tasks \in Rows
  BY <1>1, JobFacts DEF IInv, MemOK
<1>3. x \in Task /\ tasks' = [tasks EXCEPT ![job] = x]
  BY <1>1, <1>2, TaskFacts DEF IInv, Rows
<1>4. late \in [TaskId -> Nat] /\ late' = [late EXCEPT ![job] = IF x.cancel THEN late[job] + 1 ELSE late[job]]
  BY DEF RunCommand, Job, IInv, MemOK
<1>5. late[job] = 0
  <2>1. late[job] \in Nat
    BY <1>2, <1>4
  <2> QED
    BY <1>1, <1>2, <2>1 DEF IInv, MemInv, LateInv
<1>6. /\ late' \in [TaskId -> Nat] /\ \A t \in TaskId : t # job => late'[t] = late[t]
      /\ late'[job] <= 1 /\ (late'[job] # 0 => x.cancel)
  BY <1>2, <1>4, <1>5
<1>7. wk' = [wk EXCEPT ![w] = r]
  BY DEF RunCommand
<1>8. r \in WorkerState /\ r.pc \in {"failed", "final"} /\ r.task = job
  BY <1>2 DEF WorkerState, WorkerPc
<1>9. RowStep(job)
  BY <1>1, KeepDbRow DEF IInv
<1>10. lock \in Worker \cup {Nobody, "canc"} /\ lock # w
  BY <1>1 DEF IInv, MemOK, MemInv, LockInv, Writing
<1> HIDE DEF x, r, l
<1>11. r.pc \notin Writing /\ r.pc # "run" /\ r.pc # "idle" /\ x.cancel = tasks[wk[w].task].cancel
  BY <1>8 DEF Writing, x
<1> QED
  BY <1>1, <1>3, <1>6, <1>7, <1>8, <1>9, <1>10, <1>11, WorkerFrame

LEMMA CountRetryKeeps == ASSUME IInv, NEW w \in Worker, CountRetry(w) PROVE IInv'
<1> DEFINE n == wk[w].attempt + 1
           r == [wk[w] EXCEPT !.pc = "saveRetry", !.attempt = n]
           x == [tasks[wk[w].task] EXCEPT !.retry = n]
<1>1. /\ wk[w].pc = "failed" /\ KeepRest /\ UNCHANGED <<queue, lock, late>>
      /\ wk' = [wk EXCEPT ![w] = r] /\ tasks' = [tasks EXCEPT ![wk[w].task] = x]
  BY DEF CountRetry, On, Job
<1>2. wk[w] \in WorkerState /\ wk[w].task \in TaskId /\ tasks[wk[w].task] # NoRow
  BY <1>1, JobFacts
<1>3. n \in Nat
  BY <1>2 DEF WorkerState
<1> HIDE DEF n
<1>4. x \in Task /\ x.cancel = tasks[wk[w].task].cancel
  BY <1>2, <1>3, TaskFacts DEF IInv
<1>5. r \in WorkerState /\ r.pc = "saveRetry" /\ r.task = wk[w].task
  BY <1>2, <1>3 DEF WorkerState, WorkerPc
<1>6. RowStep(wk[w].task)
  BY KeepDbRow DEF IInv, CountRetry
<1> HIDE DEF r, x
<1> QED
  BY <1>1, <1>4, <1>5, <1>6, QuietWorker DEF Writing

LEMMA FinalKeeps == ASSUME IInv, NEW w \in Worker, Final(w) PROVE IInv'
<1> DEFINE s == IF wk[w].out = "canceled" \/ tasks[wk[w].task].cancel THEN "canceled"
                ELSE IF wk[w].out = "timeout" THEN "timeout"
                ELSE IF wk[w].out = "ok" THEN "success" ELSE "failed"
           r == [wk[w] EXCEPT !.pc = "save"]
           x == [tasks[wk[w].task] EXCEPT !.status = s]
<1>1. /\ wk[w].pc = "final" /\ KeepRest /\ UNCHANGED <<queue, lock, late>>
      /\ wk' = [wk EXCEPT ![w] = r] /\ tasks' = [tasks EXCEPT ![wk[w].task] = x]
  BY DEF Final, On, To, Job
<1>2. wk[w] \in WorkerState /\ wk[w].task \in TaskId /\ tasks[wk[w].task] # NoRow
  BY <1>1, JobFacts
<1>3. s \in Status
  BY DEF Status, Terminal
<1> HIDE DEF s
<1>4. x \in Task /\ x.cancel = tasks[wk[w].task].cancel
  BY <1>2, <1>3, TaskFacts DEF IInv
<1>5. r \in WorkerState /\ r.pc = "save" /\ r.task = wk[w].task
  BY <1>2 DEF WorkerState, WorkerPc
<1>6. RowStep(wk[w].task)
  BY KeepDbRow DEF IInv, Final
<1> HIDE DEF r, x
<1> QED
  BY <1>1, <1>4, <1>5, <1>6, QuietWorker DEF Writing

LEMMA WorkerSnapKeeps == ASSUME IInv, NEW w \in Worker, WorkerSnap(w) PROVE IInv'
<1> DEFINE x == tasks[wk[w].task]
           job == wk[w].task
           l == IF wk[w].pc = "save" THEN "write" ELSE "writeRetry"
           r == [wk[w] EXCEPT !.pc = l, !.seen = x.status]
<1>1. /\ wk[w].pc \in {"save", "saveRetry"} /\ KeepRest /\ UNCHANGED <<tasks, queue, late>> /\ KeepDb
      /\ lock = Nobody /\ lock' = w
  BY DEF WorkerSnap, Snap
<1>2. wk[w] \in WorkerState /\ job \in TaskId /\ tasks[job] # NoRow /\ tasks \in Rows
  BY <1>1, JobFacts DEF IInv, MemOK
<1>3. x \in Task /\ x.status \in Status /\ tasks' = [tasks EXCEPT ![job] = x]
  BY <1>1, <1>2, TaskFacts DEF IInv, Rows
<1>4. late \in [TaskId -> Nat] /\ late[job] <= 1 /\ (late[job] # 0 => x.cancel)
  BY <1>2 DEF IInv, MemOK, MemInv, LateInv
<1>5. wk' = [wk EXCEPT ![w] = r]
  BY DEF WorkerSnap, Job
<1>6. r \in WorkerState /\ r.pc \in Writing /\ r.task = job /\ r.seen = x.status
  BY <1>2, <1>3 DEF WorkerState, WorkerPc, Writing
<1>7. RowStep(job)
  BY <1>1, KeepDbRow DEF IInv
<1>8. \A p \in (Worker \cup {"canc"}) \ {w} : lock' = p <=> lock = p
  BY <1>1, NameAssumption
<1> HIDE DEF x, r, l
<1>9. r.pc # "run" /\ r.pc # "idle" /\ x.cancel = tasks[wk[w].task].cancel
  BY <1>6 DEF Writing, x
<1> QED
  BY <1>1, <1>3, <1>4, <1>5, <1>6, <1>7, <1>8, <1>9, WorkerFrame

(* updateTask writes the row of a task that is stored. *)
LEMMA UpdateRowFacts ==
    ASSUME IInv, NEW t \in TaskId, tasks[t] # NoRow, NEW s \in Status, At("done"), KeepMig, UpdateRow(t, s)
    PROVE  RowStep(t) /\ (Full /\ Stored(t) => view'.rows[t] = [tasks[t] EXCEPT !.status = s])
<1> DEFINE x == [tasks[t] EXCEPT !.status = s]
<1>1. x \in Task
  BY TaskFacts DEF IInv
<1>2. CASE Full /\ Stored(t)
  <2> DEFINE d == [view EXCEPT !.rows[t] = x]
  <2>1. Write(d)
    BY <1>2 DEF UpdateRow
  <2> HIDE DEF x
  <2>2. d = [view EXCEPT !.rows = [view.rows EXCEPT ![t] = x]]
    OBVIOUS
  <2> HIDE DEF d
  <2>3. RowStep(t) /\ view'.rows[t] = x
    BY <1>1, <1>2, <2>1, <2>2, WriteRowStep DEF IInv
  <2> QED
    BY <2>3 DEF x
<1>3. CASE ~(Full /\ Stored(t))
  <2>1. KeepDb
    BY <1>3 DEF UpdateRow, KeepDb, KeepMig, dbVars
  <2> QED
    BY <1>3, <2>1, KeepDbRow DEF IInv
<1> QED
  BY <1>2, <1>3

(* The worker that writes has the mutex and nobody else does. *)
LEMMA WriterFacts ==
    ASSUME IInv, NEW w \in Worker, wk[w].pc \in Writing
    PROVE  /\ lock = w /\ canc.pc # "write" /\ wk[w].pc # "idle"
           /\ \A u \in Worker : u # w => wk[u].pc \notin Writing
           /\ wk[w].seen = tasks[wk[w].task].status
<1>1. lock = w
  BY DEF IInv, MemInv, LockInv
<1>2. canc.pc # "write"
  BY <1>1, NameAssumption DEF IInv, MemInv, LockInv
<1>3. \A u \in Worker : u # w => wk[u].pc \notin Writing
  BY <1>1 DEF IInv, MemInv, LockInv
<1> QED
  BY <1>1, <1>2, <1>3 DEF IInv, MemInv, SeenInv, Writing

LEMMA WriteRetryKeeps == ASSUME IInv, NEW w \in Worker, WorkerWrite(w), wk[w].pc = "writeRetry" PROVE IInv'
<1> DEFINE x == tasks[wk[w].task]
           job == wk[w].task
           l == IF wk[w].attempt > MaxRetries[job] THEN "final" ELSE "loop"
           r == [wk[w] EXCEPT !.pc = l]
<1>1. /\ KeepRest /\ UNCHANGED <<tasks, queue, late>> /\ KeepMig
      /\ lock' = Nobody /\ UpdateRow(job, wk[w].seen)
  BY DEF WorkerWrite, Job
<1>2. wk[w] \in WorkerState /\ job \in TaskId /\ tasks[job] # NoRow /\ tasks \in Rows /\ At("done")
  BY JobFacts DEF IInv, MemOK
<1>3. x \in Task /\ tasks' = [tasks EXCEPT ![job] = x]
  BY <1>1, <1>2, TaskFacts DEF IInv, Rows
<1>4. late \in [TaskId -> Nat] /\ late[job] <= 1 /\ (late[job] # 0 => x.cancel)
  BY <1>2 DEF IInv, MemOK, MemInv, LateInv
<1>5. wk' = [wk EXCEPT ![w] = r]
  BY DEF WorkerWrite, Job
<1>6. r \in WorkerState /\ r.pc \in {"final", "loop"} /\ r.task = job
  BY <1>2 DEF WorkerPc, WorkerState
<1>7. RowStep(job)
  BY <1>1, <1>2, UpdateRowFacts DEF WorkerState
<1>8. lock = w
  BY WriterFacts DEF Writing
<1>9. (\A p \in (Worker \cup {"canc"}) \ {w} : lock' = p <=> lock = p) /\ lock' # w
  BY <1>1, <1>8, NameAssumption
<1> HIDE DEF x, r, l
<1>10. r.pc # "run" /\ r.pc # "idle" /\ r.pc \notin Writing /\ x.cancel = tasks[wk[w].task].cancel
  BY <1>6 DEF Writing, x
<1> QED
  BY <1>1, <1>3, <1>4, <1>5, <1>6, <1>7, <1>9, <1>10, WorkerFrame

(* The last save: the worker is done with the task. *)
LEMMA WriteKeeps == ASSUME IInv, NEW w \in Worker, WorkerWrite(w), wk[w].pc = "write" PROVE IInv'
<1> DEFINE job == wk[w].task
<1>1. /\ UNCHANGED <<nextId, loaded, creating, stopping, canc, tasks, queue, late>> /\ KeepMig
      /\ lock' = Nobody /\ UpdateRow(job, wk[w].seen)
  BY DEF WorkerWrite, Job, KeepRest
<1>2. /\ wk[w] \in WorkerState /\ job \in TaskId /\ tasks[job] # NoRow /\ At("done")
      /\ loaded /\ \A u \in Worker : u # w => wk[u].task # job
  BY JobFacts
<1>3. wk \in [Worker -> WorkerState] /\ wk' = [wk EXCEPT ![w] = Idle]
  BY DEF IInv, MemOK, WorkerWrite
<1>4. /\ wk'[w] = Idle /\ \A u \in Worker : u # w => wk'[u] = wk[u]
      /\ wk' \in [Worker -> WorkerState]
  <2>1. Idle \in WorkerState
    BY DEF Idle, WorkerState, WorkerPc, Status
  <2> QED
    BY <1>3, <2>1
<1>5. Idle.task = Nobody /\ Idle.pc = "idle" /\ Nobody \notin TaskId
  BY IdAssumption DEF Idle
<1>6. /\ RowStep(job) /\ wk[w].seen \in Status
      /\ Full /\ Stored(job) => view'.rows[job] = [tasks[job] EXCEPT !.status = wk[w].seen]
  BY <1>1, <1>2, UpdateRowFacts DEF WorkerState
<1>7. /\ canc.pc # "write" /\ wk[w].seen = tasks[job].status
      /\ \A u \in Worker : u # w => wk[u].pc \notin Writing
  BY WriterFacts DEF Writing
<1> HIDE DEF job
<1>8. MemOK'
  BY <1>1, <1>4 DEF IInv, MemOK
<1>9. BootInv'
  BY <1>1, <1>2, <1>6 DEF BootInv, At, RowStep
<1>10. FreshInv'
  BY <1>1, <1>2, <1>6, FreshKept
<1>11. HandledInv'
  BY <1>1, <1>4, <1>5 DEF IInv, MemInv, HandledInv
<1>12. OnceInv'
  <2>1. \A i \in DOMAIN queue : queue[i] \in TaskId
    BY DEF IInv, MemOK
  <2>2. \A u \in Worker : wk'[u].task \in {wk[u].task, Nobody}
    BY <1>4, <1>5
  <2>3. \A i \in DOMAIN queue' : \A u \in Worker : wk'[u].task # queue'[i]
    BY <1>1, <1>5, <2>1, <2>2 DEF IInv, MemInv, OnceInv
  <2>4. \A u, v \in Worker : wk'[u].task = wk'[v].task /\ wk'[u].task # Nobody => u = v
    BY <1>4, <1>5, <2>2 DEF IInv, MemInv, OnceInv
  <2>5. \A u \in Worker : wk'[u].task = creating' => creating' = Nobody
    BY <1>1, <2>2 DEF IInv, MemInv, OnceInv
  <2> QED
    BY <1>1, <2>3, <2>4, <2>5 DEF IInv, MemInv, OnceInv
<1>13. LockInv' /\ SeenInv'
  <2>1. \A u \in Worker : wk'[u].pc \notin Writing /\ lock' # u
    BY <1>1, <1>4, <1>5, <1>7, NameAssumption DEF Writing
  <2> QED
    BY <1>1, <1>7, <2>1, NameAssumption DEF LockInv, SeenInv
<1>14. RowInv'
  <2> SUFFICES ASSUME NEW t \in TaskId, (loaded /\ Full /\ tasks[t] # NoRow /\ Stored(t) /\ canc.task # t)',
                      \A u \in Worker : wk'[u].task # t
               PROVE  view'.rows[t] = tasks'[t]
    BY DEF RowInv
  <2>1. CASE t # job
    <3>1. view'.rows[t] = view.rows[t] /\ view'.obj = view.obj
      BY <1>6, <2>1 DEF RowStep
    <3>2. \A u \in Worker : wk[u].task # t
      BY <1>4, <2>1 DEF job
    <3> QED
      BY <1>1, <3>1, <3>2 DEF IInv, MemInv, RowInv, Full, Stored
  <2>2. CASE t = job
    <3>1. view'.rows[job] = [tasks[job] EXCEPT !.status = wk[w].seen]
      BY <1>6, <2>2 DEF RowStep, Full, Stored
    <3>2. tasks[job] \in Task
      BY <1>2, TaskFacts DEF IInv
    <3>3. [tasks[job] EXCEPT !.status = wk[w].seen] = tasks[job]
      BY <1>7, <3>2 DEF Task
    <3> QED
      BY <1>1, <2>2, <3>1, <3>3
  <2> QED
    BY <2>1, <2>2
<1>15. LateInv'
  <2>1. \A u \in Worker, t \in TaskId : wk'[u].task = t => wk'[u] = wk[u]
    BY <1>4, <1>5
  <2> QED
    BY <1>1, <2>1 DEF IInv, MemInv, LateInv
<1> QED
  BY <1>6, <1>8, <1>9, <1>10, <1>11, <1>12, <1>13, <1>14, <1>15 DEF IInv, MemInv, RowStep

(* BlockingQueue::pop hands a task to one worker. *)
LEMMA popKeeps == ASSUME IInv, NEW w \in Worker, pop(w) PROVE IInv'
<1> DEFINE job == Head(queue)
           r == [Idle EXCEPT !.pc = "start", !.task = job]
<1>1. /\ UNCHANGED <<nextId, loaded, creating, stopping, canc, tasks, lock, late>> /\ KeepDb
      /\ wk[w].pc = "idle" /\ queue # <<>> /\ queue' = Tail(queue) /\ wk' = [wk EXCEPT ![w] = r]
  BY DEF pop, On, KeepRest
<1>2. queue \in Seq(TaskId) /\ wk \in [Worker -> WorkerState]
  BY DEF IInv, MemOK
<1>3. /\ 1 \in DOMAIN queue /\ job = queue[1] /\ job \in TaskId /\ queue' \in Seq(TaskId)
      /\ \A i \in DOMAIN queue' : i + 1 \in DOMAIN queue /\ i + 1 # 1 /\ queue'[i] = queue[i + 1]
      /\ \A i, j \in DOMAIN queue' : i + 1 = j + 1 => i = j
  BY <1>1, <1>2
<1> HIDE DEF job
<1>4. r \in WorkerState /\ r.pc = "start" /\ r.task = job
  BY <1>3 DEF Idle, WorkerState, WorkerPc, Status
<1> HIDE DEF r
<1>5. /\ wk'[w] = r /\ \A u \in Worker : u # w => wk'[u] = wk[u]
      /\ wk' \in [Worker -> WorkerState]
  BY <1>1, <1>2, <1>4
<1>6. loaded /\ At("done")
  <2>1. loaded
    BY <1>1 DEF IInv, MemInv, BootInv, MemOK
  <2> QED
    BY <2>1 DEF IInv, MemInv, BootInv
<1>7. RowStep(job)
  BY <1>1, KeepDbRow DEF IInv
<1>8. /\ tasks[job] # NoRow /\ (\A u \in Worker : wk[u].task # job) /\ job # creating
      /\ wk[w].task = Nobody /\ job # Nobody
  BY <1>1, <1>3, IdAssumption DEF IInv, MemInv, HandledInv, OnceInv
<1>9. MemOK'
  BY <1>1, <1>3, <1>5 DEF IInv, MemOK
<1>10. BootInv'
  BY <1>1, <1>6, <1>7 DEF BootInv, At, RowStep
<1>11. FreshInv'
  BY <1>1, <1>3, <1>7, FreshKept
<1>12. HandledInv'
  <2>1. \A u \in Worker : IF wk'[u].pc = "idle" THEN wk'[u].task = Nobody
                          ELSE wk'[u].task \in TaskId /\ tasks'[wk'[u].task] # NoRow
    BY <1>1, <1>3, <1>4, <1>5, <1>8 DEF IInv, MemInv, HandledInv
  <2> QED
    BY <1>1, <1>3, <2>1 DEF IInv, MemInv, HandledInv
<1>13. OnceInv'
  <2>1. \A u, v \in Worker : wk'[u].task = wk'[v].task /\ wk'[u].task # Nobody => u = v
    BY <1>4, <1>5, <1>8 DEF IInv, MemInv, OnceInv
  <2>2. \A i, j \in DOMAIN queue' : queue'[i] = queue'[j] => i = j
    BY <1>3 DEF IInv, MemInv, OnceInv
  <2>3. \A i \in DOMAIN queue' : queue'[i] # job
    BY <1>3 DEF IInv, MemInv, OnceInv
  <2>4. \A i \in DOMAIN queue' : \A u \in Worker : wk'[u].task # queue'[i]
    BY <1>3, <1>4, <1>5, <2>3 DEF IInv, MemInv, OnceInv
  <2>5. \A i \in DOMAIN queue' : queue'[i] # creating'
    BY <1>1, <1>3 DEF IInv, MemInv, OnceInv
  <2>6. \A u \in Worker : wk'[u].task = creating' => creating' = Nobody
    BY <1>1, <1>4, <1>5, <1>8 DEF IInv, MemInv, OnceInv
  <2> QED
    BY <2>1, <2>2, <2>4, <2>5, <2>6 DEF OnceInv
<1>14. LockInv'
  <2>1. \A u \in Worker : wk'[u].pc \in Writing <=> wk[u].pc \in Writing
    BY <1>1, <1>4, <1>5 DEF Writing
  <2> QED
    BY <1>1, <2>1 DEF IInv, MemInv, LockInv
<1>15. SeenInv'
  <2>1. \A u \in Worker : wk'[u].pc \in Writing => wk'[u] = wk[u]
    BY <1>4, <1>5 DEF Writing
  <2>2. canc.pc = "write" /\ (\A u \in Worker : wk'[u].task # canc.task) => \A u \in Worker : wk[u].task # canc.task
    <3>1. canc.pc = "write" => canc.task # Nobody
      BY IdAssumption DEF IInv, MemInv, HandledInv
    <3> QED
      BY <1>5, <1>8, <3>1
  <2> QED
    BY <1>1, <2>1, <2>2 DEF IInv, MemInv, SeenInv
<1>16. RowInv'
  <2>1. \A t \in TaskId : (\A u \in Worker : wk'[u].task # t) => \A u \in Worker : wk[u].task # t
    BY <1>5, <1>8, IdAssumption
  <2> QED
    BY <1>1, <2>1 DEF IInv, MemInv, RowInv, KeepDb, dbVars, Full, Stored
<1>17. LateInv'
  <2>1. \A u \in Worker : wk'[u].pc = "run" => wk'[u] = wk[u]
    BY <1>4, <1>5
  <2> QED
    BY <1>1, <2>1 DEF IInv, MemInv, LateInv
<1> QED
  BY <1>7, <1>9, <1>10, <1>11, <1>12, <1>13, <1>14, <1>15, <1>16, <1>17 DEF IInv, MemInv, RowStep

LEMMA WorkerKeeps == ASSUME IInv, NEW w \in Worker, WorkerStep(w) PROVE IInv'
<1>1. CASE WorkerWrite(w)
  <2>1. wk[w].pc \in {"write", "writeRetry"}
    BY <1>1 DEF WorkerWrite
  <2> QED
    BY <1>1, <2>1, WriteKeeps, WriteRetryKeeps
<1> QED
  BY <1>1, popKeeps, SkipKeeps, StartKeeps, SetRunningKeeps, AttemptKeeps, RunKeeps, CountRetryKeeps,
     FinalKeeps, WorkerSnapKeeps DEF WorkerStep

-----------------------------------------------------------------------------
(***************************************************************************)
(* A cancellation.                                                         *)
(***************************************************************************)
(* A cancellation that is under way has a task and the server is up. *)
LEMMA CancFacts ==
    ASSUME IInv, canc.pc # "idle"
    PROVE  canc.task \in TaskId /\ tasks[canc.task] # NoRow /\ loaded /\ At("done") /\ canc.seen \in Status
<1>1. canc.task \in TaskId /\ tasks[canc.task] # NoRow /\ canc.seen \in Status /\ loaded \in BOOLEAN
  BY DEF IInv, MemInv, HandledInv, MemOK
<1>2. loaded
  BY DEF IInv, MemInv, BootInv, Resting
<1> QED
  BY <1>1, <1>2 DEF IInv, MemInv, BootInv

LEMMA CancelCheckKeeps == ASSUME IInv, NEW t \in TaskId, CancelCheck(t) PROVE IInv'
<1>1. /\ UNCHANGED <<nextId, loaded, creating, queue, stopping, wk, late, tasks, lock>> /\ KeepDb
      /\ loaded /\ At("done") /\ canc = Resting /\ tasks[t] # NoRow
      /\ canc' = [canc EXCEPT !.pc = "flag", !.task = t]
  BY DEF CancelCheck, KeepCanc, Serving
<1>2. /\ canc'.pc = "flag" /\ canc'.task = t /\ canc.pc = "idle" /\ canc.task = Nobody
      /\ canc' \in [pc : {"idle", "flag", "save", "write"}, task : TaskId \cup {Nobody}, seen : Status]
  BY <1>1 DEF Resting, Status
<1>3. RowStep(t)
  BY <1>1, KeepDbRow DEF IInv
<1>4. MemOK'
  BY <1>1, <1>2 DEF IInv, MemOK
<1>5. BootInv' /\ FreshInv'
  BY <1>1, <1>3, FreshKept DEF BootInv, At, RowStep
<1>6. HandledInv' /\ OnceInv'
  BY <1>1, <1>2 DEF IInv, MemInv, HandledInv, OnceInv
<1>7. LockInv' /\ SeenInv'
  BY <1>1, <1>2 DEF IInv, MemInv, LockInv, SeenInv
<1>8. RowInv'
  BY <1>1, <1>2, IdAssumption DEF IInv, MemInv, RowInv, KeepDb, dbVars, Full, Stored
<1>9. LateInv'
  BY <1>1 DEF IInv, MemInv, LateInv
<1> QED
  BY <1>3, <1>4, <1>5, <1>6, <1>7, <1>8, <1>9 DEF IInv, MemInv, RowStep

LEMMA CancelFlagKeeps == ASSUME IInv, CancelFlag PROVE IInv'
<1> DEFINE t == canc.task
           x == [tasks[t] EXCEPT !.cancel = TRUE]
<1>1. /\ UNCHANGED <<nextId, loaded, creating, queue, stopping, wk, late, lock>> /\ KeepDb
      /\ canc.pc = "flag" /\ canc' = [canc EXCEPT !.pc = "save"] /\ tasks' = [tasks EXCEPT ![t] = x]
  BY DEF CancelFlag, KeepCanc
<1>2. t \in TaskId /\ tasks[t] # NoRow /\ loaded /\ At("done")
  BY <1>1, CancFacts
<1>3. /\ canc'.pc = "save" /\ canc'.task = t
      /\ canc' \in [pc : {"idle", "flag", "save", "write"}, task : TaskId \cup {Nobody}, seen : Status]
  BY <1>1 DEF IInv, MemOK
<1>4. tasks[t] \in Task /\ tasks \in Rows
  BY <1>2, TaskFacts DEF IInv, MemOK
<1>5. x \in Task /\ x.cancel /\ x.status = tasks[t].status /\ x # NoRow
  BY <1>4, NoRowAssumption DEF Task
<1> HIDE DEF x
<1>6. /\ tasks'[t] = x /\ tasks' \in Rows /\ \A u \in TaskId : u # t => tasks'[u] = tasks[u]
  BY <1>1, <1>2, <1>4, <1>5 DEF Rows
<1>7. /\ \A u \in TaskId : tasks'[u] # NoRow <=> tasks[u] # NoRow
      /\ \A u \in TaskId : tasks'[u].status = tasks[u].status /\ (tasks[u].cancel => tasks'[u].cancel)
  BY <1>2, <1>5, <1>6
<1>8. RowStep(t)
  BY <1>1, KeepDbRow DEF IInv
<1> HIDE DEF t
<1>9. MemOK'
  BY <1>1, <1>3, <1>6 DEF IInv, MemOK
<1>10. BootInv' /\ FreshInv'
  BY <1>1, <1>2, <1>7, <1>8, FreshKept DEF BootInv, At, RowStep
<1>11. HandledInv'
  <2>1. \A i \in DOMAIN queue : queue[i] \in TaskId
    BY DEF IInv, MemOK
  <2> QED
    BY <1>1, <1>2, <1>3, <1>7, <2>1 DEF IInv, MemInv, MemOK, HandledInv
<1>12. OnceInv'
  BY <1>1 DEF IInv, MemInv, OnceInv
<1>13. LockInv'
  BY <1>1, <1>3 DEF IInv, MemInv, LockInv
<1>14. SeenInv'
  <2>1. \A u \in Worker : wk[u].pc \in Writing => wk[u].task \in TaskId
    BY DEF IInv, MemInv, HandledInv, Writing
  <2> QED
    BY <1>1, <1>3, <1>7, <2>1 DEF IInv, MemInv, SeenInv
<1>15. RowInv'
  <2> SUFFICES ASSUME NEW u \in TaskId, (loaded /\ Full /\ tasks[u] # NoRow /\ Stored(u) /\ canc.task # u)',
                      \A w \in Worker : wk'[w].task # u
               PROVE  view'.rows[u] = tasks'[u]
    BY DEF RowInv
  <2>1. u # t /\ tasks'[u] = tasks[u] /\ canc.task # u /\ view' = view
    BY <1>1, <1>3, <1>6 DEF t, KeepDb, dbVars
  <2> QED
    BY <1>1, <2>1 DEF IInv, MemInv, RowInv, Full, Stored
<1>16. LateInv'
  BY <1>1, <1>7 DEF IInv, MemInv, LateInv
<1> QED
  BY <1>8, <1>9, <1>10, <1>11, <1>12, <1>13, <1>14, <1>15, <1>16 DEF IInv, MemInv, RowStep

LEMMA CancelSnapKeeps == ASSUME IInv, CancelSnap PROVE IInv'
<1> DEFINE t == canc.task
           s == tasks[canc.task].status
<1>1. /\ UNCHANGED <<nextId, loaded, creating, queue, stopping, wk, late, tasks>> /\ KeepDb
      /\ canc.pc = "save" /\ canc' = [canc EXCEPT !.pc = "write", !.seen = s]
      /\ lock = Nobody /\ lock' = "canc"
  BY DEF CancelSnap, KeepCanc, Snap
<1>2. t \in TaskId /\ tasks[t] # NoRow /\ loaded /\ At("done")
  BY <1>1, CancFacts
<1>3. s \in Status
  BY <1>2, TaskFacts DEF IInv
<1> HIDE DEF s
<1>4. /\ canc'.pc = "write" /\ canc'.task = t /\ canc'.seen = s
      /\ canc' \in [pc : {"idle", "flag", "save", "write"}, task : TaskId \cup {Nobody}, seen : Status]
  BY <1>1, <1>3 DEF IInv, MemOK
<1>5. RowStep(t)
  BY <1>1, KeepDbRow DEF IInv
<1> HIDE DEF t
<1>6. MemOK'
  BY <1>1, <1>4 DEF IInv, MemOK
<1>7. BootInv' /\ FreshInv'
  BY <1>1, <1>2, <1>5, FreshKept DEF BootInv, At, RowStep
<1>8. HandledInv' /\ OnceInv'
  BY <1>1, <1>2, <1>4 DEF IInv, MemInv, HandledInv, OnceInv
<1>9. LockInv'
  <2>1. \A w \in Worker : w # "canc" /\ w # Nobody
    BY NameAssumption
  <2> QED
    BY <1>1, <1>4, <2>1 DEF IInv, MemInv, LockInv
<1>10. SeenInv'
  BY <1>1, <1>4 DEF IInv, MemInv, SeenInv, s, t
<1>11. RowInv'
  BY <1>1, <1>4 DEF IInv, MemInv, RowInv, KeepDb, dbVars, Full, Stored, t
<1>12. LateInv'
  BY <1>1 DEF IInv, MemInv, LateInv
<1> QED
  BY <1>5, <1>6, <1>7, <1>8, <1>9, <1>10, <1>11, <1>12 DEF IInv, MemInv, RowStep

LEMMA CancelWriteKeeps == ASSUME IInv, CancelWrite PROVE IInv'
<1> DEFINE t == canc.task
<1>1. /\ UNCHANGED <<nextId, loaded, creating, queue, stopping, wk, late, tasks>> /\ KeepMig
      /\ canc.pc = "write" /\ canc' = Resting /\ lock' = Nobody /\ UpdateRow(t, canc.seen)
  BY DEF CancelWrite, KeepCanc
<1>2. t \in TaskId /\ tasks[t] # NoRow /\ loaded /\ At("done") /\ canc.seen \in Status
  BY <1>1, CancFacts
<1>3. /\ canc'.pc = "idle" /\ canc'.task = Nobody
      /\ canc' \in [pc : {"idle", "flag", "save", "write"}, task : TaskId \cup {Nobody}, seen : Status]
  BY <1>1 DEF Resting, Status
<1>4. /\ RowStep(t)
      /\ Full /\ Stored(t) => view'.rows[t] = [tasks[t] EXCEPT !.status = canc.seen]
  BY <1>1, <1>2, UpdateRowFacts
<1>5. lock = "canc" /\ \A w \in Worker : wk[w].pc \notin Writing
  BY <1>1, NameAssumption DEF IInv, MemInv, LockInv
<1> HIDE DEF t
<1>6. MemOK'
  BY <1>1, <1>3 DEF IInv, MemOK
<1>7. BootInv' /\ FreshInv'
  BY <1>1, <1>2, <1>4, FreshKept DEF BootInv, At, RowStep
<1>8. HandledInv' /\ OnceInv'
  BY <1>1, <1>3 DEF IInv, MemInv, HandledInv, OnceInv
<1>9. LockInv' /\ SeenInv'
  <2>1. \A w \in Worker : w # Nobody
    BY NameAssumption
  <2> QED
    BY <1>1, <1>3, <1>5, <2>1, NameAssumption DEF LockInv, SeenInv
<1>10. RowInv'
  <2> SUFFICES ASSUME NEW u \in TaskId, (loaded /\ Full /\ tasks[u] # NoRow /\ Stored(u))',
                      \A w \in Worker : wk'[w].task # u
               PROVE  view'.rows[u] = tasks'[u]
    BY DEF RowInv
  <2>1. CASE u # t
    <3>1. view'.rows[u] = view.rows[u] /\ view'.obj = view.obj
      BY <1>4, <2>1 DEF RowStep
    <3> QED
      BY <1>1, <2>1, <3>1 DEF IInv, MemInv, RowInv, Full, Stored, t
  <2>2. CASE u = t
    <3>1. view'.rows[t] = [tasks[t] EXCEPT !.status = canc.seen]
      BY <1>4, <2>2 DEF RowStep, Full, Stored
    <3>2. canc.seen = tasks[t].status
      BY <1>1, <2>2 DEF IInv, MemInv, SeenInv, t
    <3>3. tasks[t] \in Task
      BY <1>2, TaskFacts DEF IInv
    <3>4. [tasks[t] EXCEPT !.status = canc.seen] = tasks[t]
      BY <3>2, <3>3 DEF Task
    <3> QED
      BY <1>1, <2>2, <3>1, <3>4
  <2> QED
    BY <2>1, <2>2
<1>11. LateInv'
  BY <1>1 DEF IInv, MemInv, LateInv
<1> QED
  BY <1>4, <1>6, <1>7, <1>8, <1>9, <1>10, <1>11 DEF IInv, MemInv, RowStep

-----------------------------------------------------------------------------
(***************************************************************************)
(* Creating tasks, and the start and the end of the process.               *)
(***************************************************************************)
LEMMA AddTaskKeeps == ASSUME IInv, add_task PROVE IInv'
<1> DEFINE t == nextId
<1>1. /\ UNCHANGED <<loaded, queue, stopping, lock, wk, canc, late>> /\ KeepMig
      /\ loaded /\ At("done") /\ creating = Nobody /\ t \in TaskId
      /\ tasks' = [tasks EXCEPT ![t] = NewTask] /\ creating' = t /\ nextId' = t + 1
  BY DEF add_task, Serving
<1>2. tasks \in Rows /\ t \in Nat \ {0} /\ TaskId \subseteq Nat \ {0} /\ Nobody \notin TaskId
  BY IdAssumption DEF IInv, MemOK
<1>3. NewTask \in Task /\ NewTask # NoRow /\ ~NewTask.cancel
  <2>1. NewTask \in Task /\ ~NewTask.cancel
    BY DEF NewTask, Task, Status
  <2> QED
    BY <2>1, NoRowAssumption
<1>4. tasks'[t] = NewTask /\ tasks' \in Rows /\ \A u \in TaskId : u # t => tasks'[u] = tasks[u]
  BY <1>1, <1>2, <1>3 DEF Rows
<1>5. tasks[t] = NoRow /\ (Full => ~Stored(t))
  BY <1>1, <1>2 DEF IInv, MemInv, FreshInv
<1>6. /\ DbOK' /\ MigInv' /\ mig' = mig /\ view'.obj = view.obj
      /\ \A u \in TaskId : u # t => view'.rows[u] = view.rows[u]
      /\ disk'.rows \in {disk.rows, view'.rows}
      /\ Full => view'.rows[t] = NewTask
  <2>1. CASE Full
    <3> DEFINE d == [view EXCEPT !.rows[t] = NewTask]
    <3>1. Write(d)
      BY <1>5, <2>1 DEF add_task
    <3>2. d = [view EXCEPT !.rows = [view.rows EXCEPT ![t] = NewTask]]
      OBVIOUS
    <3> HIDE DEF d, t
    <3>3. /\ DbOK' /\ MigInv' /\ mig' = mig /\ view'.obj = view.obj
          /\ view'.rows = [view.rows EXCEPT ![t] = NewTask]
          /\ disk'.rows \in {disk.rows, view'.rows}
      BY <1>1, <1>3, <3>1, <3>2, WriteRow DEF IInv
    <3>4. view.rows \in Rows
      BY DEF IInv, DbOK, Db
    <3> QED
      BY <1>1, <3>3, <3>4 DEF Rows
  <2>2. CASE ~Full
    <3>1. KeepDb
      BY <1>1, <2>2 DEF add_task, KeepDb, KeepMig, dbVars
    <3>2. RowStep(t) /\ view' = view
      BY <3>1, KeepDbRow DEF IInv, KeepDb, dbVars
    <3> QED
      BY <2>2, <3>2 DEF RowStep
  <2> QED
    BY <2>1, <2>2
<1>7. Full' <=> Full
  BY <1>6 DEF Full
<1> HIDE DEF t
<1>8. MemOK'
  <2>1. nextId' \in Nat \ {0}
    BY <1>1, <1>2
  <2> QED
    BY <1>1, <1>4, <2>1 DEF IInv, MemOK
<1>9. BootInv'
  BY <1>1, <1>6 DEF BootInv, At
<1>10. FreshInv'
  <2>1. \A u \in TaskId : u < t => u < t + 1
    BY <1>2
  <2>2. t < t + 1
    BY <1>2
  <2>3. \A u \in TaskId : tasks'[u] # NoRow => u < nextId'
    BY <1>1, <1>4, <2>1, <2>2 DEF IInv, MemInv, FreshInv, t
  <2>4. (loaded /\ Full => \A u \in TaskId : Stored(u) => u < nextId)'
    BY <1>1, <1>6, <1>7, <2>1, <2>2 DEF IInv, MemInv, FreshInv, Stored, t
  <2>5. (\E n \in Nat : \A u \in TaskId : (view.rows[u] # NoRow \/ disk.rows[u] # NoRow) => u <= n)'
    <3>1. PICK n \in Nat : \A u \in TaskId : (view.rows[u] # NoRow \/ disk.rows[u] # NoRow) => u <= n
      BY DEF IInv, MemInv, FreshInv
    <3>2. n + t \in Nat /\ t <= n + t /\ \A u \in TaskId : u <= n => u <= n + t
      BY <1>2
    <3>3. \A u \in TaskId : (view'.rows[u] # NoRow \/ disk'.rows[u] # NoRow) => u <= n + t
      BY <1>6, <3>1, <3>2
    <3> QED
      BY <3>2, <3>3
  <2> QED
    BY <2>3, <2>4, <2>5 DEF FreshInv
<1>11. HandledInv'
  <2>1. \A u \in TaskId : tasks[u] # NoRow => tasks'[u] # NoRow
    BY <1>3, <1>4
  <2>2. \A i \in DOMAIN queue : queue[i] \in TaskId
    BY DEF IInv, MemOK
  <2> QED
    BY <1>1, <1>3, <1>4, <2>1, <2>2 DEF IInv, MemInv, HandledInv
<1>12. OnceInv'
  <2>1. \A i \in DOMAIN queue : queue[i] # t
    BY <1>5 DEF IInv, MemInv, HandledInv
  <2>2. \A w \in Worker : wk[w].task # t
    BY <1>1, <1>2, <1>5 DEF IInv, MemInv, HandledInv
  <2> QED
    BY <1>1, <2>1, <2>2 DEF IInv, MemInv, OnceInv
<1>13. LockInv'
  BY <1>1 DEF IInv, MemInv, LockInv
<1>14. SeenInv'
  <2>1. \A w \in Worker : wk[w].pc \in Writing => wk[w].task \in TaskId /\ wk[w].task # t
    BY <1>5 DEF IInv, MemInv, HandledInv, Writing
  <2>2. canc.pc = "write" => canc.task \in TaskId /\ canc.task # t
    BY <1>5 DEF IInv, MemInv, HandledInv
  <2> QED
    BY <1>1, <1>4, <2>1, <2>2 DEF IInv, MemInv, SeenInv
<1>15. RowInv'
  <2> SUFFICES ASSUME NEW u \in TaskId, (loaded /\ Full /\ tasks[u] # NoRow /\ Stored(u) /\ canc.task # u)',
                      \A w \in Worker : wk'[w].task # u
               PROVE  view'.rows[u] = tasks'[u]
    BY DEF RowInv
  <2>1. CASE u = t
    BY <1>4, <1>6, <1>7, <2>1
  <2>2. CASE u # t
    <3>1. view'.rows[u] = view.rows[u] /\ tasks'[u] = tasks[u]
      BY <1>4, <1>6, <2>2
    <3> QED
      BY <1>1, <1>7, <3>1 DEF IInv, MemInv, RowInv, Stored
  <2> QED
    BY <2>1, <2>2
<1>16. LateInv'
  <2>1. \A u \in TaskId : late[u] # 0 => u # t
    BY <1>5 DEF IInv, MemInv, LateInv
  <2> QED
    BY <1>1, <1>4, <2>1 DEF IInv, MemInv, LateInv
<1> QED
  BY <1>6, <1>8, <1>9, <1>10, <1>11, <1>12, <1>13, <1>14, <1>15, <1>16 DEF IInv, MemInv

LEMMA SubmitKeeps == ASSUME IInv, submit PROVE IInv'
<1>1. /\ UNCHANGED <<nextId, tasks, loaded, stopping, lock, wk, canc, late>> /\ KeepDb
      /\ creating # Nobody /\ creating' = Nobody
      /\ queue' = queue \/ queue' = Append(queue, creating)
  BY DEF submit, push
<1>2. creating \in TaskId /\ queue \in Seq(TaskId) /\ Nobody \notin TaskId
  BY <1>1, IdAssumption DEF IInv, MemOK
<1>3. /\ queue' \in Seq(TaskId)
      /\ \A i \in DOMAIN queue' : \/ i \in DOMAIN queue /\ queue'[i] = queue[i]
                                  \/ i = Len(queue) + 1 /\ queue'[i] = creating
  BY <1>1, <1>2
<1>4. RowStep(creating)
  BY <1>1, KeepDbRow DEF IInv
<1>5. loaded /\ At("done")
  <2>1. loaded
    BY <1>1 DEF IInv, MemInv, BootInv, MemOK
  <2> QED
    BY <2>1 DEF IInv, MemInv, BootInv
<1>6. MemOK'
  BY <1>1, <1>3 DEF IInv, MemOK
<1>7. BootInv' /\ FreshInv'
  BY <1>1, <1>2, <1>4, <1>5, FreshKept DEF BootInv, At, RowStep
<1>8. HandledInv'
  BY <1>1, <1>3 DEF IInv, MemInv, HandledInv
<1>9. OnceInv'
  <2>1. \A i, j \in DOMAIN queue' : queue'[i] = queue'[j] => i = j
    BY <1>3 DEF IInv, MemInv, OnceInv
  <2>2. \A i \in DOMAIN queue' : \A w \in Worker : wk'[w].task # queue'[i]
    BY <1>1, <1>3 DEF IInv, MemInv, OnceInv
  <2>3. \A i \in DOMAIN queue' : queue'[i] # Nobody
    BY <1>2, <1>3
  <2> QED
    BY <1>1, <2>1, <2>2, <2>3 DEF IInv, MemInv, OnceInv
<1>10. LockInv' /\ SeenInv'
  BY <1>1 DEF IInv, MemInv, LockInv, SeenInv
<1>11. RowInv'
  BY <1>1 DEF IInv, MemInv, RowInv, KeepDb, dbVars, Full, Stored
<1>12. LateInv'
  BY <1>1 DEF IInv, MemInv, LateInv
<1> QED
  BY <1>4, <1>6, <1>7, <1>8, <1>9, <1>10, <1>11, <1>12 DEF IInv, MemInv, RowStep

LEMMA LoadKeeps == ASSUME IInv, load_from_db PROVE IInv'
<1>1. /\ UNCHANGED <<creating, queue, stopping, lock, wk, canc, late>> /\ KeepDb /\ ~loaded /\ loaded' = TRUE
      /\ At("done")
      /\ Full => tasks' = view.rows /\ nextId' = NextId
      /\ ~Full => tasks' = tasks /\ nextId' = nextId
  BY DEF load_from_db
<1>2. /\ tasks = [t \in TaskId |-> NoRow] /\ creating = Nobody /\ queue = <<>>
      /\ lock = Nobody /\ wk = [w \in Worker |-> Idle] /\ canc = Resting
      /\ late = [t \in TaskId |-> 0]
  BY <1>1 DEF IInv, MemInv, BootInv
<1>3. NextId \in Nat \ {0} /\ \A t \in TaskId : Stored(t) => t < NextId
  BY NextIdFacts DEF IInv, MemInv
<1>4. DbOK' /\ MigInv' /\ view' = view /\ disk' = disk /\ mig' = mig
  BY <1>1, KeepDbRow DEF IInv, RowStep, KeepDb, dbVars
<1>5. /\ \A w \in Worker : wk'[w].pc = "idle" /\ wk'[w].task = Nobody
      /\ canc' = Resting /\ canc'.pc = "idle" /\ canc'.task = Nobody /\ queue' = <<>> /\ DOMAIN queue' = {}
      /\ lock' = Nobody /\ creating' = Nobody
      /\ \A t \in TaskId : late'[t] = 0
  BY <1>1, <1>2 DEF Idle, Resting
<1>6. view.rows \in Rows
  BY DEF IInv, DbOK, Db
<1>7. MemOK'
  <2>1. tasks' \in Rows /\ nextId' \in Nat \ {0} /\ loaded' \in BOOLEAN
    BY <1>1, <1>3, <1>6 DEF IInv, MemOK
  <2> QED
    BY <1>1, <2>1 DEF IInv, MemOK
<1>8. BootInv'
  BY <1>1, <1>4 DEF BootInv, At
<1>9. FreshInv'
  BY <1>1, <1>2, <1>3, <1>4 DEF IInv, MemInv, FreshInv, Full, Stored
<1>10. HandledInv' /\ OnceInv'
  BY <1>5 DEF HandledInv, OnceInv
<1>11. LockInv' /\ SeenInv'
  BY <1>5, NameAssumption DEF LockInv, SeenInv, Writing
<1>12. RowInv'
  <2>1. CASE Full
    BY <1>1, <1>4, <2>1 DEF RowInv
  <2>2. CASE ~Full
    BY <1>1, <1>4, <2>2 DEF RowInv, Full
  <2> QED
    BY <2>1, <2>2
<1>13. LateInv'
  BY <1>5 DEF LateInv
<1> QED
  BY <1>4, <1>7, <1>8, <1>9, <1>10, <1>11, <1>12, <1>13 DEF IInv, MemInv

(* A memory without tasks keeps the invariant with any database. *)
LEMMA FreshMemory ==
    ASSUME tasks' = [t \in TaskId |-> NoRow], nextId' = 1, loaded' = FALSE, stopping' = FALSE,
           creating' = Nobody, queue' = <<>>, lock' = Nobody, wk' = [w \in Worker |-> Idle], canc' = Resting,
           late' = [t \in TaskId |-> 0],
           (\E n \in Nat : \A t \in TaskId : (view.rows[t] # NoRow \/ disk.rows[t] # NoRow) => t <= n)'
    PROVE  MemOK' /\ MemInv'
<1>1. Idle \in WorkerState /\ Idle.pc = "idle" /\ Idle.task = Nobody
  BY DEF Idle, WorkerState, WorkerPc, Status
<1>2. Resting \in [pc : {"idle", "flag", "save", "write"}, task : TaskId \cup {Nobody}, seen : Status]
      /\ Resting.pc = "idle" /\ Resting.task = Nobody
  BY DEF Resting, Status
<1>3. /\ \A w \in Worker : wk'[w].pc = "idle" /\ wk'[w].task = Nobody
      /\ \A t \in TaskId : tasks'[t] = NoRow /\ late'[t] = 0
      /\ DOMAIN queue' = {} /\ canc'.pc = "idle" /\ canc'.task = Nobody
  BY <1>1, <1>2
<1>4. MemOK'
  <2>1. tasks' \in Rows /\ late' \in [TaskId -> Nat]
    BY <1>1 DEF Rows
  <2>2. wk' \in [Worker -> WorkerState]
    BY <1>1, <1>2
  <2>3. queue' \in Seq(TaskId) /\ nextId' \in Nat \ {0}
    BY <1>1
  <2>4. loaded' \in BOOLEAN /\ stopping' \in BOOLEAN
    BY <1>1
  <2> QED
    BY <1>1, <1>2, <2>1, <2>2, <2>3, <2>4 DEF MemOK
<1>5. BootInv'
  BY DEF BootInv
<1>6. FreshInv'
  BY <1>3 DEF FreshInv
<1>7. HandledInv' /\ OnceInv'
  BY <1>3 DEF HandledInv, OnceInv
<1>8. LockInv' /\ SeenInv'
  BY <1>3, NameAssumption DEF LockInv, SeenInv, Writing
<1>9. RowInv' /\ LateInv'
  BY <1>3 DEF RowInv, LateInv
<1> QED
  BY <1>4, <1>5, <1>6, <1>7, <1>8, <1>9 DEF MemInv

LEMMA RestartKeeps == ASSUME IInv, Restart PROVE IInv'
<1>1. DbOK' /\ MigInv'
  BY openKeeps DEF IInv, Restart
<1>2. (\E n \in Nat : \A t \in TaskId : (view.rows[t] # NoRow \/ disk.rows[t] # NoRow) => t <= n)'
  BY DEF IInv, MemInv, FreshInv, Restart, open
<1>3. MemOK' /\ MemInv'
  BY <1>2, FreshMemory DEF Restart
<1> QED
  BY <1>1, <1>3 DEF IInv

LEMMA StopKeeps == ASSUME IInv, stop PROVE IInv'
<1>1. /\ UNCHANGED <<tasks, nextId, loaded, creating, queue, lock, wk, canc, late>> /\ KeepDb /\ stopping' = TRUE
  BY DEF stop
<1>2. DbOK' /\ MigInv'
  BY <1>1, KeepDbRow DEF IInv, RowStep
<1>3. MemOK'
  BY <1>1 DEF IInv, MemOK
<1> USE <1>1 DEF IInv, MemInv, KeepDb, dbVars
<1>4. BootInv' /\ FreshInv'
  BY DEF BootInv, FreshInv, At, Full, Stored
<1>5. HandledInv' /\ OnceInv'
  BY DEF HandledInv, OnceInv
<1>6. LockInv' /\ SeenInv'
  BY DEF LockInv, SeenInv
<1>7. RowInv' /\ LateInv'
  BY DEF RowInv, LateInv, Full, Stored
<1> QED
  BY <1>2, <1>3, <1>4, <1>5, <1>6, <1>7

LEMMA BootKeeps == ASSUME IInv, MigrateStep, UNCHANGED memVars PROVE IInv'
<1>1. DbOK' /\ MigInv'
  BY MigrateKeeps DEF IInv
<1>2. ~loaded
  BY DEF IInv, MemInv, BootInv, MigrateStep, migrate, Infer, CreateMeta, InsertMeta, Begin, Exec, Commit,
         CheckVersion, At
<1>3. UNCHANGED <<tasks, nextId, loaded, creating, queue, stopping, lock, wk, canc, late>>
  BY DEF memVars
<1>4. (\E n \in Nat : \A t \in TaskId : (view.rows[t] # NoRow \/ disk.rows[t] # NoRow) => t <= n)'
  BY RowsKept DEF IInv, MemInv, FreshInv
<1>5. MemOK'
  BY <1>3 DEF IInv, MemOK
<1>6. BootInv' /\ FreshInv'
  BY <1>2, <1>3, <1>4 DEF IInv, MemInv, BootInv, FreshInv
<1>7. HandledInv' /\ OnceInv'
  BY <1>3 DEF IInv, MemInv, HandledInv, OnceInv
<1>8. LockInv' /\ SeenInv'
  BY <1>3 DEF IInv, MemInv, LockInv, SeenInv
<1>9. RowInv' /\ LateInv'
  BY <1>2, <1>3 DEF IInv, MemInv, RowInv, LateInv
<1> QED
  BY <1>1, <1>5, <1>6, <1>7, <1>8, <1>9 DEF IInv, MemInv

-----------------------------------------------------------------------------
LEMMA InitHolds == Init => IInv
<1> SUFFICES ASSUME Init PROVE IInv
  OBVIOUS
<1> DEFINE rows == [t \in TaskId |-> IF t = 1 THEN NewTask ELSE NoRow]
           none == [t \in TaskId |-> NoRow]
<1>1. NewTask \in Task
  BY DEF NewTask, Task, Status
<1>2. rows \in Rows /\ none \in Rows
  BY <1>1 DEF Rows
<1>3. /\ disk.obj \in {{}, {"tasks"}, {"tasks"} \cup V101Columns} /\ disk.ver = 0 /\ disk.rows \in {rows, none}
      /\ disk = [obj |-> disk.obj, ver |-> disk.ver, rows |-> disk.rows]
  BY DEF Init, DbInit, Found, Empty
<1>4. /\ view = disk /\ inTx = FALSE /\ fault = FALSE /\ failures = 0 /\ mig = [pc |-> "version", v |-> 0, k |-> 0]
  BY DEF Init, DbInit
<1>5. \A t \in TaskId : disk.rows[t] # NoRow => t <= 1
  BY <1>3
<1> HIDE DEF rows, none
<1>6. disk.obj \in {{}} \cup Unnamed /\ disk.obj \subseteq Object
  BY <1>3 DEF Unnamed, V101Columns, Object
<1>7. DbOK
  <2>1. disk.rows \in Rows /\ disk.ver \in 0..Program /\ disk.obj \in SUBSET Object
    BY <1>2, <1>3, <1>6 DEF Program
  <2>2. [obj |-> disk.obj, ver |-> disk.ver, rows |-> disk.rows] \in Db
    BY <2>1 DEF Db
  <2>3. disk \in Db
    BY <1>3, <2>2
  <2>4. mig \in [pc : MigPc, v : 0..Program, k : 0..4]
    BY <1>4 DEF MigPc, Program
  <2> QED
    BY <1>4, <2>3, <2>4 DEF DbOK
<1>8. MigInv
  BY <1>3, <1>4, <1>6 DEF MigInv, Shape, At
<1>9. /\ tasks = [t \in TaskId |-> NoRow] /\ nextId = 1 /\ loaded = FALSE
      /\ creating = Nobody /\ queue = <<>> /\ stopping = FALSE /\ lock = Nobody
      /\ wk = [w \in Worker |-> Idle] /\ canc = Resting /\ late = [t \in TaskId |-> 0]
  BY DEF Init, MemInit
<1>10. Idle \in WorkerState /\ Idle.pc = "idle" /\ Idle.task = Nobody
  BY DEF Idle, WorkerState, WorkerPc, Status
<1>11. Resting \in [pc : {"idle", "flag", "save", "write"}, task : TaskId \cup {Nobody}, seen : Status]
       /\ Resting.pc = "idle" /\ Resting.task = Nobody
  BY DEF Resting, Status
<1>12. /\ \A w \in Worker : wk[w].pc = "idle" /\ wk[w].task = Nobody
       /\ \A t \in TaskId : tasks[t] = NoRow /\ late[t] = 0
       /\ DOMAIN queue = {} /\ canc.pc = "idle" /\ canc.task = Nobody
  BY <1>9, <1>10, <1>11
<1>13. MemOK
  <2>1. tasks \in Rows /\ late \in [TaskId -> Nat]
    BY <1>9 DEF Rows
  <2>2. wk \in [Worker -> WorkerState]
    BY <1>9, <1>10, <1>11
  <2>3. queue \in Seq(TaskId) /\ nextId \in Nat \ {0}
    BY <1>9
  <2>4. loaded \in BOOLEAN /\ stopping \in BOOLEAN
    BY <1>9
  <2> QED
    BY <1>9, <1>10, <1>11, <2>1, <2>2, <2>3, <2>4 DEF MemOK
<1>14. BootInv
  BY <1>9 DEF BootInv
<1>15. FreshInv
  BY <1>4, <1>5, <1>9, <1>12 DEF FreshInv
<1>16. HandledInv /\ OnceInv
  BY <1>9, <1>12 DEF HandledInv, OnceInv
<1>17. LockInv /\ SeenInv
  BY <1>9, <1>12, NameAssumption DEF LockInv, SeenInv, Writing
<1>18. RowInv /\ LateInv
  BY <1>12 DEF RowInv, LateInv
<1> QED
  BY <1>7, <1>8, <1>13, <1>14, <1>15, <1>16, <1>17, <1>18 DEF IInv, MemInv

LEMMA NextKeeps == IInv /\ [Next]_vars => IInv'
<1> SUFFICES ASSUME IInv, [Next]_vars PROVE IInv'
  OBVIOUS
<1>1. CASE UNCHANGED vars
  <2>1. KeepDb /\ UNCHANGED <<tasks, nextId, loaded, creating, queue, stopping, lock, wk, canc, late>>
    BY <1>1 DEF vars, memVars, KeepDb, dbVars
  <2>2. DbOK' /\ MigInv'
    BY <2>1, KeepDbRow DEF IInv, RowStep
  <2>3. MemOK'
    BY <2>1 DEF IInv, MemOK
  <2> USE <2>1 DEF IInv, MemInv, KeepDb, dbVars
  <2>4. BootInv' /\ FreshInv'
    BY DEF BootInv, FreshInv, At, Full, Stored
  <2>5. HandledInv' /\ OnceInv'
    BY DEF HandledInv, OnceInv
  <2>6. LockInv' /\ SeenInv'
    BY DEF LockInv, SeenInv
  <2>7. RowInv' /\ LateInv'
    BY DEF RowInv, LateInv, Full, Stored
  <2> QED
    BY <2>2, <2>3, <2>4, <2>5, <2>6, <2>7
<1>2. CASE Boot
  <2>1. (MigrateStep /\ UNCHANGED memVars) \/ load_from_db
    BY <1>2 DEF Boot
  <2> QED
    BY <2>1, BootKeeps, LoadKeeps
<1>3. CASE create
  BY <1>3, AddTaskKeeps, SubmitKeeps DEF create
<1>4. CASE stop \/ Restart
  BY <1>4, StopKeeps, RestartKeeps
<1>5. CASE \E w \in Worker : WorkerStep(w)
  BY <1>5, WorkerKeeps
<1>6. CASE (\E t \in TaskId : CancelCheck(t)) \/ cancel_task
  BY <1>6, CancelCheckKeeps, CancelFlagKeeps, CancelSnapKeeps, CancelWriteKeeps DEF cancel_task
<1> QED
  BY <1>1, <1>2, <1>3, <1>4, <1>5, <1>6 DEF Next

(* The invariant says what the runs check. *)
LEMMA InvFaithful == IInv => RowsFaithful
<1> SUFFICES ASSUME IInv PROVE RowsFaithful
  OBVIOUS
<1>1. RowIsTask
  <2> SUFFICES ASSUME NEW t \in TaskId, tasks[t] # NoRow, Serving, Stored(t), Full, ~InUse(t)
               PROVE  view.rows[t] = tasks[t]
    BY DEF RowIsTask, list, detail
  <2>1. canc.task # t /\ (\A w \in Worker : wk[w].task # t) /\ loaded
    BY DEF InUse, Job, Serving
  <2> QED
    BY <2>1 DEF IInv, MemInv, RowInv
<1>2. IdsFresh
  BY DEF IdsFresh, Serving, IInv, MemInv, FreshInv
<1> QED
  BY <1>1, <1>2 DEF RowsFaithful

LEMMA InvHolds == Spec => []IInv
  BY InitHolds, NextKeeps, PTL DEF Spec

(* DbMigrator (db/migrator.cpp) with statements that fail and crashes at   *)
(* any point: the version on disk never says more than its tables, and a   *)
(* start without a fault completes both or meets the orphaned meta table.  *)
THEOREM MigrationIsSafe == Spec => []MigrationSafe
<1>1. IInv => MigrationSafe
  BY ShapeHonest DEF IInv
<1> QED
  BY <1>1, InvHolds, PTL

(* TaskManager (core/task_manager.cpp) against the workers and the handler *)
(* of a cancellation, which share a Task without a lock: the row of a task *)
(* that nobody works on says what its object says, and ids are fresh.      *)
THEOREM RowsAreFaithful == Spec => []RowsFaithful
  BY InvFaithful, InvHolds, PTL

(* WorkerPool::execute_one_task (core/worker_pool.cpp) starts at most one  *)
(* attempt after the cancellation of its task.                             *)
THEOREM OneLateAttempt == Spec => []AtMostOneLateAttempt
<1>1. IInv => AtMostOneLateAttempt
  BY DEF IInv, MemInv, LateInv, AtMostOneLateAttempt
<1> QED
  BY <1>1, InvHolds, PTL
=============================================================================

-------------------------- MODULE DagServiceProofs --------------------------
(***************************************************************************)
(* Proofs about DagService, for every set of servers, bodies and ids and   *)
(* any number of requests, repeated dispatches and restarts: nesting is    *)
(* bounded, the rows of a run whose id is its own say what happened in it, *)
(* and the proxy finds the run behind a node and no other.                 *)
(***************************************************************************)
EXTENDS DagService, TLAPS

Unstarted  == {"insert", "upsert", "check", "parse", "validate", "thrown", "refused"}
Pc         == Unstarted \cup {"run", "waiting", "done", "lost"}
NodeStatus == {"Pending", "Running", "Success", "Failed", "Skipped"}

Exec == [at : Server, rid : RunId, body : Body, src : Source, depth : Int, entry : Int,
         level : Nat, thread : Thread, cron : BOOLEAN, pc : Pc, k : Nat \ {0}, ok : BOOLEAN, st : [TaskId -> NodeStatus],
         child : [TaskId -> Nat], tries : [TaskId -> Nat]]

TypeOK == StoreTypeOK /\ ex \in Seq(Exec)

(* What an execution knows of itself. *)
LocalInv(x) ==
    /\ x.depth = x.entry + x.level /\ (x.level > 0 => x.depth < MaxDepth)
    /\ x.pc \in Unstarted => \A t \in TaskId : x.st[t] = "Pending" /\ x.child[t] = 0
    /\ x.pc \notin {"insert", "upsert", "lost"} => ~x.cron
    /\ x.pc = "done" => \A t \in Named(x.body) : x.st[t] # "Running"

(* The rows d and r[t] of an execution x that shares its id with nobody. *)
Written(x, d, r) ==
    /\ \A t \in TaskId : r[t] # NoRow => t \in Named(x.body) /\ r[t].status = x.st[t]
    /\ x.pc = "upsert" => \A i \in DOMAIN Content[x.body].tasks :
          (i < x.k /\ Content[x.body].tasks[i].id # NoId) => r[Content[x.body].tasks[i].id] # NoRow
    /\ x.pc \notin {"insert", "upsert", "refused", "lost"} => \A t \in Named(x.body) : r[t] # NoRow
    /\ x.pc \notin {"insert", "refused", "lost"} =>
          d # NoRow /\ d.source = IF x.cron THEN "cron" ELSE x.src
    /\ (d # NoRow /\ d.status = "Failed") => x.pc = "done" /\ \A t \in TaskId : x.st[t] = "Pending"

DagRow(x)  == dagRun[x.at][x.rid]
TaskRow(x) == taskRun[x.at][x.rid]

(* A row written at server s for a node whose nested run is c leads to c,  *)
(* or nowhere if c threw.                                                  *)
LeadsTo(row, s, c) == row # NoRow =>
    \/ row.next = NoId /\ ex[c].pc = "thrown"
    \/ /\ row.next = ex[c].rid
       /\ IF row.worker = NoId THEN ex[c].at = s ELSE row.worker = ex[c].at

ChildOf(e, t) == LET c == ex[e].child[t] IN c # 0 =>
    /\ c \in DOMAIN ex
    /\ ex[e].st[t] \notin {"Pending", "Skipped"}
    /\ ex[e].st[t] = "Running" =>
          Task(e, t).kind \in {"dag", "template"} /\ ex[c].at = ex[e].at
    /\ (ex[e].st[t] # "Running" /\ ~Shared(e)) => LeadsTo(TaskRow(ex[e])[t], ex[e].at, c)

ChildInv(e) == \A t \in TaskId : ChildOf(e, t)
RowsInv(e)  == ~Shared(e) => Written(ex[e], DagRow(ex[e]), TaskRow(ex[e]))

(* A row was written by an execution with its id. *)
OwnRows == \A s \in Server, r \in RunId :
    (dagRun[s][r] # NoRow \/ \E t \in TaskId : taskRun[s][r][t] # NoRow) =>
        \E e \in DOMAIN ex : ex[e].at = s /\ ex[e].rid = r

IInv == /\ TypeOK /\ OwnRows
        /\ \A e \in DOMAIN ex : LocalInv(ex[e])
        /\ \A e \in DOMAIN ex : RowsInv(e)
        /\ \A e \in DOMAIN ex : ChildInv(e)
-----------------------------------------------------------------------------
(***************************************************************************)
(* Steps.  Every step changes at most one execution e, in what is not its  *)
(* identity, and only the rows with its id, and adds at most one fresh     *)
(* execution (e is 0 when it changes none).                                *)
(***************************************************************************)
Fresh(x) == /\ x.depth = x.entry + x.level /\ (x.level > 0 => x.depth < MaxDepth)
            /\ x.pc \in {"insert", "refused"}
            /\ x.pc = "refused" => ~x.cron
            /\ \A t \in TaskId : x.st[t] = "Pending" /\ x.child[t] = 0

Same(x, y) == /\ y.at = x.at /\ y.rid = x.rid /\ y.body = x.body /\ y.src = x.src
              /\ x.pc = "thrown" => y.pc = "thrown"

Grows(e) ==
    /\ DOMAIN ex \subseteq DOMAIN ex'
    /\ \A f \in DOMAIN ex : f # e => ex'[f] = ex[f]
    /\ e \in DOMAIN ex => Same(ex[e], ex'[e])
    /\ \A f \in DOMAIN ex' : f \notin DOMAIN ex => Fresh(ex'[f])

OnlyRowsOf(e) == \A s \in Server, r \in RunId :
    \/ dagRun'[s][r] = dagRun[s][r] /\ taskRun'[s][r] = taskRun[s][r]
    \/ e \in DOMAIN ex /\ ex[e].at = s /\ ex[e].rid = r

StepOf(e) == TypeOK' /\ Grows(e) /\ OnlyRowsOf(e)

LEMMA ExecFacts ==
    ASSUME TypeOK, NEW e \in DOMAIN ex
    PROVE  /\ ex[e] \in Exec
           /\ ex[e].at \in Server /\ ex[e].rid \in RunId /\ ex[e].body \in Body /\ ex[e].src \in Source
           /\ ex[e].depth \in Int /\ ex[e].entry \in Int /\ ex[e].level \in Nat
           /\ ex[e].cron \in BOOLEAN /\ ex[e].pc \in Pc
           /\ ex[e].k \in Nat \ {0} /\ ex[e].ok \in BOOLEAN /\ ex[e].st \in [TaskId -> NodeStatus]
           /\ ex[e].child \in [TaskId -> Nat] /\ ex[e].tries \in [TaskId -> Nat]
<1>1. ex[e] \in Exec
  BY DEF TypeOK
<1> QED
  BY <1>1 DEF Exec

(* Executions keep their identity, so ids that are shared stay shared. *)
LEMMA SharedGrows ==
    ASSUME NEW e, NEW f \in DOMAIN ex, Grows(e), Shared(f)
    PROVE  Shared(f)'
<1>1. \A g \in DOMAIN ex : g \in DOMAIN ex' /\ ex'[g].at = ex[g].at /\ ex'[g].rid = ex[g].rid
  BY DEF Grows, Same
<1> QED
  BY <1>1 DEF Shared

LEMMA OwnRowsKept ==
    ASSUME NEW e, OwnRows, Grows(e), OnlyRowsOf(e)
    PROVE  OwnRows'
<1>1. \A g \in DOMAIN ex : g \in DOMAIN ex' /\ ex'[g].at = ex[g].at /\ ex'[g].rid = ex[g].rid
  BY DEF Grows, Same
<1>2. SUFFICES ASSUME NEW s \in Server, NEW r \in RunId,
                      dagRun'[s][r] # NoRow \/ \E t \in TaskId : taskRun'[s][r][t] # NoRow
               PROVE  \E g \in DOMAIN ex' : ex'[g].at = s /\ ex'[g].rid = r
  BY DEF OwnRows
<1>3. \E g \in DOMAIN ex : ex[g].at = s /\ ex[g].rid = r
  BY <1>2 DEF OwnRows, OnlyRowsOf
<1> QED
  BY <1>1, <1>3

(* The rows of another execution that shares its id with nobody. *)
LEMMA RowsKept ==
    ASSUME NEW e, NEW f \in DOMAIN ex, f # e, TypeOK, Grows(e), OnlyRowsOf(e), ~Shared(f)'
    PROVE  /\ DagRow(ex[f])' = DagRow(ex[f]) /\ TaskRow(ex[f])' = TaskRow(ex[f])
           /\ ex'[f] = ex[f]
<1>1. ex'[f] = ex[f] /\ f \in DOMAIN ex'
  BY DEF Grows
<1>2. e \in DOMAIN ex => ~(ex[e].at = ex[f].at /\ ex[e].rid = ex[f].rid)
  BY <1>1 DEF Grows, Same, Shared
<1>3. dagRun'[ex[f].at][ex[f].rid] = dagRun[ex[f].at][ex[f].rid]
      /\ taskRun'[ex[f].at][ex[f].rid] = taskRun[ex[f].at][ex[f].rid]
  BY <1>2, ExecFacts DEF OnlyRowsOf
<1> QED
  BY <1>1, <1>3 DEF DagRow, TaskRow

(* A fresh execution with an id of its own finds no rows. *)
LEMMA NoRowsBefore ==
    ASSUME NEW e, NEW f \in DOMAIN ex', f \notin DOMAIN ex, TypeOK', OwnRows, Grows(e), OnlyRowsOf(e),
           ~Shared(f)'
    PROVE  DagRow(ex[f])' = NoRow /\ \A t \in TaskId : TaskRow(ex[f])'[t] = NoRow
<1>0. ex'[f] \in Exec
  BY DEF TypeOK
<1>1. ex'[f].at \in Server /\ ex'[f].rid \in RunId
  BY <1>0 DEF Exec
<1>2. \A g \in DOMAIN ex : ~(ex[g].at = ex'[f].at /\ ex[g].rid = ex'[f].rid)
  BY DEF Grows, Same, Shared
<1>3. ~(e \in DOMAIN ex /\ ex[e].at = ex'[f].at /\ ex[e].rid = ex'[f].rid)
  BY <1>2
<1>4. dagRun'[ex'[f].at][ex'[f].rid] = NoRow /\ \A t \in TaskId : taskRun'[ex'[f].at][ex'[f].rid][t] = NoRow
  BY <1>1, <1>2, <1>3 DEF OwnRows, OnlyRowsOf
<1> QED
  BY <1>4 DEF DagRow, TaskRow

(* Task depends on the body of an execution alone. *)
LEMMA TaskKept ==
    ASSUME NEW e, NEW f \in DOMAIN ex, Grows(e), NEW t
    PROVE  Task(f, t)' = Task(f, t) /\ TasksOf(f)' = TasksOf(f)
<1>1. ex'[f].body = ex[f].body
  BY DEF Grows, Same
<1> QED
  BY <1>1 DEF Task, Tasks, TasksOf

(* What leads to a nested run goes on leading to it. *)
LEMMA LeadsKept ==
    ASSUME NEW e, NEW c \in DOMAIN ex, NEW row, NEW s, Grows(e), LeadsTo(row, s, c)
    PROVE  LeadsTo(row, s, c)'
<1>1. ex'[c].at = ex[c].at /\ ex'[c].rid = ex[c].rid /\ (ex[c].pc = "thrown" => ex'[c].pc = "thrown")
  BY DEF Grows, Same
<1> QED
  BY <1>1 DEF LeadsTo

(* The nodes of e that a step leaves alone. *)
LEMMA NodeKept ==
    ASSUME NEW e, NEW f \in DOMAIN ex, NEW t \in TaskId, Grows(e), ChildOf(f, t),
           ex'[f].st[t] = ex[f].st[t], ex'[f].child[t] = ex[f].child[t],
           (~Shared(f)' /\ ex[f].child[t] # 0) => TaskRow(ex[f])'[t] = TaskRow(ex[f])[t]
    PROVE  ChildOf(f, t)'
<1> DEFINE c == ex[f].child[t]
<1>1. SUFFICES ASSUME c # 0 PROVE ChildOf(f, t)'
  BY DEF ChildOf
<1>2. c \in DOMAIN ex /\ c \in DOMAIN ex' /\ ex'[f].child[t] = c
  BY <1>1 DEF ChildOf, Grows
<1>3. /\ ex'[f].st[t] \notin {"Pending", "Skipped"}
      /\ ex'[f].at = ex[f].at /\ ex'[c].at = ex[c].at
  BY <1>1, <1>2 DEF ChildOf, Grows, Same
<1>4. ex'[f].st[t] = "Running" => Task(f, t)'.kind \in {"dag", "template"} /\ ex'[c].at = ex'[f].at
  BY <1>1, <1>3, TaskKept DEF ChildOf
<1>5. ASSUME ex'[f].st[t] # "Running", ~Shared(f)'
      PROVE  LeadsTo(TaskRow(ex[f])[t], ex[f].at, c)'
  <2>1. LeadsTo(TaskRow(ex[f])[t], ex[f].at, c)
    BY <1>1, <1>5, SharedGrows DEF ChildOf
  <2> DEFINE row == TaskRow(ex[f])[t]  s == ex[f].at
  <2>2. TaskRow(ex[f])'[t] = row /\ ex'[f].at = s
    BY <1>1, <1>3, <1>5
  <2>3. /\ ex'[c].rid = ex[c].rid /\ (ex[c].pc = "thrown" => ex'[c].pc = "thrown")
    BY <1>2 DEF Grows, Same
  <2> QED
    BY <1>3, <2>1, <2>2, <2>3 DEF LeadsTo
<1> QED
  BY <1>2, <1>3, <1>4, <1>5 DEF ChildOf

(* A step keeps the invariant if it keeps it for the execution it is of. *)
LEMMA FrameKeeps == \A e :
    (/\ IInv /\ StepOf(e)
     /\ e \in DOMAIN ex => LocalInv(ex'[e]) /\ RowsInv(e)' /\ ChildInv(e)') => IInv'
<1>1. SUFFICES ASSUME NEW e, IInv, StepOf(e),
                      e \in DOMAIN ex => LocalInv(ex'[e]) /\ RowsInv(e)' /\ ChildInv(e)'
               PROVE  IInv'
  OBVIOUS
<1>2. TypeOK' /\ OwnRows'
  BY <1>1, OwnRowsKept DEF IInv, StepOf
<1>3. ASSUME NEW f \in DOMAIN ex' PROVE LocalInv(ex'[f])
  <2>1. CASE f \notin DOMAIN ex
    BY <1>1, <1>3, <2>1 DEF StepOf, Grows, Fresh, LocalInv
  <2>2. CASE f \in DOMAIN ex /\ f # e
    BY <1>1, <2>2 DEF StepOf, Grows, IInv
  <2> QED
    BY <1>1, <2>1, <2>2
<1>4. ASSUME NEW f \in DOMAIN ex' PROVE RowsInv(f)'
  <2>1. CASE f \notin DOMAIN ex
    <3>1. Fresh(ex'[f])
      BY <1>1, <1>4, <2>1 DEF StepOf, Grows
    <3>2. ~Shared(f)' => DagRow(ex[f])' = NoRow /\ \A t \in TaskId : TaskRow(ex[f])'[t] = NoRow
      BY <1>1, <1>4, <2>1, NoRowsBefore DEF StepOf, IInv
    <3> QED
      BY <3>1, <3>2 DEF RowsInv, Written, Fresh
  <2>2. CASE f \in DOMAIN ex /\ f # e
    <3>1. SUFFICES ASSUME ~Shared(f)' PROVE Written(ex[f], DagRow(ex[f]), TaskRow(ex[f]))'
      BY DEF RowsInv
    <3>2. Written(ex[f], DagRow(ex[f]), TaskRow(ex[f]))
      BY <1>1, <2>2, <3>1, SharedGrows DEF IInv, RowsInv, StepOf
    <3>3. DagRow(ex[f])' = DagRow(ex[f]) /\ TaskRow(ex[f])' = TaskRow(ex[f]) /\ ex'[f] = ex[f]
      BY <1>1, <2>2, <3>1, RowsKept DEF IInv, StepOf
    <3> QED
      BY <3>2, <3>3 DEF Written
  <2> QED
    BY <1>1, <2>1, <2>2
<1>5. ASSUME NEW f \in DOMAIN ex' PROVE ChildInv(f)'
  <2>1. CASE f \notin DOMAIN ex
    BY <1>1, <1>5, <2>1 DEF StepOf, Grows, Fresh, ChildInv, ChildOf
  <2>2. CASE f \in DOMAIN ex /\ f # e
    <3>1. SUFFICES ASSUME NEW t \in TaskId PROVE ChildOf(f, t)'
      BY DEF ChildInv
    <3>2. ex'[f] = ex[f] /\ ChildOf(f, t)
      BY <1>1, <2>2 DEF IInv, ChildInv, StepOf, Grows
    <3>3. ~Shared(f)' => TaskRow(ex[f])' = TaskRow(ex[f])
      BY <1>1, <2>2, RowsKept DEF IInv, StepOf
    <3> QED
      BY <1>1, <2>2, <3>2, <3>3, NodeKept DEF StepOf
  <2> QED
    BY <1>1, <2>1, <2>2
<1> QED
  BY <1>2, <1>3, <1>4, <1>5 DEF IInv

-----------------------------------------------------------------------------
(***************************************************************************)
(* The two shapes of ex' and the records in it.                            *)
(***************************************************************************)
Fields(y, x, pc, k, cron, st, child) ==
    /\ y \in Exec
    /\ y.at = x.at /\ y.rid = x.rid /\ y.body = x.body /\ y.src = x.src
    /\ y.depth = x.depth /\ y.entry = x.entry /\ y.level = x.level
    /\ y.pc = pc /\ y.k = k /\ y.cron = cron /\ y.st = st /\ y.child = child

LEMMA PcSet == \A x \in Exec, pc \in Pc :
    Fields([x EXCEPT !.pc = pc], x, pc, x.k, x.cron, x.st, x.child)
BY DEF Exec, Fields

LEMMA KSet == \A x \in Exec, k \in Nat \ {0} :
    Fields([x EXCEPT !.k = k], x, x.pc, k, x.cron, x.st, x.child)
BY DEF Exec, Fields

LEMMA CronSet == \A x \in Exec, cron \in BOOLEAN :
    Fields([x EXCEPT !.cron = cron], x, x.pc, x.k, cron, x.st, x.child)
BY DEF Exec, Fields

LEMMA OkSet == \A x \in Exec, ok \in BOOLEAN :
    Fields([x EXCEPT !.ok = ok], x, x.pc, x.k, x.cron, x.st, x.child)
BY DEF Exec, Fields

LEMMA PcKSet == \A x \in Exec, pc \in Pc, k \in Nat \ {0} :
    Fields([x EXCEPT !.pc = pc, !.k = k], x, pc, k, x.cron, x.st, x.child)
<1> TAKE x \in Exec, pc \in Pc, k \in Nat \ {0}
<1> DEFINE z == [x EXCEPT !.pc = pc]
           y == [z EXCEPT !.k = k]
<1>1. Fields(z, x, pc, x.k, x.cron, x.st, x.child) /\ [x EXCEPT !.pc = pc, !.k = k] = y
  BY PcSet
<1> HIDE DEF z
<1>2. z \in Exec
  BY <1>1 DEF Fields
<1>3. Fields(y, z, z.pc, k, z.cron, z.st, z.child)
  BY <1>2, KSet
<1> HIDE DEF y
<1> QED
  BY <1>1, <1>3 DEF Fields

LEMMA PcCronSet == \A x \in Exec, pc \in Pc :
    Fields([x EXCEPT !.pc = pc, !.cron = FALSE], x, pc, x.k, FALSE, x.st, x.child)
<1> TAKE x \in Exec, pc \in Pc
<1> DEFINE z == [x EXCEPT !.pc = pc]
           y == [z EXCEPT !.cron = FALSE]
<1>1. Fields(z, x, pc, x.k, x.cron, x.st, x.child) /\ [x EXCEPT !.pc = pc, !.cron = FALSE] = y
  BY PcSet
<1> HIDE DEF z
<1>2. z \in Exec
  BY <1>1 DEF Fields
<1>3. Fields(y, z, z.pc, z.k, FALSE, z.st, z.child)
  BY <1>2, CronSet
<1> HIDE DEF y
<1> QED
  BY <1>1, <1>3 DEF Fields

LEMMA PcOkSet == \A x \in Exec, pc \in Pc, ok \in BOOLEAN :
    Fields([x EXCEPT !.pc = pc, !.ok = ok], x, pc, x.k, x.cron, x.st, x.child)
<1> TAKE x \in Exec, pc \in Pc, ok \in BOOLEAN
<1> DEFINE z == [x EXCEPT !.pc = pc]
           y == [z EXCEPT !.ok = ok]
<1>1. Fields(z, x, pc, x.k, x.cron, x.st, x.child) /\ [x EXCEPT !.pc = pc, !.ok = ok] = y
  BY PcSet
<1> HIDE DEF z
<1>2. z \in Exec
  BY <1>1 DEF Fields
<1>3. Fields(y, z, z.pc, z.k, z.cron, z.st, z.child)
  BY <1>2, OkSet
<1> HIDE DEF y
<1> QED
  BY <1>1, <1>3 DEF Fields

LEMMA StSet == \A x \in Exec, t \in TaskId, v \in NodeStatus :
    Fields([x EXCEPT !.st[t] = v], x, x.pc, x.k, x.cron, [x.st EXCEPT ![t] = v], x.child)
<1> TAKE x \in Exec, t \in TaskId, v \in NodeStatus
<1> DEFINE s == [x.st EXCEPT ![t] = v]
<1>1. s \in [TaskId -> NodeStatus]
  BY DEF Exec
<1> HIDE DEF s
<1>2. Fields([x EXCEPT !.st = s], x, x.pc, x.k, x.cron, s, x.child)
  BY <1>1 DEF Exec, Fields
<1> QED
  BY <1>2 DEF s

LEMMA ChildSet == \A x \in Exec, t \in TaskId, c \in Nat :
    Fields([x EXCEPT !.child[t] = c], x, x.pc, x.k, x.cron, x.st, [x.child EXCEPT ![t] = c])
<1> TAKE x \in Exec, t \in TaskId, c \in Nat
<1> DEFINE h == [x.child EXCEPT ![t] = c]
<1>1. h \in [TaskId -> Nat]
  BY DEF Exec
<1> HIDE DEF h
<1>2. Fields([x EXCEPT !.child = h], x, x.pc, x.k, x.cron, x.st, h)
  BY <1>1 DEF Exec, Fields
<1> QED
  BY <1>2 DEF h

LEMMA TriesSet == \A x \in Exec, t \in TaskId :
    Fields([x EXCEPT !.tries[t] = @ + 1], x, x.pc, x.k, x.cron, x.st, x.child)
<1> TAKE x \in Exec, t \in TaskId
<1> DEFINE n == [x.tries EXCEPT ![t] = x.tries[t] + 1]
<1>0. x.tries \in [TaskId -> Nat]
  BY DEF Exec
<1>1. n \in [TaskId -> Nat]
  BY <1>0
<1> HIDE DEF n
<1>2. Fields([x EXCEPT !.tries = n], x, x.pc, x.k, x.cron, x.st, x.child)
  BY <1>1 DEF Exec, Fields
<1> QED
  BY <1>2 DEF n

LEMMA SeqUpdate ==
    ASSUME NEW S, NEW z \in Seq(S), NEW i \in DOMAIN z, NEW y \in S
    PROVE  LET n == [z EXCEPT ![i] = y] IN
           n \in Seq(S) /\ DOMAIN n = DOMAIN z /\ n[i] = y /\ \A f \in DOMAIN z : f # i => n[f] = z[f]
OBVIOUS

(* One execution moves on. *)
LEMMA Moves ==
    ASSUME NEW e \in DOMAIN ex, TypeOK, NEW y \in Exec, Same(ex[e], y), ex' = [ex EXCEPT ![e] = y]
    PROVE  /\ Grows(e) /\ ex'[e] = y /\ ex' \in Seq(Exec)
<1>1. ex \in Seq(Exec)
  BY DEF TypeOK
<1>2. ex' \in Seq(Exec) /\ DOMAIN ex' = DOMAIN ex /\ ex'[e] = y /\ \A f \in DOMAIN ex : f # e => ex'[f] = ex[f]
  BY <1>1
<1> QED
  BY <1>2 DEF Grows

(* A request starts an execution. *)
LEMMA Starts ==
    ASSUME TypeOK, NEW x \in Exec, Fresh(x), ex' = Append(ex, x)
    PROVE  Grows(0) /\ ex' \in Seq(Exec) /\ 0 \notin DOMAIN ex
<1>1. ex \in Seq(Exec)
  BY DEF TypeOK
<1>2. /\ ex' \in Seq(Exec) /\ DOMAIN ex' = 1 .. (Len(ex) + 1)
      /\ \A f \in DOMAIN ex : ex'[f] = ex[f]
      /\ ex'[Len(ex) + 1] = x
      /\ DOMAIN ex = 1 .. Len(ex) /\ Len(ex) \in Nat
  BY <1>1
<1>3. \A f \in DOMAIN ex' : f \notin DOMAIN ex => f = Len(ex) + 1
  BY <1>2
<1> QED
  BY <1>2, <1>3 DEF Grows

(* A body and its tasks. *)
LEMMA BodyFacts ==
    ASSUME NEW b \in Body
    PROVE  /\ Content[b] \in BodySpec
           /\ Content[b].tasks \in Seq(TaskSpec)
           /\ \A i \in DOMAIN Content[b].tasks :
                /\ Content[b].tasks[i].id \in TaskId \cup {NoId}
                /\ Content[b].tasks[i].rid \in RunId \cup {NoId}
                /\ Content[b].tasks[i].sub \in Body \cup {NoBody}
           /\ Named(b) \subseteq TaskId
<1>1. Content[b] \in BodySpec
  BY BodyAssumption
<1>2. Content[b].tasks \in Seq(TaskSpec)
  BY <1>1 DEF BodySpec
<1>3. \A i \in DOMAIN Content[b].tasks : Content[b].tasks[i] \in TaskSpec
  BY <1>2
<1>4. \A i \in DOMAIN Content[b].tasks :
                /\ Content[b].tasks[i].id \in TaskId \cup {NoId}
                /\ Content[b].tasks[i].rid \in RunId \cup {NoId}
                /\ Content[b].tasks[i].sub \in Body \cup {NoBody}
  BY <1>3 DEF TaskSpec
<1>5. Named(b) \subseteq TaskId
  BY <1>4 DEF Named
<1> QED
  BY <1>1, <1>2, <1>4, <1>5

LEMMA TaskFacts ==
    ASSUME TypeOK, NEW e \in DOMAIN ex, NEW t \in TasksOf(e)
    PROVE  /\ t \in TaskId /\ t \in Named(ex[e].body)
           /\ Task(e, t).rid \in RunId \cup {NoId} /\ Task(e, t).sub \in Body \cup {NoBody}
<1>1. ex[e].body \in Body
  BY ExecFacts
<1>2. t \in Named(ex[e].body) /\ t \in TaskId
  BY <1>1, BodyFacts DEF TasksOf
<1>3. \E j \in DOMAIN Tasks(e) : Tasks(e)[j].id = t
  BY <1>2 DEF Named, Tasks
<1>4. \E j \in DOMAIN Tasks(e) : Task(e, t) = Tasks(e)[j]
  BY <1>3 DEF Task
<1> QED
  BY <1>1, <1>2, <1>4, BodyFacts DEF Tasks

(* A fresh execution. *)
LEMMA NewExecution ==
    ASSUME NEW at \in Server, NEW rid \in RunId \cup {NoId}, NEW b \in Body, NEW src \in Source,
           NEW depth \in Int, NEW entry \in Int, NEW level \in Nat, NEW thread \in Thread,
           depth = entry + level, level > 0 => depth < MaxDepth, GivenOrNew(rid) \in RunId
    PROVE  LET x == Execution(at, rid, b, src, depth, entry, level, thread)
           IN  /\ x \in Exec /\ Fresh(x) /\ x.at = at /\ x.rid = GivenOrNew(rid) /\ x.pc = "insert"
               /\ thread = "pool" => ~x.cron
<1> DEFINE g == GivenOrNew(rid)  cron == thread = "cron"
           st == [t \in TaskId |-> "Pending"]  no == [t \in TaskId |-> 0]
           x == [at |-> at, rid |-> g, body |-> b, src |-> src, depth |-> depth, entry |-> entry,
                 level |-> level, thread |-> thread, cron |-> cron, pc |-> "insert", k |-> 1,
                 ok |-> FALSE, st |-> st, child |-> no, tries |-> no]
<1>1. /\ st \in [TaskId -> NodeStatus] /\ no \in [TaskId -> Nat] /\ "insert" \in Pc /\ 1 \in Nat \ {0}
      /\ \A t \in TaskId : st[t] = "Pending" /\ no[t] = 0
  BY DEF NodeStatus, Pc, Unstarted
<1>2. cron \in BOOLEAN /\ (thread = "pool" => ~cron)
  OBVIOUS
<1>3. Execution(at, rid, b, src, depth, entry, level, thread) = x
  BY DEF Execution
<1>4. g \in RunId
  OBVIOUS
<1> HIDE DEF g, cron, st, no
<1>5. x \in Exec
  BY <1>1, <1>2, <1>4 DEF Exec
<1>6. Fresh(x)
  BY <1>1 DEF Fresh
<1> QED
  BY <1>2, <1>3, <1>5, <1>6 DEF g

(* One that a request, a cron job or another server starts. *)
LEMMA NewEntry ==
    ASSUME NEW at \in Server, NEW rid \in RunId \cup {NoId}, NEW b \in Body, NEW src \in Source,
           NEW thread \in Thread, GivenOrNew(rid) \in RunId
    PROVE  LET x == Entry(at, rid, b, src, thread)
           IN  x \in Exec /\ Fresh(x) /\ x.at = at /\ x.rid = GivenOrNew(rid)
<1> DEFINE d == Content[b].depth
<1>1. d \in Int /\ 0 \in Nat /\ d = d + 0 /\ ~(0 > 0)
  BY BodyAssumption DEF BodySpec
<1> HIDE DEF d
<1>2. LET x == Execution(at, rid, b, src, d, d, 0, thread)
      IN  x \in Exec /\ Fresh(x) /\ x.at = at /\ x.rid = GivenOrNew(rid)
  BY <1>1, NewExecution
<1> QED
  BY <1>2 DEF Entry, d

(* An execution that is refused before it begins. *)
LEMMA FreshSet == \A x \in Exec, pc \in {"insert", "refused"} :
    (Fresh(x) /\ ~x.cron) =>
        LET y == [x EXCEPT !.pc = pc] IN y \in Exec /\ Fresh(y) /\ y.at = x.at
<1> TAKE x \in Exec, pc \in {"insert", "refused"}
<1> DEFINE y == [x EXCEPT !.pc = pc]
<1>1. Fields(y, x, pc, x.k, x.cron, x.st, x.child)
  BY PcSet DEF Pc, Unstarted
<1> HIDE DEF y
<1>2. Fresh(x) /\ ~x.cron => Fresh(y)
  BY <1>1 DEF Fresh, Fields
<1> QED
  BY <1>1, <1>2 DEF y, Fields

-----------------------------------------------------------------------------
(***************************************************************************)
(* The statements on the tables.                                           *)
(***************************************************************************)
RowsOnly(s, r) == \A q \in Server, p \in RunId : ~(q = s /\ p = r) =>
    dagRun'[q][p] = dagRun[q][p] /\ taskRun'[q][p] = taskRun[q][p]

LEMMA DagRowSet ==
    ASSUME StoreTypeOK, NEW s \in Server, NEW r \in RunId, NEW d \in DagRunRow \cup {NoRow},
           dagRun' = [dagRun EXCEPT ![s][r] = d], taskRun' = taskRun
    PROVE  StoreTypeOK' /\ RowsOnly(s, r) /\ dagRun'[s][r] = d /\ taskRun'[s][r] = taskRun[s][r]
BY DEF StoreTypeOK, RowsOnly

SetsRow(s, r, t, v) == taskRun' = [taskRun EXCEPT ![s][r][t] = v] /\ dagRun' = dagRun

LEMMA TaskRowSet ==
    ASSUME StoreTypeOK, NEW s \in Server, NEW r \in RunId, NEW t \in TaskId,
           NEW v \in TaskRunRow \cup {NoRow},
           SetsRow(s, r, t, v)
    PROVE  /\ StoreTypeOK' /\ RowsOnly(s, r)
           /\ dagRun'[s][r] = dagRun[s][r]
           /\ taskRun'[s][r][t] = v /\ \A u \in TaskId : u # t => taskRun'[s][r][u] = taskRun[s][r][u]
<1> DEFINE f == taskRun[s][r]
           g == [f EXCEPT ![t] = v]
<1>1. f \in [TaskId -> TaskRunRow \cup {NoRow}]
  BY DEF StoreTypeOK
<1>2. g \in [TaskId -> TaskRunRow \cup {NoRow}] /\ g[t] = v /\ \A u \in TaskId : u # t => g[u] = f[u]
  BY <1>1
<1>3. taskRun' = [taskRun EXCEPT ![s][r] = g] /\ dagRun' = dagRun
  BY DEF SetsRow
<1> HIDE DEF g
<1>4. /\ taskRun' \in [Server -> [RunId -> [TaskId -> TaskRunRow \cup {NoRow}]]]
      /\ taskRun'[s][r] = g
      /\ \A q \in Server, p \in RunId : ~(q = s /\ p = r) => taskRun'[q][p] = taskRun[q][p]
  BY <1>2, <1>3 DEF StoreTypeOK
<1> QED
  BY <1>2, <1>3, <1>4 DEF StoreTypeOK, RowsOnly

LEMMA StoreKept ==
    ASSUME StoreTypeOK, UNCHANGED storeVars, NEW s, NEW r
    PROVE  StoreTypeOK' /\ RowsOnly(s, r) /\ dagRun'[s][r] = dagRun[s][r] /\ taskRun'[s][r] = taskRun[s][r]
BY DEF StoreTypeOK, RowsOnly, storeVars

(* A move of e that is not started yet, or throws: nothing is nested in    *)
(* it, and its nodes are pending.                                          *)
LEMMA UnstartedMove == \A e \in DOMAIN ex : \A y \in Exec :
    (/\ IInv /\ ex[e].pc \in Unstarted /\ ex[e].pc # "thrown"
     /\ ex' = [ex EXCEPT ![e] = y] /\ Fields(y, ex[e], y.pc, y.k, y.cron, ex[e].st, ex[e].child)
     /\ y.pc \notin {"insert", "upsert", "lost"} => ~y.cron
     /\ StoreTypeOK' /\ RowsOnly(ex[e].at, ex[e].rid)
     /\ Written(ex[e], DagRow(ex[e]), TaskRow(ex[e])) =>
            Written(y, dagRun'[ex[e].at][ex[e].rid], taskRun'[ex[e].at][ex[e].rid]))
    => IInv'
<1>1. SUFFICES ASSUME NEW e \in DOMAIN ex, NEW y \in Exec,
                      IInv, ex[e].pc \in Unstarted, ex[e].pc # "thrown",
                      ex' = [ex EXCEPT ![e] = y],
                      Fields(y, ex[e], y.pc, y.k, y.cron, ex[e].st, ex[e].child),
                      y.pc \notin {"insert", "upsert", "lost"} => ~y.cron,
                      StoreTypeOK', RowsOnly(ex[e].at, ex[e].rid),
                      Written(ex[e], DagRow(ex[e]), TaskRow(ex[e])) =>
                        Written(y, dagRun'[ex[e].at][ex[e].rid], taskRun'[ex[e].at][ex[e].rid])
               PROVE  IInv'
  OBVIOUS
<1>2. TypeOK
  BY <1>1 DEF IInv
<1>3. Same(ex[e], y)
  BY <1>1 DEF Fields, Same
<1>4. Grows(e) /\ ex'[e] = y /\ ex' \in Seq(Exec)
  BY <1>1, <1>2, <1>3, Moves
<1>5. StepOf(e)
  BY <1>1, <1>4 DEF StepOf, TypeOK, OnlyRowsOf, RowsOnly
<1>6. LocalInv(ex[e])
  BY <1>1 DEF IInv
<1>7. \A t \in TaskId : y.st[t] = "Pending" /\ y.child[t] = 0
  BY <1>1, <1>6 DEF LocalInv, Fields
<1>8. y.body \in Body
  BY <1>1 DEF Exec
<1>9. LocalInv(ex'[e])
  <2>1. \A t \in Named(y.body) : y.st[t] # "Running"
    BY <1>7, <1>8, BodyFacts
  <2> QED
    BY <1>1, <1>4, <1>6, <1>7, <2>1 DEF LocalInv, Fields
<1>10. RowsInv(e)'
  <2>1. SUFFICES ASSUME ~Shared(e)' PROVE Written(ex[e], DagRow(ex[e]), TaskRow(ex[e]))'
    BY DEF RowsInv
  <2>2. Written(ex[e], DagRow(ex[e]), TaskRow(ex[e]))
    BY <1>1, <1>4, <2>1, SharedGrows DEF IInv, RowsInv
  <2>3. Written(y, dagRun'[ex[e].at][ex[e].rid], taskRun'[ex[e].at][ex[e].rid])
    BY <1>1, <2>2
  <2>4. DagRow(ex[e])' = dagRun'[ex[e].at][ex[e].rid] /\ TaskRow(ex[e])' = taskRun'[ex[e].at][ex[e].rid]
    BY <1>3, <1>4 DEF DagRow, TaskRow, Same
  <2> QED
    BY <1>4, <2>3, <2>4 DEF Written
<1>11. ChildInv(e)'
  BY <1>4, <1>7 DEF ChildInv, ChildOf
<1> QED
  BY <1>1, <1>5, <1>9, <1>10, <1>11, FrameKeeps

(* A move of e in its run that writes the row of one node t, and starts    *)
(* a nested run or not.                                                    *)
LEMMA NodeMove == \A e \in DOMAIN ex : \A t \in TasksOf(e) :
    (/\ IInv /\ ex[e].pc = "run"
     /\ Grows(e) /\ ex' \in Seq(Exec) /\ StoreTypeOK' /\ RowsOnly(ex[e].at, ex[e].rid)
     /\ Fields(ex'[e], ex[e], "run", ex[e].k, ex[e].cron, ex'[e].st, ex'[e].child)
     /\ dagRun'[ex[e].at][ex[e].rid] = dagRun[ex[e].at][ex[e].rid]
     /\ \A u \in TaskId : u # t =>
          /\ ex'[e].st[u] = ex[e].st[u] /\ ex'[e].child[u] = ex[e].child[u]
          /\ taskRun'[ex[e].at][ex[e].rid][u] = taskRun[ex[e].at][ex[e].rid][u]
     /\ taskRun'[ex[e].at][ex[e].rid][t] = NoRow <=> taskRun[ex[e].at][ex[e].rid][t] = NoRow
     /\ (/\ taskRun[ex[e].at][ex[e].rid][t] # NoRow
         /\ taskRun[ex[e].at][ex[e].rid][t].status = ex[e].st[t])
          => taskRun'[ex[e].at][ex[e].rid][t].status = ex'[e].st[t]
     /\ ChildOf(e, t)')
    => IInv'
<1>1. SUFFICES ASSUME NEW e \in DOMAIN ex, NEW t \in TasksOf(e),
              IInv, ex[e].pc = "run",
              Grows(e), ex' \in Seq(Exec), StoreTypeOK', RowsOnly(ex[e].at, ex[e].rid),
              Fields(ex'[e], ex[e], "run", ex[e].k, ex[e].cron, ex'[e].st, ex'[e].child),
              dagRun'[ex[e].at][ex[e].rid] = dagRun[ex[e].at][ex[e].rid],
              \A u \in TaskId : u # t =>
                 /\ ex'[e].st[u] = ex[e].st[u] /\ ex'[e].child[u] = ex[e].child[u]
                 /\ taskRun'[ex[e].at][ex[e].rid][u] = taskRun[ex[e].at][ex[e].rid][u],
              taskRun'[ex[e].at][ex[e].rid][t] = NoRow <=> taskRun[ex[e].at][ex[e].rid][t] = NoRow,
              (/\ taskRun[ex[e].at][ex[e].rid][t] # NoRow
               /\ taskRun[ex[e].at][ex[e].rid][t].status = ex[e].st[t])
                 => taskRun'[ex[e].at][ex[e].rid][t].status = ex'[e].st[t],
              ChildOf(e, t)'
       PROVE  IInv'
  OBVIOUS
<1>2. StepOf(e)
  BY <1>1 DEF StepOf, TypeOK, OnlyRowsOf, RowsOnly
<1>3. LocalInv(ex[e]) /\ ChildInv(e) /\ TypeOK /\ ex[e].body \in Body
  BY <1>1, ExecFacts DEF IInv
<1>4. LocalInv(ex'[e])
  BY <1>1, <1>3 DEF LocalInv, Fields, Unstarted
<1> DEFINE d == dagRun[ex[e].at][ex[e].rid]  r == taskRun[ex[e].at][ex[e].rid]
           dn == dagRun'[ex[e].at][ex[e].rid]  rn == taskRun'[ex[e].at][ex[e].rid]
<1>5. DagRow(ex[e])' = dn /\ TaskRow(ex[e])' = rn /\ DagRow(ex[e]) = d /\ TaskRow(ex[e]) = r
  BY <1>1 DEF DagRow, TaskRow, Fields
<1>6. RowsInv(e)'
  <2>1. SUFFICES ASSUME ~Shared(e)' PROVE Written(ex'[e], dn, rn)
    BY <1>5 DEF RowsInv, Written
  <2>2. Written(ex[e], d, r)
    BY <1>1, <1>5, <2>1, SharedGrows DEF IInv, RowsInv
  <2>3. \A u \in TaskId : rn[u] # NoRow => u \in Named(ex'[e].body) /\ rn[u].status = ex'[e].st[u]
    BY <1>1, <2>2 DEF Written, Fields
  <2>4. \A u \in Named(ex'[e].body) : rn[u] # NoRow
    BY <1>1, <1>3, <2>2, BodyFacts DEF Written, Fields
  <2>5. dn # NoRow /\ dn.source = IF ex'[e].cron THEN "cron" ELSE ex'[e].src
    BY <1>1, <2>2 DEF Written, Fields
  <2>6. dn.status # "Failed"
    BY <1>1, <2>2, <2>5 DEF Written
  <2> QED
    BY <1>1, <2>3, <2>4, <2>5, <2>6 DEF Written, Fields
<1>7. ChildInv(e)'
  <2>1. SUFFICES ASSUME NEW u \in TaskId, u # t PROVE ChildOf(e, u)'
    BY <1>1 DEF ChildInv
  <2> QED
    BY <1>1, <1>3, <1>5, <2>1, NodeKept DEF ChildInv
<1> QED
  BY <1>1, <1>2, <1>4, <1>6, <1>7, FrameKeeps

-----------------------------------------------------------------------------
(***************************************************************************)
(* runDag up to the start of the executor.                                 *)
(***************************************************************************)
LEMMA TwoFields ==
    ASSUME TypeOK, NEW e \in DOMAIN ex, NEW p, NEW v
    PROVE  /\ [ex EXCEPT ![e].pc = p, ![e].k = v] = [ex EXCEPT ![e] = [ex[e] EXCEPT !.pc = p, !.k = v]]
           /\ [ex EXCEPT ![e].pc = p, ![e].ok = v] = [ex EXCEPT ![e] = [ex[e] EXCEPT !.pc = p, !.ok = v]]
           /\ [ex EXCEPT ![e].pc = p, ![e].cron = v] = [ex EXCEPT ![e] = [ex[e] EXCEPT !.pc = p, !.cron = v]]
<1>1. ex \in Seq(Exec)
  BY DEF TypeOK
<1> QED
  BY <1>1

LEMMA InsertRunKeeps ==
    ASSUME IInv, NEW e \in DOMAIN ex, InsertRun(e)
    PROVE  IInv'
<1> DEFINE x == ex[e]
           y == [ex[e] EXCEPT !.pc = "upsert", !.k = 1]
           d == [status |-> "Running", source |-> IF x.cron THEN "cron" ELSE x.src]
           s == x.at  r == x.rid
<1>1. TypeOK /\ x \in Exec /\ x.pc = "insert" /\ s \in Server /\ r \in RunId /\ x.src \in Source
  BY ExecFacts DEF InsertRun, At, IInv
<1>2. y \in Exec /\ Fields(y, x, "upsert", 1, x.cron, x.st, x.child)
  <2>1. "upsert" \in Pc
    BY DEF Pc, Unstarted
  <2>2. 1 \in Nat \ {0}
    OBVIOUS
  <2>3. Fields(y, x, "upsert", 1, x.cron, x.st, x.child)
    BY <1>1, <2>1, <2>2, PcKSet
  <2> QED
    BY <2>3 DEF Fields
<1>3. ex' = [ex EXCEPT ![e] = y]
  BY <1>1, TwoFields DEF InsertRun
<1>4. d \in DagRunRow \cup {NoRow} /\ d # NoRow
  BY <1>1, SourceAssumption, RowAssumption DEF DagRunRow
<1>5. dagRun' = [dagRun EXCEPT ![s][r] = d] /\ taskRun' = taskRun
  BY DEF InsertRun, insertRun
<1>6. d.status = "Running" /\ d.source = IF y.cron THEN "cron" ELSE y.src
  BY <1>2 DEF Fields
<1> HIDE DEF y, d
<1>7. /\ StoreTypeOK' /\ RowsOnly(s, r) /\ dagRun'[s][r] = d /\ taskRun'[s][r] = taskRun[s][r]
  BY <1>1, <1>4, <1>5, DagRowSet DEF TypeOK
<1>8. \A i \in DOMAIN Content[y.body].tasks : i \in Nat /\ i >= 1
  <2>1. y.body \in Body
    BY <1>2 DEF Exec
  <2>2. Content[y.body].tasks \in Seq(TaskSpec)
    BY <2>1, BodyFacts
  <2> QED
    BY <2>2
<1>9. Written(x, DagRow(x), TaskRow(x)) => Written(y, dagRun'[s][r], taskRun'[s][r])
  <2>1. SUFFICES ASSUME Written(x, dagRun[s][r], taskRun[s][r])
                 PROVE  Written(y, dagRun'[s][r], taskRun'[s][r])
    BY DEF DagRow, TaskRow
  <2>2. \A t \in TaskId : taskRun'[s][r][t] # NoRow => t \in Named(y.body) /\ taskRun'[s][r][t].status = y.st[t]
    BY <1>2, <1>7, <2>1 DEF Written, Fields
  <2>3. \A i \in DOMAIN Content[y.body].tasks : ~(i < y.k)
    BY <1>2, <1>8 DEF Fields
  <2>4. y.pc = "upsert" /\ dagRun'[s][r] # NoRow /\ dagRun'[s][r].status = "Running"
        /\ dagRun'[s][r].source = IF y.cron THEN "cron" ELSE y.src
    BY <1>2, <1>4, <1>6, <1>7 DEF Fields
  <2> QED
    BY <2>2, <2>3, <2>4 DEF Written
<1>10. Fields(y, x, y.pc, y.k, y.cron, x.st, x.child) /\ y.pc = "upsert"
  BY <1>2 DEF Fields
<1> QED
  BY <1>1, <1>2, <1>3, <1>7, <1>9, <1>10, UnstartedMove DEF Unstarted

LEMMA UpsertTaskKeeps ==
    ASSUME IInv, NEW e \in DOMAIN ex, UpsertTask(e)
    PROVE  IInv'
<1> DEFINE x == ex[e]
           y == [ex[e] EXCEPT !.k = x.k + 1]
           s == x.at  r == x.rid
           t == Tasks(e)[x.k].id
           old == taskRun[s][r][t]
           v == IF old = NoRow THEN [status |-> "Pending", next |-> NoId, worker |-> NoId]
                ELSE [old EXCEPT !.status = "Pending"]
<1>1. /\ TypeOK /\ x \in Exec /\ x.pc = "upsert" /\ s \in Server /\ r \in RunId
      /\ x.k \in Nat \ {0} /\ x.body \in Body /\ LocalInv(x)
  BY ExecFacts DEF UpsertTask, At, IInv
<1>2. y \in Exec /\ Fields(y, x, "upsert", x.k + 1, x.cron, x.st, x.child)
  <2>0. x.k + 1 \in Nat \ {0}
    BY <1>1
  <2>1. Fields(y, x, x.pc, x.k + 1, x.cron, x.st, x.child)
    BY <1>1, <2>0, KSet
  <2> QED
    BY <1>1, <2>1 DEF Fields
<1>3. ex' = [ex EXCEPT ![e] = y] /\ dagRun' = dagRun
  BY <1>1 DEF UpsertTask
<1>4. t \in TaskId \cup {NoId} /\ \A i \in DOMAIN Tasks(e) : i < x.k + 1 => i < x.k \/ i = x.k
  <2>1. Tasks(e) \in Seq(TaskSpec) /\ x.k <= Len(Tasks(e))
    BY <1>1, BodyFacts DEF Tasks, UpsertTask
  <2>2. x.k \in DOMAIN Tasks(e) \/ x.k = 0
    BY <1>1, <2>1
  <2>3. x.k # 0
    BY <1>1
  <2>4. t \in TaskId \cup {NoId}
    BY <1>1, <2>2, <2>3, BodyFacts DEF Tasks
  <2>5. \A i \in DOMAIN Tasks(e) : i \in Nat
    BY <2>1
  <2> QED
    BY <1>1, <2>4, <2>5
<1>5. CASE t = NoId
  <2>1. UNCHANGED storeVars
    BY <1>3, <1>5 DEF UpsertTask, upsertFromTaskJson, storeVars
  <2>2. StoreTypeOK' /\ RowsOnly(s, r) /\ dagRun'[s][r] = dagRun[s][r] /\ taskRun'[s][r] = taskRun[s][r]
    BY <1>1, <2>1, StoreKept DEF TypeOK
  <2> HIDE DEF y, v
  <2>3. Written(x, DagRow(x), TaskRow(x)) => Written(y, dagRun'[s][r], taskRun'[s][r])
    BY <1>1, <1>2, <1>4, <1>5, <2>2 DEF Written, DagRow, TaskRow, Fields, Tasks
  <2>4. Fields(y, x, y.pc, y.k, y.cron, x.st, x.child) /\ y.pc = "upsert"
    BY <1>2 DEF Fields
  <2> QED
    BY <1>1, <1>2, <1>3, <2>2, <2>3, <2>4, UnstartedMove DEF Unstarted
<1>6. CASE t # NoId
  <2>1. t \in TaskId /\ t \in Named(x.body)
    <3>1. x.k \in DOMAIN Tasks(e)
      <4>1. Tasks(e) \in Seq(TaskSpec) /\ x.k <= Len(Tasks(e))
        BY <1>1, BodyFacts DEF Tasks, UpsertTask
      <4> QED
        BY <1>1, <4>1
    <3> QED
      BY <1>4, <1>6, <3>1 DEF Named, Tasks
  <2>2. taskRun' = [taskRun EXCEPT ![s][r][t] = v]
    BY <1>6 DEF UpsertTask, upsertFromTaskJson
  <2>3. old \in TaskRunRow \cup {NoRow}
    BY <1>1, <2>1 DEF TypeOK, StoreTypeOK
  <2>4. v \in TaskRunRow /\ v.status = "Pending" /\ v # NoRow
    <3>1. CASE old = NoRow
      BY <3>1, RowAssumption DEF TaskRunRow, RowStatus
    <3>2. CASE old # NoRow
      BY <2>3, <3>2, RowAssumption DEF TaskRunRow, RowStatus
    <3> QED
      BY <3>1, <3>2
  <2> HIDE DEF y, v
  <2>5. /\ StoreTypeOK' /\ RowsOnly(s, r) /\ dagRun'[s][r] = dagRun[s][r] /\ taskRun'[s][r][t] = v
        /\ \A u \in TaskId : u # t => taskRun'[s][r][u] = taskRun[s][r][u]
    <3>1. StoreTypeOK /\ v \in TaskRunRow \cup {NoRow} /\ t \in TaskId /\ s \in Server /\ r \in RunId
      BY <1>1, <2>1, <2>4 DEF TypeOK
    <3>2. SetsRow(s, r, t, v)
      BY <1>3, <2>2 DEF SetsRow
    <3> HIDE DEF t, s, r
    <3> QED
      BY <3>1, <3>2, TaskRowSet
  <2>6. x.st[t] = "Pending"
    BY <1>1, <2>1 DEF LocalInv, Unstarted
  <2>7. \A i \in DOMAIN Content[x.body].tasks : Content[x.body].tasks[i].id \in TaskId \cup {NoId}
    BY <1>1, BodyFacts
  <2>8. Written(x, DagRow(x), TaskRow(x)) => Written(y, dagRun'[s][r], taskRun'[s][r])
    <3>1. SUFFICES ASSUME Written(x, dagRun[s][r], taskRun[s][r])
                   PROVE  Written(y, dagRun'[s][r], taskRun'[s][r])
      BY DEF DagRow, TaskRow
    <3>2. \A u \in TaskId : taskRun'[s][r][u] # NoRow =>
              u \in Named(y.body) /\ taskRun'[s][r][u].status = y.st[u]
      <4>1. \A u \in TaskId : taskRun[s][r][u] # NoRow =>
                u \in Named(x.body) /\ taskRun[s][r][u].status = x.st[u]
        BY <3>1 DEF Written
      <4>2. y.body = x.body /\ y.st = x.st
        BY <1>2 DEF Fields
      <4>3. \A u \in TaskId : u # t => taskRun'[s][r][u] = taskRun[s][r][u]
        BY <2>5
      <4>4. t \in Named(x.body) /\ taskRun'[s][r][t].status = x.st[t]
        BY <2>1, <2>4, <2>5, <2>6
      <4> HIDE DEF t
      <4> QED
        BY <4>1, <4>2, <4>3, <4>4
    <3>3. \A i \in DOMAIN Content[y.body].tasks :
              (i < y.k /\ Content[y.body].tasks[i].id # NoId) => taskRun'[s][r][Content[y.body].tasks[i].id] # NoRow
      <4>1. y.body = x.body /\ y.k = x.k + 1 /\ Tasks(e) = Content[x.body].tasks
        BY <1>2 DEF Fields, Tasks
      <4>2. ASSUME NEW i \in DOMAIN Tasks(e), i < x.k + 1, Tasks(e)[i].id # NoId
            PROVE  taskRun'[s][r][Tasks(e)[i].id] # NoRow
        <5>1. Tasks(e)[i].id \in TaskId
          BY <2>7, <4>1, <4>2
        <5>2. CASE i = x.k
          BY <2>4, <2>5, <5>2
        <5>3. CASE i < x.k
          <6>1. taskRun[s][r][Tasks(e)[i].id] # NoRow
            BY <1>1, <3>1, <4>1, <4>2, <5>3 DEF Written
          <6> QED
            BY <2>4, <2>5, <5>1, <6>1
        <5> QED
          BY <1>4, <4>2, <5>2, <5>3
      <4> QED
        BY <4>1, <4>2
    <3>4. y.pc = "upsert" /\ y.cron = x.cron /\ y.src = x.src /\ y.st = x.st
      BY <1>2 DEF Fields
    <3> QED
      BY <1>1, <2>5, <3>1, <3>2, <3>3, <3>4 DEF Written
  <2>9. Fields(y, x, y.pc, y.k, y.cron, x.st, x.child) /\ y.pc = "upsert"
    BY <1>2 DEF Fields
  <2> QED
    BY <1>1, <1>2, <1>3, <2>5, <2>8, <2>9, UnstartedMove DEF Unstarted
<1> QED
  BY <1>5, <1>6

LEMMA PersistedKeeps ==
    ASSUME IInv, NEW e \in DOMAIN ex, Persisted(e)
    PROVE  IInv'
<1> DEFINE x == ex[e]
           p == IF x.cron THEN "insert" ELSE "check"
           y == [ex[e] EXCEPT !.pc = p, !.cron = FALSE]
           s == x.at  r == x.rid
<1>1. /\ TypeOK /\ x \in Exec /\ x.pc = "upsert" /\ s \in Server /\ r \in RunId /\ x.k \in Nat \ {0} /\ x.body \in Body
  BY ExecFacts DEF Persisted, At, IInv
<1>2. y \in Exec /\ Fields(y, x, p, x.k, FALSE, x.st, x.child)
  <2>1. p \in Pc
    BY DEF Pc, Unstarted
  <2>2. Fields(y, x, p, x.k, FALSE, x.st, x.child)
    BY <1>1, <2>1, PcCronSet
  <2> QED
    BY <2>2 DEF Fields
<1>3. ex' = [ex EXCEPT ![e] = y]
  BY <1>1, TwoFields DEF Persisted
<1>4. StoreTypeOK' /\ RowsOnly(s, r) /\ dagRun'[s][r] = dagRun[s][r] /\ taskRun'[s][r] = taskRun[s][r]
  BY <1>1, StoreKept DEF Persisted, TypeOK
<1>5. \A i \in DOMAIN Content[x.body].tasks : i < x.k
  <2>1. Tasks(e) \in Seq(TaskSpec) /\ x.k > Len(Tasks(e))
    BY <1>1, BodyFacts DEF Tasks, Persisted
  <2> QED
    BY <1>1, <2>1 DEF Tasks
<1> HIDE DEF y
<1>6. Written(x, DagRow(x), TaskRow(x)) => Written(y, dagRun'[s][r], taskRun'[s][r])
  <2>1. SUFFICES ASSUME Written(x, dagRun[s][r], taskRun[s][r])
                 PROVE  Written(y, dagRun'[s][r], taskRun'[s][r])
    BY DEF DagRow, TaskRow
  <2>2. \A t \in Named(x.body) : taskRun[s][r][t] # NoRow
    <3> DEFINE tasks == Content[x.body].tasks
    <3>1. \A i \in DOMAIN tasks : tasks[i].id # NoId => taskRun[s][r][tasks[i].id] # NoRow
      <4>1. \A i \in DOMAIN tasks : i < x.k /\ tasks[i].id # NoId => taskRun[s][r][tasks[i].id] # NoRow
        BY <1>1, <2>1 DEF Written
      <4> QED
        BY <1>5, <4>1
    <3>2. SUFFICES ASSUME NEW t \in Named(x.body)
                   PROVE  taskRun[s][r][t] # NoRow
      OBVIOUS
    <3>3. PICK i \in DOMAIN tasks : t = tasks[i].id /\ t # NoId
      BY DEF Named
    <3> QED
      BY <3>1, <3>3
  <2> QED
    BY <1>1, <1>2, <1>4, <2>1, <2>2 DEF Written, Fields
<1>7. Fields(y, x, y.pc, y.k, y.cron, x.st, x.child) /\ ~y.cron
  BY <1>2 DEF Fields
<1> QED
  BY <1>1, <1>2, <1>3, <1>4, <1>6, <1>7, UnstartedMove DEF Unstarted

(* The checks: the run goes on, ends or throws, and may be finished as     *)
(* failed when it ends.                                                    *)
LEMMA ChecksKeep ==
    ASSUME IInv, NEW e \in DOMAIN ex, CheckTasks(e) \/ ParseTasks(e) \/ Validate(e)
    PROVE  IInv'
<1> DEFINE x == ex[e]
           s == x.at  r == x.rid
<1>1. /\ TypeOK /\ x \in Exec /\ x.pc \in {"check", "parse", "validate"} /\ s \in Server /\ r \in RunId
      /\ LocalInv(x)
  BY ExecFacts DEF CheckTasks, ParseTasks, Validate, At, IInv
<1>2. ~x.cron /\ \A t \in TaskId : x.st[t] = "Pending"
  BY <1>1 DEF LocalInv, Unstarted
<1>3. ASSUME NEW p \in {"thrown", "parse", "validate", "run"}, Goto(e, p), UNCHANGED storeVars
      PROVE  IInv'
  <2> DEFINE y == [ex[e] EXCEPT !.pc = p]
  <2>1. y \in Exec /\ Fields(y, x, p, x.k, x.cron, x.st, x.child)
    <3>1. p \in Pc
      BY <1>3 DEF Pc, Unstarted
    <3>2. Fields(y, x, p, x.k, x.cron, x.st, x.child)
      BY <1>1, <3>1, PcSet
    <3> QED
      BY <3>2 DEF Fields
  <2>2. ex' = [ex EXCEPT ![e] = y]
    BY <1>3 DEF Goto
  <2>3. StoreTypeOK' /\ RowsOnly(s, r) /\ dagRun'[s][r] = dagRun[s][r] /\ taskRun'[s][r] = taskRun[s][r]
    BY <1>1, <1>3, StoreKept DEF TypeOK
  <2> HIDE DEF y
  <2>4. Written(x, DagRow(x), TaskRow(x)) => Written(y, dagRun'[s][r], taskRun'[s][r])
    BY <1>1, <1>3, <2>1, <2>3 DEF Written, DagRow, TaskRow, Fields
  <2>5. Fields(y, x, y.pc, y.k, y.cron, x.st, x.child) /\ ~y.cron
    BY <1>2, <2>1 DEF Fields
  <2> QED
    BY <1>1, <2>1, <2>2, <2>3, <2>4, <2>5, UnstartedMove DEF Unstarted
<1>4. ASSUME End(e, FALSE), UNCHANGED storeVars \/ (finishRun(s, r) /\ taskRun' = taskRun)
      PROVE  IInv'
  <2> DEFINE y == [ex[e] EXCEPT !.pc = "done", !.ok = FALSE]
             old == dagRun[s][r]
             d == IF old = NoRow THEN NoRow ELSE [old EXCEPT !.status = "Failed"]
  <2>1. y \in Exec /\ Fields(y, x, "done", x.k, x.cron, x.st, x.child)
    <3>1. "done" \in Pc
      BY DEF Pc
    <3>2. Fields(y, x, "done", x.k, x.cron, x.st, x.child)
      BY <1>1, <3>1, PcOkSet
    <3> QED
      BY <3>2 DEF Fields
  <2>2. ex' = [ex EXCEPT ![e] = y]
    BY <1>1, <1>4, TwoFields DEF End
  <2>3. old \in DagRunRow \cup {NoRow}
    BY <1>1 DEF TypeOK, StoreTypeOK
  <2>4. d \in DagRunRow \cup {NoRow} /\ (old # NoRow => d # NoRow /\ d.source = old.source)
    BY <2>3, RowAssumption DEF DagRunRow
  <2>5. /\ StoreTypeOK' /\ RowsOnly(s, r) /\ taskRun'[s][r] = taskRun[s][r]
        /\ dagRun'[s][r] \in {old, d}
    <3>1. CASE UNCHANGED storeVars
      BY <1>1, <3>1, StoreKept DEF TypeOK
    <3>2. CASE finishRun(s, r) /\ taskRun' = taskRun
      <4>1. dagRun' = [dagRun EXCEPT ![s][r] = d]
        BY <3>2 DEF finishRun
      <4> HIDE DEF d
      <4> QED
        BY <1>1, <2>4, <3>2, <4>1, DagRowSet DEF TypeOK
    <3> QED
      BY <1>4, <3>1, <3>2
  <2> HIDE DEF y, d
  <2>6. Written(x, DagRow(x), TaskRow(x)) => Written(y, dagRun'[s][r], taskRun'[s][r])
    <3>1. SUFFICES ASSUME Written(x, dagRun[s][r], taskRun[s][r])
                   PROVE  Written(y, dagRun'[s][r], taskRun[s][r])
      BY <2>5 DEF DagRow, TaskRow
    <3>2. y.pc = "done" /\ y.cron = x.cron /\ y.src = x.src /\ y.st = x.st /\ y.body = x.body
      BY <2>1 DEF Fields
    <3>3. dagRun[s][r] # NoRow /\ dagRun[s][r].source = IF x.cron THEN "cron" ELSE x.src
      BY <1>1, <3>1 DEF Written
    <3>4. dagRun'[s][r] # NoRow /\ dagRun'[s][r].source = dagRun[s][r].source
      BY <2>4, <2>5, <3>3
    <3>5. \A t \in Named(x.body) : taskRun[s][r][t] # NoRow
      BY <1>1, <3>1 DEF Written
    <3>6. \A t \in TaskId : taskRun[s][r][t] # NoRow =>
             t \in Named(x.body) /\ taskRun[s][r][t].status = x.st[t]
      BY <3>1 DEF Written
    <3> QED
      <4>1. \A t \in TaskId : taskRun[s][r][t] # NoRow =>
               t \in Named(y.body) /\ taskRun[s][r][t].status = y.st[t]
        BY <3>2, <3>6
      <4>2. \A t \in Named(y.body) : taskRun[s][r][t] # NoRow
        BY <3>2, <3>5
      <4>3. dagRun'[s][r].source = IF y.cron THEN "cron" ELSE y.src
        BY <3>2, <3>3, <3>4
      <4>4. \A t \in TaskId : y.st[t] = "Pending"
        BY <1>2, <3>2
      <4>5. y.pc = "done" /\ dagRun'[s][r] # NoRow
        BY <3>2, <3>4
      <4> QED
        BY <4>1, <4>2, <4>3, <4>4, <4>5 DEF Written
  <2>7. Fields(y, x, y.pc, y.k, y.cron, x.st, x.child) /\ ~y.cron
    BY <1>2, <2>1 DEF Fields
  <2> QED
    BY <1>1, <2>1, <2>2, <2>5, <2>6, <2>7, UnstartedMove DEF Unstarted
<1>5. CASE CheckTasks(e)
  BY <1>3, <1>4, <1>5 DEF CheckTasks
<1>6. CASE ParseTasks(e)
  BY <1>3, <1>4, <1>6 DEF ParseTasks
<1>7. CASE Validate(e)
  BY <1>3, <1>4, <1>7 DEF Validate
<1> QED
  BY <1>5, <1>6, <1>7

-----------------------------------------------------------------------------
(***************************************************************************)
(* The nodes of a run.  Reach(z, e, t): z is ex after changes to node t of *)
(* execution e, and perhaps with one more execution.                       *)
(***************************************************************************)
Reach(z, e, t) ==
    /\ z \in Seq(Exec) /\ e \in DOMAIN z /\ DOMAIN ex \subseteq DOMAIN z
    /\ \A f \in DOMAIN ex : f # e => z[f] = ex[f]
    /\ \A f \in DOMAIN z : f \notin DOMAIN ex => Fresh(z[f])
    /\ Fields(z[e], ex[e], ex[e].pc, ex[e].k, ex[e].cron, z[e].st, z[e].child)
    /\ \A u \in TaskId : u # t => z[e].st[u] = ex[e].st[u] /\ z[e].child[u] = ex[e].child[u]

LEMMA ReachSelf ==
    ASSUME TypeOK, NEW e \in DOMAIN ex, NEW t
    PROVE  Reach(ex, e, t)
BY ExecFacts DEF Reach, Fields, TypeOK

LEMMA ReachAdd ==
    ASSUME TypeOK, NEW e \in DOMAIN ex, NEW t, NEW x \in Exec, Fresh(x)
    PROVE  LET z == Append(ex, x) IN
           /\ Reach(z, e, t) /\ z[e] = ex[e]
           /\ Len(ex) + 1 \in DOMAIN z /\ z[Len(ex) + 1] = x /\ e # Len(ex) + 1
           /\ Len(ex) + 1 \in Nat /\ Len(ex) + 1 # 0
<1> DEFINE z == Append(ex, x)
<1>1. ex \in Seq(Exec)
  BY DEF TypeOK
<1>2. /\ z \in Seq(Exec) /\ DOMAIN z = 1 .. (Len(ex) + 1)
      /\ \A f \in DOMAIN ex : z[f] = ex[f]
      /\ z[Len(ex) + 1] = x
      /\ DOMAIN ex = 1 .. Len(ex) /\ Len(ex) \in Nat
  BY <1>1
<1> HIDE DEF z
<1>3. /\ \A f \in DOMAIN z : f \notin DOMAIN ex => f = Len(ex) + 1
      /\ e \in DOMAIN z /\ e # Len(ex) + 1
      /\ DOMAIN ex \subseteq DOMAIN z /\ Len(ex) + 1 \in DOMAIN z
      /\ Len(ex) + 1 \in Nat /\ Len(ex) + 1 # 0
  BY <1>2
<1>4. Reach(z, e, t)
  BY <1>2, <1>3, ExecFacts DEF Reach, Fields
<1> QED
  BY <1>2, <1>3, <1>4 DEF z

(* What an update of node t leaves as it was. *)
LEMMA ReachUpdate ==
    ASSUME NEW e \in DOMAIN ex, NEW t \in TaskId, NEW z, Reach(z, e, t), NEW y \in Exec,
           Fields(y, z[e], z[e].pc, z[e].k, z[e].cron, y.st, y.child),
           \A u \in TaskId : u # t => y.st[u] = z[e].st[u] /\ y.child[u] = z[e].child[u]
    PROVE  LET n == [z EXCEPT ![e] = y] IN
           /\ Reach(n, e, t) /\ n[e] = y /\ DOMAIN n = DOMAIN z
           /\ \A f \in DOMAIN z : f # e => n[f] = z[f]
<1> DEFINE n == [z EXCEPT ![e] = y]
<1>1. z \in Seq(Exec) /\ e \in DOMAIN z
  BY DEF Reach
<1>2. n \in Seq(Exec) /\ n[e] = y /\ DOMAIN n = DOMAIN z /\ \A f \in DOMAIN z : f # e => n[f] = z[f]
  BY <1>1, SeqUpdate
<1> HIDE DEF n
<1>3. Fields(n[e], ex[e], ex[e].pc, ex[e].k, ex[e].cron, n[e].st, n[e].child)
  BY <1>2 DEF Fields, Reach
<1>4. \A u \in TaskId : u # t => n[e].st[u] = ex[e].st[u] /\ n[e].child[u] = ex[e].child[u]
  BY <1>2 DEF Reach
<1>5. \A f \in DOMAIN ex : f # e => n[f] = ex[f]
  BY <1>2 DEF Reach
<1>6. \A f \in DOMAIN n : f \notin DOMAIN ex => Fresh(n[f])
  BY <1>2 DEF Reach
<1>7. Reach(n, e, t)
  BY <1>1, <1>2, <1>3, <1>4, <1>5, <1>6 DEF Reach
<1> QED
  BY <1>2, <1>7 DEF n

LEMMA ReachSt ==
    ASSUME NEW e \in DOMAIN ex, NEW t \in TaskId, NEW z, Reach(z, e, t), NEW v \in NodeStatus
    PROVE  LET n == [z EXCEPT ![e].st[t] = v] IN
           /\ Reach(n, e, t) /\ n[e].st[t] = v /\ n[e].child = z[e].child /\ DOMAIN n = DOMAIN z
           /\ \A f \in DOMAIN z : f # e => n[f] = z[f]
<1> DEFINE x == z[e]
           y == [x EXCEPT !.st[t] = v]
<1>1. x \in Exec
  BY DEF Reach
<1>2. Fields(y, x, x.pc, x.k, x.cron, [x.st EXCEPT ![t] = v], x.child)
  BY <1>1, StSet
<1>3. [z EXCEPT ![e].st[t] = v] = [z EXCEPT ![e] = y]
  OBVIOUS
<1>4. x.st \in [TaskId -> NodeStatus]
  BY <1>1 DEF Exec
<1> HIDE DEF x, y
<1>5. /\ y \in Exec /\ Fields(y, x, x.pc, x.k, x.cron, y.st, y.child)
      /\ y.st[t] = v /\ y.child = x.child
      /\ \A u \in TaskId : u # t => y.st[u] = x.st[u] /\ y.child[u] = x.child[u]
  BY <1>2, <1>4 DEF Fields
<1> DEFINE n == [z EXCEPT ![e] = y]
<1>6. x = z[e]
  BY DEF x
<1>7. /\ Reach(n, e, t) /\ n[e] = y /\ DOMAIN n = DOMAIN z
      /\ \A f \in DOMAIN z : f # e => n[f] = z[f]
  BY <1>5, <1>6, ReachUpdate
<1> HIDE DEF n
<1>8. [z EXCEPT ![e].st[t] = v] = n
  BY <1>3 DEF n
<1> QED
  BY <1>5, <1>6, <1>7, <1>8

LEMMA ReachChild ==
    ASSUME NEW e \in DOMAIN ex, NEW t \in TaskId, NEW z, Reach(z, e, t), NEW c \in Nat
    PROVE  LET n == [z EXCEPT ![e].child[t] = c] IN
           /\ Reach(n, e, t) /\ n[e].child[t] = c /\ n[e].st = z[e].st /\ DOMAIN n = DOMAIN z
           /\ \A f \in DOMAIN z : f # e => n[f] = z[f]
<1> DEFINE x == z[e]
           y == [x EXCEPT !.child[t] = c]
<1>1. x \in Exec
  BY DEF Reach
<1>2. Fields(y, x, x.pc, x.k, x.cron, x.st, [x.child EXCEPT ![t] = c])
  BY <1>1, ChildSet
<1>3. [z EXCEPT ![e].child[t] = c] = [z EXCEPT ![e] = y]
  OBVIOUS
<1>4. x.child \in [TaskId -> Nat]
  BY <1>1 DEF Exec
<1> HIDE DEF x, y
<1>5. /\ y \in Exec /\ Fields(y, x, x.pc, x.k, x.cron, y.st, y.child)
      /\ y.child[t] = c /\ y.st = x.st
      /\ \A u \in TaskId : u # t => y.st[u] = x.st[u] /\ y.child[u] = x.child[u]
  BY <1>2, <1>4 DEF Fields
<1> DEFINE n == [z EXCEPT ![e] = y]
<1>6. x = z[e]
  BY DEF x
<1>7. /\ Reach(n, e, t) /\ n[e] = y /\ DOMAIN n = DOMAIN z
      /\ \A f \in DOMAIN z : f # e => n[f] = z[f]
  BY <1>5, <1>6, ReachUpdate
<1> HIDE DEF n
<1>8. [z EXCEPT ![e].child[t] = c] = n
  BY <1>3 DEF n
<1> QED
  BY <1>5, <1>6, <1>7, <1>8

LEMMA ReachTries ==
    ASSUME NEW e \in DOMAIN ex, NEW t \in TaskId, NEW z, Reach(z, e, t)
    PROVE  LET n == [z EXCEPT ![e].tries[t] = @ + 1] IN
           /\ Reach(n, e, t) /\ n[e].child = z[e].child /\ n[e].st = z[e].st /\ DOMAIN n = DOMAIN z
           /\ \A f \in DOMAIN z : f # e => n[f] = z[f]
<1> DEFINE x == z[e]
           y == [x EXCEPT !.tries[t] = @ + 1]
<1>1. x \in Exec
  BY DEF Reach
<1>2. Fields(y, x, x.pc, x.k, x.cron, x.st, x.child)
  BY <1>1, TriesSet
<1>3. [z EXCEPT ![e].tries[t] = @ + 1] = [z EXCEPT ![e] = y]
  OBVIOUS
<1> HIDE DEF x, y
<1>5. /\ y \in Exec /\ Fields(y, x, x.pc, x.k, x.cron, y.st, y.child)
      /\ y.child = x.child /\ y.st = x.st
      /\ \A u \in TaskId : u # t => y.st[u] = x.st[u] /\ y.child[u] = x.child[u]
  BY <1>2 DEF Fields
<1> DEFINE n == [z EXCEPT ![e] = y]
<1>6. x = z[e]
  BY DEF x
<1>7. /\ Reach(n, e, t) /\ n[e] = y /\ DOMAIN n = DOMAIN z
      /\ \A f \in DOMAIN z : f # e => n[f] = z[f]
  BY <1>5, <1>6, ReachUpdate
<1> HIDE DEF n
<1>8. [z EXCEPT ![e].tries[t] = @ + 1] = n
  BY <1>3 DEF n
<1> QED
  BY <1>5, <1>6, <1>7, <1>8

(* The row of a node is written. *)
Marks(s, r, t, w) == SetsRow(s, r, t, IF taskRun[s][r][t] = NoRow THEN NoRow ELSE w)

LEMMA Marked ==
    ASSUME StoreTypeOK, NEW s \in Server, NEW r \in RunId, NEW t \in TaskId, NEW w,
           taskRun[s][r][t] # NoRow => w \in TaskRunRow,
           Marks(s, r, t, w)
    PROVE  /\ StoreTypeOK' /\ RowsOnly(s, r)
           /\ dagRun'[s][r] = dagRun[s][r]
           /\ \A u \in TaskId : u # t => taskRun'[s][r][u] = taskRun[s][r][u]
           /\ taskRun'[s][r][t] = NoRow <=> taskRun[s][r][t] = NoRow
           /\ taskRun[s][r][t] # NoRow => taskRun'[s][r][t] = w
<1> DEFINE v == IF taskRun[s][r][t] = NoRow THEN NoRow ELSE w
<1>1. v \in TaskRunRow \cup {NoRow} /\ SetsRow(s, r, t, v)
  BY DEF Marks
<1>2. taskRun[s][r][t] # NoRow => w # NoRow
  BY RowAssumption
<1> HIDE DEF v
<1>3. /\ StoreTypeOK' /\ RowsOnly(s, r)
      /\ dagRun'[s][r] = dagRun[s][r]
      /\ taskRun'[s][r][t] = v /\ \A u \in TaskId : u # t => taskRun'[s][r][u] = taskRun[s][r][u]
  BY <1>1, TaskRowSet
<1> QED
  BY <1>2, <1>3 DEF v

(* A row w that leads to the nested run c at c's place after the step. *)
Joins(w, s, c) == \/ w.next = NoId /\ ex'[c].pc = "thrown"
                  \/ /\ w.next = ex'[c].rid
                     /\ IF w.worker = NoId THEN ex'[c].at = s ELSE w.worker = ex'[c].at

LEMMA NodeStep == \A e \in DOMAIN ex : \A t \in TasksOf(e) : \A w :
    (/\ IInv /\ ex[e].pc = "run" /\ Reach(ex', e, t)
     /\ taskRun[ex[e].at][ex[e].rid][t] # NoRow => w \in TaskRunRow /\ w.status = ex'[e].st[t]
     /\ Marks(ex[e].at, ex[e].rid, t, w)
     /\ ex'[e].child[t] # 0 =>
          /\ ex'[e].child[t] \in DOMAIN ex' /\ ex'[e].st[t] \notin {"Pending", "Skipped", "Running"}
          /\ Joins(w, ex[e].at, ex'[e].child[t]))
    => IInv'
<1> TAKE e \in DOMAIN ex
<1> TAKE t \in TasksOf(e)
<1> TAKE w
<1>1. SUFFICES ASSUME IInv, ex[e].pc = "run", Reach(ex', e, t),
                      taskRun[ex[e].at][ex[e].rid][t] # NoRow => w \in TaskRunRow /\ w.status = ex'[e].st[t],
                      Marks(ex[e].at, ex[e].rid, t, w),
                      ex'[e].child[t] # 0 =>
                          /\ ex'[e].child[t] \in DOMAIN ex' /\ ex'[e].st[t] \notin {"Pending", "Skipped", "Running"}
                          /\ Joins(w, ex[e].at, ex'[e].child[t])
               PROVE  IInv'
  OBVIOUS
<1> DEFINE s == ex[e].at  r == ex[e].rid
<1>2. TypeOK /\ StoreTypeOK /\ s \in Server /\ r \in RunId /\ t \in TaskId
  BY <1>1, ExecFacts, TaskFacts DEF IInv, TypeOK
<1>3. /\ StoreTypeOK' /\ RowsOnly(s, r)
      /\ dagRun'[s][r] = dagRun[s][r]
      /\ \A u \in TaskId : u # t => taskRun'[s][r][u] = taskRun[s][r][u]
      /\ taskRun'[s][r][t] = NoRow <=> taskRun[s][r][t] = NoRow
      /\ taskRun[s][r][t] # NoRow => taskRun'[s][r][t] = w
  BY <1>1, <1>2, Marked
<1>4. /\ Grows(e) /\ ex' \in Seq(Exec)
      /\ Fields(ex'[e], ex[e], "run", ex[e].k, ex[e].cron, ex'[e].st, ex'[e].child)
      /\ \A u \in TaskId : u # t => ex'[e].st[u] = ex[e].st[u] /\ ex'[e].child[u] = ex[e].child[u]
  BY <1>1 DEF Reach, Grows, Same, Fields
<1>5. ChildOf(e, t)'
  <2>1. TaskRow(ex[e])'[t] = taskRun'[s][r][t] /\ ex'[e].at = s
    BY <1>4 DEF TaskRow, Fields
  <2>2. TaskRow(ex[e])'[t] = NoRow \/ TaskRow(ex[e])'[t] = w
    BY <1>3, <2>1
  <2> QED
    BY <1>1, <2>1, <2>2 DEF ChildOf, LeadsTo, Joins
<1> QED
  BY <1>1, <1>3, <1>4, <1>5, NodeMove

(* A step that writes no row and leaves the status of the node as it was. *)
LEMMA QuietStep == \A e \in DOMAIN ex : \A t \in TasksOf(e) :
    (/\ IInv /\ ex[e].pc = "run" /\ Reach(ex', e, t) /\ UNCHANGED storeVars
     /\ ex'[e].st[t] = ex[e].st[t]
     /\ ChildOf(e, t)')
    => IInv'
<1> TAKE e \in DOMAIN ex
<1> TAKE t \in TasksOf(e)
<1>1. SUFFICES ASSUME IInv, ex[e].pc = "run", Reach(ex', e, t), UNCHANGED storeVars,
                      ex'[e].st[t] = ex[e].st[t], ChildOf(e, t)'
               PROVE  IInv'
  OBVIOUS
<1> DEFINE s == ex[e].at  r == ex[e].rid
<1>2. StoreTypeOK
  BY <1>1 DEF IInv, TypeOK
<1>3. StoreTypeOK' /\ RowsOnly(s, r) /\ dagRun'[s][r] = dagRun[s][r] /\ taskRun'[s][r] = taskRun[s][r]
  BY <1>1, <1>2, StoreKept
<1>4. /\ Grows(e) /\ ex' \in Seq(Exec)
      /\ Fields(ex'[e], ex[e], "run", ex[e].k, ex[e].cron, ex'[e].st, ex'[e].child)
      /\ \A u \in TaskId : u # t => ex'[e].st[u] = ex[e].st[u] /\ ex'[e].child[u] = ex[e].child[u]
  BY <1>1 DEF Reach, Grows, Same, Fields
<1> QED
  BY <1>1, <1>3, <1>4, NodeMove

(* What a node knows before its step. *)
LEMMA NodeFacts ==
    ASSUME IInv, NEW e \in DOMAIN ex, NEW t \in TasksOf(e)
    PROVE  /\ TypeOK /\ t \in TaskId /\ ex[e].at \in Server /\ ex[e].rid \in RunId
           /\ taskRun[ex[e].at][ex[e].rid][t] # NoRow => taskRun[ex[e].at][ex[e].rid][t] \in TaskRunRow
           /\ ex[e].child[t] # 0 =>
                /\ ex[e].child[t] \in DOMAIN ex /\ ex[e].st[t] \notin {"Pending", "Skipped"}
                /\ ex[e].st[t] = "Running" =>
                     Task(e, t).kind \in {"dag", "template"} /\ ex[ex[e].child[t]].at = ex[e].at
<1>1. TypeOK /\ t \in TaskId /\ ex[e].at \in Server /\ ex[e].rid \in RunId
  BY ExecFacts, TaskFacts DEF IInv
<1>2. taskRun[ex[e].at][ex[e].rid][t] # NoRow => taskRun[ex[e].at][ex[e].rid][t] \in TaskRunRow
  BY <1>1 DEF TypeOK, StoreTypeOK
<1>3. ChildOf(e, t)
  BY <1>1 DEF IInv, ChildInv
<1> QED
  BY <1>1, <1>2, <1>3 DEF ChildOf

(* The status of a row is rewritten, and its other columns are kept. *)
LEMMA StartOrSkipKeeps ==
    ASSUME IInv, NEW e \in DOMAIN ex, NEW t \in TasksOf(e), StartNode(e, t) \/ SkipNode(e, t)
    PROVE  IInv'
<1> DEFINE s == ex[e].at  r == ex[e].rid  old == taskRun[s][r][t]
<1>1. PICK v \in {"Running", "Skipped"} :
        /\ ex' = [ex EXCEPT ![e].st[t] = v] /\ dagRun' = dagRun
        /\ taskRun' = [taskRun EXCEPT ![s][r][t] = IF @ = NoRow THEN NoRow ELSE [@ EXCEPT !.status = v]]
  BY DEF StartNode, SkipNode, markRunning, markSkipped
<1>2. ex[e].pc = "run" /\ ex[e].st[t] = "Pending"
  BY DEF StartNode, SkipNode, At
<1>3. ex[e].child[t] = 0
  BY <1>2, NodeFacts
<1>4. TypeOK /\ t \in TaskId
  BY NodeFacts
<1>5. Reach(ex, e, t) /\ v \in NodeStatus
  BY <1>4, ReachSelf DEF NodeStatus
<1>6. Reach(ex', e, t) /\ ex'[e].st[t] = v /\ ex'[e].child = ex[e].child
  <2> DEFINE n == [ex EXCEPT ![e].st[t] = v]
  <2>1. Reach(n, e, t) /\ n[e].st[t] = v /\ n[e].child = ex[e].child
    <3>1. \A X : Reach(X, e, t) => LET m == [X EXCEPT ![e].st[t] = v]
                                   IN  Reach(m, e, t) /\ m[e].st[t] = v /\ m[e].child = X[e].child
      BY <1>4, <1>5, ReachSt
    <3> QED
      BY <1>5, <3>1
  <2>2. ex' = n
    BY <1>1
  <2> HIDE DEF n
  <2> QED
    BY <2>1, <2>2
<1> DEFINE w == [old EXCEPT !.status = v]
<1>7. old # NoRow => w \in TaskRunRow /\ w.status = ex'[e].st[t]
  <2>1. old # NoRow => old \in TaskRunRow
    BY NodeFacts
  <2>2. v \in RowStatus
    BY DEF RowStatus
  <2> HIDE DEF old
  <2>3. old # NoRow => w \in TaskRunRow /\ w.status = v
    BY <2>1, <2>2 DEF TaskRunRow
  <2> QED
    BY <1>6, <2>3
<1>8. Marks(s, r, t, w)
  BY <1>1 DEF Marks, SetsRow
<1> HIDE DEF w
<1> QED
  BY <1>2, <1>3, <1>6, <1>7, <1>8, NodeStep

(* A node ends; X is ex, or what a repeated dispatch has made of it. *)
LEMMA FinishKeeps == \A e \in DOMAIN ex : \A t \in TasksOf(e) :
    \A st \in {"Success", "Failed"}, next \in RunId \cup {NoId}, worker \in Server \cup {NoId} : \A X :
    (/\ IInv /\ ex[e].pc = "run" /\ Reach(X, e, t)
     /\ FinishNode(e, t, st, next, worker, X)
     /\ X[e].child[t] # 0 =>
          /\ X[e].child[t] \in DOMAIN X
          /\ Joins([status |-> st, next |-> next, worker |-> worker], ex[e].at, X[e].child[t]))
    => IInv'
<1> TAKE e \in DOMAIN ex
<1> TAKE t \in TasksOf(e)
<1> TAKE st \in {"Success", "Failed"}, next \in RunId \cup {NoId}, worker \in Server \cup {NoId}
<1> TAKE X
<1> DEFINE w == [status |-> st, next |-> next, worker |-> worker]
<1>1. SUFFICES ASSUME IInv, ex[e].pc = "run", Reach(X, e, t), FinishNode(e, t, st, next, worker, X),
                      X[e].child[t] # 0 => X[e].child[t] \in DOMAIN X /\ Joins(w, ex[e].at, X[e].child[t])
               PROVE  IInv'
  OBVIOUS
<1>2. t \in TaskId /\ st \in NodeStatus
  BY <1>1, NodeFacts DEF NodeStatus
<1>3. ex' = [X EXCEPT ![e].st[t] = st]
  BY <1>1 DEF FinishNode
<1>4. Reach(ex', e, t) /\ ex'[e].st[t] = st /\ ex'[e].child = X[e].child /\ DOMAIN ex' = DOMAIN X
  <2> DEFINE n == [X EXCEPT ![e].st[t] = st]
  <2>1. Reach(n, e, t) /\ n[e].st[t] = st /\ n[e].child = X[e].child /\ DOMAIN n = DOMAIN X
    BY <1>1, <1>2, ReachSt
  <2>2. ex' = n
    BY <1>3
  <2> HIDE DEF n
  <2> QED
    BY <2>1, <2>2
<1>5. w \in TaskRunRow /\ w.status = st
  BY DEF TaskRunRow, RowStatus
<1>6. Marks(ex[e].at, ex[e].rid, t, w)
  BY <1>1 DEF FinishNode, markFinished, Marks, SetsRow
<1> HIDE DEF w
<1>7. ex'[e].child[t] # 0 =>
          /\ ex'[e].child[t] \in DOMAIN ex' /\ ex'[e].st[t] \notin {"Pending", "Skipped", "Running"}
          /\ Joins(w, ex[e].at, ex'[e].child[t])
  BY <1>1, <1>4
<1> QED
  BY <1>1, <1>4, <1>5, <1>6, <1>7, NodeStep

(* Nodes that end with nothing nested in them. *)
LEMMA PlainFinishKeeps ==
    ASSUME IInv, NEW e \in DOMAIN ex, NEW t \in TasksOf(e), NEW st \in {"Success", "Failed"},
           FinishLeaf(e, t, st) \/ DagRefused(e, t) \/ TemplateRefused(e, t) \/ RemoteRefused(e, t)
    PROVE  IInv'
<1>1. /\ ex[e].pc = "run" /\ ex[e].st[t] = "Running"
      /\ \E v \in {"Success", "Failed"} : FinishNode(e, t, v, NoId, NoId, ex)
      /\ Task(e, t).kind \in {"leaf", "remote"} \/ ex[e].child[t] = 0
  BY DEF FinishLeaf, DagRefused, TemplateRefused, RemoteRefused, Nested, Remote, At
<1>2. ex[e].child[t] = 0 /\ TypeOK
  BY <1>1, NodeFacts
<1>3. Reach(ex, e, t)
  BY <1>2, ReachSelf
<1> QED
  BY <1>1, <1>2, <1>3, FinishKeeps

(* A node takes the verdict and the id of its nested run. *)
LEMMA NestEndKeeps ==
    ASSUME IInv, NEW e \in DOMAIN ex, NEW t \in TasksOf(e), NestEnd(e, t)
    PROVE  IInv'
<1> DEFINE c == ex[e].child[t]
           st == IF ex[c].ok THEN "Success" ELSE "Failed"
           next == IF ex[c].pc = "thrown" THEN NoId ELSE ex[c].rid
           w == [status |-> st, next |-> next, worker |-> NoId]
<1>1. /\ ex[e].pc = "run" /\ ex[e].st[t] = "Running" /\ c # 0
      /\ FinishNode(e, t, st, next, NoId, ex)
  BY DEF NestEnd, NestReady, At
<1>2. TypeOK /\ t \in TaskId /\ c \in DOMAIN ex /\ ex[c].at = ex[e].at
  BY <1>1, NodeFacts
<1>3. Reach(ex, e, t) /\ st \in NodeStatus /\ ex[c].rid \in RunId
  BY <1>2, ReachSelf, ExecFacts DEF NodeStatus
<1>4. ex' = [ex EXCEPT ![e].st[t] = st]
  BY <1>1 DEF FinishNode
<1> HIDE DEF st, c
<1>5. Reach(ex', e, t)
  BY <1>2, <1>3, <1>4, ReachSt
<1>6. ex'[c].at = ex[c].at /\ ex'[c].rid = ex[c].rid /\ ex'[c].pc = ex[c].pc
  BY <1>2, <1>5 DEF Reach, Fields
<1>7. Joins(w, ex[e].at, c)
  BY <1>2, <1>6 DEF Joins
<1>8. st \in {"Success", "Failed"} /\ next \in RunId \cup {NoId} /\ ex[e].child[t] = c
  BY <1>3 DEF st, c
<1> HIDE DEF next
<1> QED
  BY <1>1, <1>2, <1>3, <1>7, <1>8, FinishKeeps

(* A nested run is started on the server of its node. *)
LEMMA NestRunKeeps == \A e \in DOMAIN ex : \A t \in TasksOf(e) :
    \A b \in Body, src \in Source, pc \in {"insert", "refused"} :
    (/\ IInv /\ ex[e].pc = "run" /\ ex[e].st[t] = "Running" /\ Task(e, t).kind \in {"dag", "template"}
     /\ NodeDepth(e) < MaxDepth
     /\ NestRun(e, t, b, src, pc))
    => IInv'
<1> TAKE e \in DOMAIN ex
<1> TAKE t \in TasksOf(e)
<1> TAKE b \in Body, src \in Source, pc \in {"insert", "refused"}
<1>1. SUFFICES ASSUME IInv, ex[e].pc = "run", ex[e].st[t] = "Running",
                      Task(e, t).kind \in {"dag", "template"}, NodeDepth(e) < MaxDepth,
                      NestRun(e, t, b, src, pc)
               PROVE  IInv'
  OBVIOUS
<1> DEFINE s == ex[e].at  rid == Task(e, t).rid  n == ex[e].depth + 1  m == ex[e].level + 1
           o == ex[e].entry
           x == Execution(s, rid, b, src, n, o, m, "pool")
           y == [x EXCEPT !.pc = pc]
           z == Append(ex, y)
           c == Len(ex) + 1
           X == [z EXCEPT ![e].child[t] = c]
<1>2. TypeOK /\ t \in TaskId /\ s \in Server /\ rid \in RunId \cup {NoId}
  BY <1>1, NodeFacts, TaskFacts
<1>3. n \in Int /\ o \in Int /\ m \in Nat /\ n < MaxDepth /\ n = o + m /\ "pool" \in Thread
  <2>1. LocalInv(ex[e]) /\ ex[e].depth \in Int /\ o \in Int /\ ex[e].level \in Nat
    BY <1>1, <1>2, ExecFacts DEF IInv
  <2> QED
    BY <1>1, <2>1 DEF NodeDepth, LocalInv, Thread
<1>4. /\ ex' = X /\ UNCHANGED storeVars /\ x.rid \in RunId
  BY <1>1 DEF NestRun, NestedId, NodeDepth, HasId
<1>5. x.rid = GivenOrNew(rid)
  BY DEF Execution
<1>6. y \in Exec /\ Fresh(y) /\ y.at = s
  <2>1. GivenOrNew(rid) \in RunId
    BY <1>4, <1>5
  <2>2. x \in Exec /\ Fresh(x) /\ x.at = s /\ ~x.cron
    <3> HIDE DEF s, rid, n, o, m
    <3> QED
      BY <1>2, <1>3, <2>1, NewExecution
  <2> HIDE DEF x
  <2> QED
    BY <2>2, FreshSet
<1> HIDE DEF x, y
<1>7. /\ Reach(z, e, t) /\ z[e] = ex[e] /\ c \in DOMAIN z /\ z[c] = y /\ e # c /\ c \in Nat /\ c # 0
  BY <1>2, <1>6, ReachAdd
<1> HIDE DEF z, c
<1>8. /\ Reach(X, e, t) /\ X[e].child[t] = c /\ X[e].st = z[e].st /\ DOMAIN X = DOMAIN z
      /\ \A f \in DOMAIN z : f # e => X[f] = z[f]
  BY <1>2, <1>7, ReachChild
<1> HIDE DEF X
<1>9. ex'[e].st[t] = "Running" /\ ex'[e].child[t] = c /\ c \in DOMAIN ex' /\ ex'[c].at = ex[e].at
  BY <1>1, <1>4, <1>6, <1>7, <1>8
<1>10. Task(e, t)' = Task(e, t) /\ ex'[e].at = ex[e].at
  <2>1. ex'[e].body = ex[e].body /\ ex'[e].at = ex[e].at
    BY <1>4, <1>8 DEF Reach, Fields
  <2> QED
    BY <2>1 DEF Task, Tasks
<1>11. ChildOf(e, t)'
  BY <1>1, <1>9, <1>10 DEF ChildOf
<1> QED
  BY <1>1, <1>4, <1>8, <1>9, <1>11, QuietStep

LEMMA NestKeeps ==
    ASSUME IInv, NEW e \in DOMAIN ex, NEW t \in TasksOf(e), DagExecute(e, t) \/ TemplateExecute(e, t)
    PROVE  IInv'
<1>1. /\ ex[e].pc = "run" /\ ex[e].st[t] = "Running" /\ Task(e, t).kind \in {"dag", "template"}
      /\ NodeDepth(e) < MaxDepth
  BY DEF DagExecute, TemplateExecute, Nested, At
<1>2. Task(e, t).sub \in Body \cup {NoBody} /\ ex[e].body \in Body
  BY TaskFacts, ExecFacts DEF IInv
<1>3. "execution" \in Source /\ "task_template" \in Source
  BY SourceAssumption
<1>4. CASE DagExecute(e, t)
  <2>1. CASE Task(e, t).sub = NoBody
    <3>1. NestRun(e, t, ex[e].body, "execution", "refused")
      BY <1>4, <2>1 DEF DagExecute, extractDagBody
    <3> QED
      BY <1>1, <1>2, <1>3, <3>1, NestRunKeeps
  <2>2. CASE Task(e, t).sub # NoBody
    <3>1. NestRun(e, t, Task(e, t).sub, "execution", "insert") /\ Task(e, t).sub \in Body
      BY <1>2, <1>4, <2>2 DEF DagExecute, extractDagBody
    <3> QED
      BY <1>1, <1>3, <3>1, NestRunKeeps
  <2> QED
    BY <2>1, <2>2
<1>5. CASE TemplateExecute(e, t)
  <2>1. NestRun(e, t, Task(e, t).sub, "task_template", "insert") /\ Task(e, t).sub \in Body
    BY <1>2, <1>5 DEF TemplateExecute, Rendered
  <2> QED
    BY <1>1, <1>3, <2>1, NestRunKeeps
<1> QED
  BY <1>4, <1>5

(* A sub-DAG that a worker has taken. *)
LEMMA TakenFacts ==
    ASSUME TypeOK, NEW e \in DOMAIN ex, NEW t \in TasksOf(e), NEW w \in WorkersOf[ex[e].at],
           Task(e, t).sub # NoBody
    PROVE  LET x == worker_execute(w, PayloadId(e, t), Task(e, t).sub)
           IN  /\ x \in Exec /\ Fresh(x) /\ x.at = w /\ x.rid = PayloadId(e, t)
               /\ PayloadId(e, t) \in RunId /\ w \in Server /\ w # NoId
<1>1. Task(e, t).rid \in RunId \cup {NoId} /\ Task(e, t).sub \in Body /\ ex[e].rid \in RunId /\ w \in Server
  BY TaskFacts, ExecFacts, ServerAssumption
<1>2. PayloadId(e, t) \in RunId /\ PayloadId(e, t) # NoId /\ w # NoId
  BY <1>1, NoIdAssumption DEF PayloadId
<1> DEFINE p == PayloadId(e, t)  b == Task(e, t).sub
<1>3. GivenOrNew(p) = p /\ GivenOrNew(p) \in RunId
  BY <1>2 DEF GivenOrNew
<1>4. "worker" \in Source /\ "pool" \in Thread
  BY SourceAssumption DEF Thread
<1>5. b \in Body /\ p \in RunId \cup {NoId} /\ w \in Server
  BY <1>1, <1>2
<1> HIDE DEF p, b
<1>6. LET x == Entry(w, p, b, "worker", "pool")
      IN  x \in Exec /\ Fresh(x) /\ x.at = w /\ x.rid = p
  BY <1>3, <1>4, <1>5, NewEntry
<1> QED
  BY <1>1, <1>2, <1>6 DEF worker_execute, p, b

LEMMA RemoteAckKeeps ==
    ASSUME IInv, NEW e \in DOMAIN ex, NEW t \in TasksOf(e), NEW w \in WorkersOf[ex[e].at],
           RemoteAck(e, t, w)
    PROVE  IInv'
<1> DEFINE p == PayloadId(e, t)
           x == worker_execute(w, p, Task(e, t).sub)
           z == Append(ex, x)
           c == Len(ex) + 1
           X == [z EXCEPT ![e].child[t] = c]
<1>1. /\ ex[e].pc = "run" /\ Task(e, t).sub # NoBody
      /\ FinishNode(e, t, "Success", p, w, X)
  BY DEF RemoteAck, Remote, At
<1>2. TypeOK /\ t \in TaskId
  BY NodeFacts
<1>3. x \in Exec /\ Fresh(x) /\ x.at = w /\ x.rid = p /\ p \in RunId /\ w \in Server /\ w # NoId
  BY <1>1, <1>2, TakenFacts
<1> HIDE DEF x, p
<1>4. /\ Reach(z, e, t) /\ z[e] = ex[e] /\ c \in DOMAIN z /\ z[c] = x /\ e # c /\ c \in Nat /\ c # 0
  BY <1>2, <1>3, ReachAdd
<1> HIDE DEF z, c
<1>5. /\ Reach(X, e, t) /\ X[e].child[t] = c /\ DOMAIN X = DOMAIN z
      /\ \A f \in DOMAIN z : f # e => X[f] = z[f]
  BY <1>2, <1>4, ReachChild
<1>6. ex' = [X EXCEPT ![e].st[t] = "Success"]
  BY <1>1 DEF FinishNode
<1> HIDE DEF X
<1>7. ex'[c] = X[c]
  <2>1. \A f \in DOMAIN X : f # e => [X EXCEPT ![e].st[t] = "Success"][f] = X[f]
    BY <1>5 DEF Reach
  <2> QED
    BY <1>4, <1>5, <1>6, <2>1
<1>8. ex'[c].at = w /\ ex'[c].rid = p
  BY <1>3, <1>4, <1>5, <1>7
<1>9. Joins([status |-> "Success", next |-> p, worker |-> w], ex[e].at, c)
  BY <1>3, <1>8 DEF Joins
<1> QED
  BY <1>1, <1>3, <1>4, <1>5, <1>9, FinishKeeps

LEMMA RemoteSilentKeeps ==
    ASSUME IInv, NEW e \in DOMAIN ex, NEW t \in TasksOf(e), NEW w \in WorkersOf[ex[e].at],
           NEW taken \in BOOLEAN, RemoteSilent(e, t, w, taken)
    PROVE  IInv'
<1> DEFINE x == worker_execute(w, PayloadId(e, t), Task(e, t).sub)
           z == IF taken THEN Append(ex, x) ELSE ex
           X == [z EXCEPT ![e].tries[t] = @ + 1]
<1>1. /\ ex[e].pc = "run" /\ ex[e].st[t] = "Running" /\ Task(e, t).sub # NoBody
      /\ Task(e, t).kind = "remote"
      /\ FinishNode(e, t, "Failed", NoId, w, X) \/ (ex' = X /\ UNCHANGED storeVars)
  BY DEF RemoteSilent, Remote, At
<1>2. TypeOK /\ t \in TaskId /\ ex[e].child[t] = 0
  BY <1>1, NodeFacts
<1>3. x \in Exec /\ Fresh(x) /\ w \in Server
  BY <1>1, <1>2, TakenFacts
<1> HIDE DEF x
<1>4. Reach(z, e, t) /\ z[e] = ex[e]
  <2>1. CASE taken
    BY <1>2, <1>3, <2>1, ReachAdd
  <2>2. CASE ~taken
    BY <1>2, <2>2, ReachSelf
  <2> QED
    BY <2>1, <2>2
<1> HIDE DEF z
<1>5. /\ Reach(X, e, t) /\ X[e].child = z[e].child /\ X[e].st = z[e].st
  BY <1>2, <1>4, ReachTries
<1> HIDE DEF X
<1>6. X[e].child[t] = 0 /\ X[e].st[t] = ex[e].st[t]
  BY <1>2, <1>4, <1>5
<1>7. CASE FinishNode(e, t, "Failed", NoId, w, X)
  BY <1>1, <1>3, <1>5, <1>6, <1>7, FinishKeeps
<1>8. CASE ex' = X /\ UNCHANGED storeVars
  <2>1. ChildOf(e, t)'
    BY <1>6, <1>8 DEF ChildOf
  <2> QED
    BY <1>1, <1>5, <1>6, <1>8, <2>1, QuietStep
<1> QED
  BY <1>1, <1>7, <1>8

(* The executor returns, or has missed its last notification: nothing is   *)
(* running.                                                                *)
LEMMA RunLeft == \A e \in DOMAIN ex : \A y \in Exec :
    (/\ IInv /\ ex[e].pc = "run" /\ NodesIn(e, {"Running"}) = {} /\ UNCHANGED storeVars
     /\ y.pc \in {"done", "waiting"}
     /\ Fields(y, ex[e], y.pc, ex[e].k, ex[e].cron, ex[e].st, ex[e].child)
     /\ ex' = [ex EXCEPT ![e] = y])
    => IInv'
<1> TAKE e \in DOMAIN ex
<1> TAKE y \in Exec
<1> DEFINE x == ex[e]
           s == x.at  r == x.rid
<1>1. SUFFICES ASSUME IInv, x.pc = "run", NodesIn(e, {"Running"}) = {}, UNCHANGED storeVars,
                      y.pc \in {"done", "waiting"}, Fields(y, x, y.pc, x.k, x.cron, x.st, x.child),
                      ex' = [ex EXCEPT ![e] = y]
               PROVE  IInv'
  OBVIOUS
<1>2. /\ TypeOK /\ x \in Exec /\ s \in Server /\ r \in RunId /\ LocalInv(x)
  BY <1>1, ExecFacts DEF IInv
<1>4. StoreTypeOK' /\ RowsOnly(s, r) /\ dagRun'[s][r] = dagRun[s][r] /\ taskRun'[s][r] = taskRun[s][r]
  BY <1>1, <1>2, StoreKept DEF TypeOK
<1>5. Same(x, y)
  BY <1>1 DEF Same, Fields
<1>6. Grows(e) /\ ex'[e] = y /\ ex' \in Seq(Exec)
  BY <1>1, <1>2, <1>5, Moves
<1>7. StepOf(e)
  BY <1>4, <1>6 DEF StepOf, TypeOK, OnlyRowsOf, RowsOnly
<1>8. LocalInv(ex'[e])
  <2>1. \A t \in Named(x.body) : x.st[t] # "Running"
    BY <1>1 DEF NodesIn, TasksOf
  <2> QED
    BY <1>1, <1>2, <1>6, <2>1 DEF LocalInv, Fields, Unstarted
<1>9. DagRow(ex[e])' = dagRun[s][r] /\ TaskRow(ex[e])' = taskRun[s][r]
      /\ DagRow(ex[e]) = dagRun[s][r] /\ TaskRow(ex[e]) = taskRun[s][r]
  BY <1>4, <1>5, <1>6 DEF DagRow, TaskRow, Same
<1>10. RowsInv(e)'
  <2>1. SUFFICES ASSUME ~Shared(e)' PROVE Written(y, dagRun[s][r], taskRun[s][r])
    BY <1>6, <1>9 DEF RowsInv, Written
  <2>2. Written(x, dagRun[s][r], taskRun[s][r])
    BY <1>1, <1>6, <1>9, <2>1, SharedGrows DEF IInv, RowsInv
  <2> QED
    BY <1>1, <2>2 DEF Written, Fields
<1>11. ChildInv(e)'
  <2>1. SUFFICES ASSUME NEW t \in TaskId PROVE ChildOf(e, t)'
    BY DEF ChildInv
  <2>2. ChildOf(e, t)
    BY <1>1 DEF IInv, ChildInv
  <2>3. ex'[e].st[t] = ex[e].st[t] /\ ex'[e].child[t] = ex[e].child[t]
    BY <1>1, <1>6 DEF Fields
  <2> QED
    BY <1>6, <1>9, <2>2, <2>3, NodeKept
<1> QED
  BY <1>1, <1>7, <1>8, <1>10, <1>11, FrameKeeps

LEMMA ReturnRunKeeps ==
    ASSUME IInv, NEW e \in DOMAIN ex, ReturnRun(e)
    PROVE  IInv'
<1> DEFINE x == ex[e]
           ok == NodesIn(e, {"Failed"}) = {}
           y == [ex[e] EXCEPT !.pc = "done", !.ok = ok]
<1>1. x \in Exec /\ x.pc = "run" /\ NodesIn(e, {"Running"}) = {} /\ UNCHANGED storeVars
  BY ExecFacts DEF ReturnRun, At, IInv
<1>2. Fields(y, x, "done", x.k, x.cron, x.st, x.child)
  <2>1. "done" \in Pc /\ ok \in BOOLEAN
    BY DEF Pc
  <2> QED
    BY <1>1, <2>1, PcOkSet
<1>3. ex' = [ex EXCEPT ![e] = y]
  BY <1>1, TwoFields DEF ReturnRun, End
<1> HIDE DEF y
<1>4. y \in Exec /\ y.pc = "done"
  BY <1>2 DEF Fields
<1> QED
  BY <1>1, <1>2, <1>3, <1>4, RunLeft

LEMMA MissWakeupKeeps ==
    ASSUME IInv, NEW e \in DOMAIN ex, MissWakeup(e)
    PROVE  IInv'
<1> DEFINE x == ex[e]
           y == [ex[e] EXCEPT !.pc = "waiting"]
<1>1. x \in Exec /\ x.pc = "run" /\ NodesIn(e, {"Running"}) = {} /\ UNCHANGED storeVars
  BY ExecFacts DEF MissWakeup, At, IInv
<1>2. Fields(y, x, "waiting", x.k, x.cron, x.st, x.child)
  <2>1. "waiting" \in Pc
    BY DEF Pc
  <2> QED
    BY <1>1, <2>1, PcSet
<1>3. ex' = [ex EXCEPT ![e] = y]
  BY DEF MissWakeup, Goto
<1> HIDE DEF y
<1>4. y \in Exec /\ y.pc = "waiting"
  BY <1>2 DEF Fields
<1> QED
  BY <1>1, <1>2, <1>3, <1>4, RunLeft

-----------------------------------------------------------------------------
(***************************************************************************)
(* Requests, restarts, and the invariant.                                  *)
(***************************************************************************)
LEMMA LaunchKeeps == \A x \in Exec : (IInv /\ Fresh(x) /\ Launch(x)) => IInv'
<1> TAKE x \in Exec
<1>1. SUFFICES ASSUME IInv, Fresh(x), Launch(x) PROVE IInv'
  OBVIOUS
<1>2. TypeOK /\ ex' = Append(ex, x) /\ UNCHANGED storeVars
  BY <1>1 DEF IInv, Launch
<1>3. Grows(0) /\ ex' \in Seq(Exec) /\ 0 \notin DOMAIN ex
  BY <1>1, <1>2, Starts
<1>4. StepOf(0)
  BY <1>2, <1>3 DEF StepOf, TypeOK, StoreTypeOK, storeVars, OnlyRowsOf
<1> QED
  BY <1>1, <1>3, <1>4, FrameKeeps

LEMMA RequestKeeps ==
    ASSUME IInv, NEW s \in Front, NEW b \in Body, Request(s, b)
    PROVE  IInv'
<1>1. s \in Server /\ "manual" \in Source /\ "template" \in Source
  BY ServerAssumption, SourceAssumption
<1>2. ASSUME NEW rid \in RunId \cup {NoId}, NEW src \in {"manual", "template"}, NEW thread \in Thread,
             Launch(Entry(s, rid, b, src, thread))
      PROVE  IInv'
  <2> DEFINE x == Entry(s, rid, b, src, thread)
  <2>1. x.rid = GivenOrNew(rid)
    BY DEF Execution, Entry
  <2>2. Launch(x)
    BY <1>2
  <2>3. GivenOrNew(rid) \in RunId /\ src \in Source
    BY <1>1, <2>1, <2>2 DEF Launch, HasId
  <2>4. x \in Exec /\ Fresh(x)
    BY <1>1, <2>3, NewEntry
  <2> HIDE DEF x
  <2> QED
    BY <2>2, <2>4, LaunchKeeps
<1>3. ASSUME Launch(Execution(s, NoId, b, "manual", 0, 0, 0, "cron"))
      PROVE  IInv'
  <2> DEFINE x == Execution(s, NoId, b, "manual", 0, 0, 0, "cron")
  <2>1. x.rid = GivenOrNew(NoId)
    BY DEF Execution
  <2>2. Launch(x)
    BY <1>3
  <2>3. GivenOrNew(NoId) \in RunId /\ NoId \in RunId \cup {NoId} /\ "cron" \in Thread
    BY <2>1, <2>2 DEF Launch, HasId, Thread
  <2>4. x \in Exec /\ Fresh(x)
    BY <1>1, <2>3, NewExecution
  <2> HIDE DEF x
  <2> QED
    BY <2>2, <2>4, LaunchKeeps
<1>4. "http" \in Thread /\ "pool" \in Thread /\ "cron" \in Thread /\ NoId \in RunId \cup {NoId}
  BY DEF Thread
<1>5. CASE runDag(s, b) \/ dispatch_template_job(s, b)
  BY <1>2, <1>4, <1>5 DEF runDag, dispatch_template_job
<1>6. CASE dispatch_dag_job(s, b)
  BY <1>3, <1>6 DEF dispatch_dag_job
<1>7. ASSUME NEW rid \in GivenRunId \cup {NoId},
             runDagAsync(s, b, rid) \/ templateRun(s, b, rid) \/ templateRunAsync(s, b, rid)
      PROVE  IInv'
  <2>1. rid \in RunId \cup {NoId}
    BY <1>7, IdAssumption
  <2>2. \E src \in {"manual", "template"}, thread \in Thread : Launch(Entry(s, rid, b, src, thread))
    BY <1>4, <1>7 DEF runDagAsync, templateRun, templateRunAsync
  <2> QED
    BY <1>2, <2>1, <2>2
<1> QED
  BY <1>5, <1>6, <1>7 DEF Request

(* After a restart the executions of a server that had not ended are lost; *)
(* nothing is asked of their rows any more.                                *)
LEMMA RestartKeeps ==
    ASSUME IInv, NEW s \in Server, Restart(s)
    PROVE  IInv'
<1> DEFINE Hit(f) == ex[f].at = s /\ ex[f].pc \notin Ended
           lost(f) == [ex[f] EXCEPT !.pc = "lost"]
<1>1. TypeOK /\ ex \in Seq(Exec) /\ UNCHANGED storeVars
      /\ ex' = [f \in DOMAIN ex |-> IF Hit(f) THEN lost(f) ELSE ex[f]]
  BY DEF IInv, TypeOK, Restart
<1>2. ASSUME NEW f \in DOMAIN ex
      PROVE  /\ ex'[f] \in Exec
             /\ Fields(ex'[f], ex[f], ex'[f].pc, ex[f].k, ex[f].cron, ex[f].st, ex[f].child)
             /\ \/ ex'[f].pc = ex[f].pc
                \/ ex'[f].pc = "lost" /\ ex[f].pc \notin Ended
  <2>1. CASE Hit(f)
    <3>1. ex[f] \in Exec /\ "lost" \in Pc
      BY <1>1 DEF Pc
    <3>2. Fields(lost(f), ex[f], "lost", ex[f].k, ex[f].cron, ex[f].st, ex[f].child)
      BY <3>1, PcSet
    <3>3. ex'[f] = lost(f)
      BY <1>1, <2>1
    <3> HIDE DEF lost
    <3> QED
      BY <2>1, <3>2, <3>3 DEF Fields
  <2>2. CASE ~Hit(f)
    <3>1. ex'[f] = ex[f]
      BY <1>1, <2>2
    <3> QED
      BY <1>1, <3>1, ExecFacts DEF Fields
  <2> QED
    BY <2>1, <2>2
<1>3. DOMAIN ex' = DOMAIN ex
  BY <1>1
<1>4. ex' \in Seq(Exec)
  <2>1. DOMAIN ex = 1 .. Len(ex) /\ Len(ex) \in Nat
    BY <1>1
  <2>2. ex' \in [1 .. Len(ex) -> Exec]
    <3>1. ex' = [f \in 1 .. Len(ex) |-> ex'[f]]
      BY <1>1, <2>1
    <3> QED
      BY <1>2, <2>1, <3>1
  <2> QED
    BY <2>1, <2>2
<1>5. TypeOK'
  BY <1>1, <1>4 DEF TypeOK, StoreTypeOK, storeVars
<1>6. \A f \in DOMAIN ex : ex'[f].at = ex[f].at /\ ex'[f].rid = ex[f].rid /\ ex'[f].body = ex[f].body
  BY <1>2 DEF Fields
<1>7. OwnRows'
  BY <1>1, <1>3, <1>6 DEF IInv, OwnRows, storeVars
<1>8. ASSUME NEW f \in DOMAIN ex' PROVE LocalInv(ex'[f])
  <2>1. LocalInv(ex[f])
    BY <1>3 DEF IInv
  <2> QED
    BY <1>2, <1>3, <2>1 DEF LocalInv, Fields, Unstarted
<1>9. ASSUME NEW f \in DOMAIN ex'
      PROVE  /\ Shared(f)' <=> Shared(f)
             /\ DagRow(ex[f])' = DagRow(ex[f]) /\ TaskRow(ex[f])' = TaskRow(ex[f])
  BY <1>1, <1>3, <1>6 DEF Shared, DagRow, TaskRow, storeVars
<1>10. ASSUME NEW f \in DOMAIN ex' PROVE RowsInv(f)'
  <2>1. SUFFICES ASSUME ~Shared(f)' PROVE Written(ex'[f], DagRow(ex[f]), TaskRow(ex[f]))
    BY <1>9 DEF RowsInv, Written
  <2>2. Written(ex[f], DagRow(ex[f]), TaskRow(ex[f]))
    BY <1>3, <1>9, <2>1 DEF IInv, RowsInv
  <2> QED
    BY <1>2, <1>3, <2>2 DEF Written, Fields, Ended, Returned
<1>11. ASSUME NEW f \in DOMAIN ex' PROVE ChildInv(f)'
  <2>1. SUFFICES ASSUME NEW t \in TaskId PROVE ChildOf(f, t)'
    BY DEF ChildInv
  <2> DEFINE c == ex[f].child[t]
  <2>2. ChildOf(f, t) /\ ex'[f].child = ex[f].child /\ ex'[f].st = ex[f].st
    BY <1>2, <1>3 DEF IInv, ChildInv, Fields
  <2>3. Task(f, t)' = Task(f, t)
    BY <1>3, <1>6 DEF Task, Tasks
  <2>4. c \in DOMAIN ex => /\ ex'[c].at = ex[c].at /\ ex'[c].rid = ex[c].rid
                           /\ ex[c].pc = "thrown" => ex'[c].pc = "thrown"
    BY <1>2, <1>6 DEF Ended, Returned
  <2> QED
    BY <1>3, <1>6, <1>9, <2>2, <2>3, <2>4 DEF ChildOf, LeadsTo
<1> QED
  BY <1>5, <1>7, <1>8, <1>10, <1>11 DEF IInv

LEMMA RunStepKeeps ==
    ASSUME IInv, NEW e \in DOMAIN ex, RunStep(e)
    PROVE  IInv'
<1>1. CASE InsertRun(e)
  BY <1>1, InsertRunKeeps
<1>2. CASE UpsertTask(e)
  BY <1>2, UpsertTaskKeeps
<1>3. CASE Persisted(e)
  BY <1>3, PersistedKeeps
<1>4. CASE CheckTasks(e) \/ ParseTasks(e) \/ Validate(e)
  BY <1>4, ChecksKeep
<1>5. CASE ReturnRun(e)
  BY <1>5, ReturnRunKeeps
<1>6. ASSUME NEW t \in TasksOf(e), StartNode(e, t) \/ SkipNode(e, t)
      PROVE  IInv'
  BY <1>6, StartOrSkipKeeps
<1>7. ASSUME NEW t \in TasksOf(e),
             DagRefused(e, t) \/ TemplateRefused(e, t) \/ RemoteRefused(e, t)
      PROVE  IInv'
  BY <1>7, PlainFinishKeeps
<1>8. ASSUME NEW t \in TasksOf(e), DagExecute(e, t) \/ TemplateExecute(e, t)
      PROVE  IInv'
  BY <1>8, NestKeeps
<1>9. ASSUME NEW t \in TasksOf(e), NestEnd(e, t)
      PROVE  IInv'
  BY <1>9, NestEndKeeps
<1>10. ASSUME NEW t \in TasksOf(e), NEW w \in WorkersOf[ex[e].at],
              RemoteAck(e, t, w) \/ (\E taken \in BOOLEAN : RemoteSilent(e, t, w, taken))
       PROVE  IInv'
  BY <1>10, RemoteAckKeeps, RemoteSilentKeeps
<1> QED
  BY <1>1, <1>2, <1>3, <1>4, <1>5, <1>6, <1>7, <1>8, <1>9, <1>10 DEF RunStep

LEMMA InitHolds == Init => IInv
<1>1. SUFFICES ASSUME Init PROVE IInv
  OBVIOUS
<1>2. ex \in Seq(Exec) /\ DOMAIN ex = {}
  BY <1>1 DEF Init
<1>3. StoreTypeOK /\ OwnRows
  BY <1>1 DEF Init, StoreInit, StoreTypeOK, OwnRows
<1> QED
  BY <1>2, <1>3 DEF IInv, TypeOK

LEMMA StepHolds == IInv /\ [Next]_vars => IInv'
<1>1. SUFFICES ASSUME IInv, [Next]_vars PROVE IInv'
  OBVIOUS
<1>2. CASE UNCHANGED vars
  <2>1. ex' = ex /\ UNCHANGED storeVars
    BY <1>2 DEF vars
  <2>2. 0 \notin DOMAIN ex
    BY <1>1 DEF IInv, TypeOK
  <2>3. StepOf(0)
    BY <1>1, <2>1, <2>2 DEF StepOf, Grows, OnlyRowsOf, IInv, TypeOK, StoreTypeOK, storeVars
  <2> QED
    BY <1>1, <2>2, <2>3, FrameKeeps
<1>3. ASSUME NEW s \in Front, NEW b \in Body, Request(s, b) PROVE IInv'
  BY <1>1, <1>3, RequestKeeps
<1>4. ASSUME NEW e \in DOMAIN ex, RunStep(e) \/ LeafStep(e) \/ MissWakeup(e) PROVE IInv'
  BY <1>1, <1>4, RunStepKeeps, PlainFinishKeeps, MissWakeupKeeps DEF LeafStep
<1>5. ASSUME NEW s \in Server, Restart(s) PROVE IInv'
  BY <1>1, <1>5, RestartKeeps
<1> QED
  BY <1>1, <1>2, <1>3, <1>4, <1>5 DEF Next

(* Every reachable state of the servers satisfies the invariant. *)
THEOREM Invariance == Spec => []IInv
BY InitHolds, StepHolds, PTL DEF Spec

-----------------------------------------------------------------------------
(***************************************************************************)
(* What the invariant says of runs that have ended.                        *)
(***************************************************************************)

(* Runs nest on one server only as deep as the depth that the outermost    *)
(* one was sent with leaves room for below MaxDepth, whatever bodies refer *)
(* to themselves: the depth reaches the nested run and is checked there.   *)
THEOREM NestingIsBounded == Spec => []NestingBounded
<1>1. IInv => NestingBounded
  <2>1. SUFFICES ASSUME IInv, NEW e \in DOMAIN ex, ex[e].level > 0
                 PROVE  ex[e].entry + ex[e].level < MaxDepth
    BY DEF NestingBounded
  <2> QED
    BY <2>1 DEF IInv, LocalInv
<1> QED
  BY <1>1, Invariance, PTL

(* The rows of one run as a client sees them. *)
LEMMA RowsSeen ==
    ASSUME IInv, NEW e \in DOMAIN ex, ex[e].pc \in {"done", "thrown"}, ~Shared(e)
    PROVE  /\ queryTaskRuns(ex[e].at, ex[e].rid) = [t \in TasksOf(e) |-> ex[e].st[t]]
           /\ \A t \in TasksOf(e) : TaskRow(ex[e])[t] # NoRow
           /\ DagRow(ex[e]) # NoRow /\ DagRow(ex[e]).source = ex[e].src
<1> DEFINE s == ex[e].at  r == ex[e].rid
<1>1. /\ s \in Server /\ r \in RunId /\ r # NoId /\ ex[e].body \in Body /\ TasksOf(e) \subseteq TaskId
  <2>1. s \in Server /\ r \in RunId /\ ex[e].body \in Body
    BY ExecFacts DEF IInv
  <2> QED
    BY <2>1, BodyFacts, NoIdAssumption DEF TasksOf
<1>2. Written(ex[e], DagRow(ex[e]), TaskRow(ex[e])) /\ ~ex[e].cron
  BY DEF IInv, RowsInv, LocalInv
<1>3. /\ \A t \in TasksOf(e) : TaskRow(ex[e])[t] # NoRow
      /\ \A t \in TaskId : TaskRow(ex[e])[t] # NoRow => t \in TasksOf(e) /\ TaskRow(ex[e])[t].status = ex[e].st[t]
      /\ DagRow(ex[e]) # NoRow /\ DagRow(ex[e]).source = ex[e].src
  BY <1>2 DEF Written, TasksOf
<1> DEFINE D == {x[2] : x \in TaskRows(s, r)}
<1>4. D \subseteq TasksOf(e)
  <2>1. SUFFICES ASSUME NEW x \in TaskRows(s, r) PROVE x[2] \in TasksOf(e)
    OBVIOUS
  <2>2. x[1] = r /\ x[2] \in TaskId /\ taskRun[s][r][x[2]] # NoRow
    BY <1>1 DEF TaskRows
  <2> QED
    BY <1>3, <2>2 DEF TaskRow
<1>5. TasksOf(e) \subseteq D
  <2>1. SUFFICES ASSUME NEW t \in TasksOf(e) PROVE t \in D
    OBVIOUS
  <2>2. <<r, t>> \in RunId \X TaskId /\ taskRun[s][r][t] # NoRow
    BY <1>1, <1>3 DEF TaskRow
  <2>3. <<r, t>> \in TaskRows(s, r) /\ <<r, t>>[2] = t
    BY <2>2 DEF TaskRows
  <2> QED
    BY <2>3
<1>6. D = TasksOf(e)
  BY <1>4, <1>5
<1>7. queryTaskRuns(s, r) = [t \in D |-> taskRun[s][r][t].status]
  BY DEF queryTaskRuns
<1>8. \A t \in TasksOf(e) : taskRun[s][r][t].status = ex[e].st[t]
  BY <1>1, <1>3 DEF TaskRow
<1> HIDE DEF D
<1>9. queryTaskRuns(s, r) = [t \in TasksOf(e) |-> ex[e].st[t]]
  BY <1>6, <1>7, <1>8
<1> QED
  BY <1>3, <1>9

(* When a run that shares its id with nobody has ended, the tables say     *)
(* what happened in it, and it is recorded as failed only if it was        *)
(* refused before any of its tasks started.                                *)
THEOREM RowsAreRight == Spec => []RowsMatch
<1>1. ASSUME IInv PROVE FailedMeansRefused
  <2>1. SUFFICES ASSUME NEW e \in DOMAIN ex, ~Shared(e), DagRow(ex[e]) # NoRow, DagRow(ex[e]).status = "Failed"
                 PROVE  ex[e].pc \in Ended /\ NodesIn(e, {"Pending"}) = TasksOf(e)
    BY DEF FailedMeansRefused, DagRow
  <2>2. ex[e].pc = "done" /\ \A t \in TaskId : ex[e].st[t] = "Pending"
    BY <1>1, <2>1 DEF IInv, RowsInv, Written
  <2>3. TasksOf(e) \subseteq TaskId
    BY <1>1, <2>1, TaskFacts DEF IInv
  <2> QED
    BY <2>2, <2>3 DEF NodesIn, Ended, Returned
<1>2. ASSUME IInv, NEW e \in DOMAIN ex, ex[e].pc \in {"done", "thrown"}, ~Shared(e)
      PROVE  /\ \E d \in queryDagRuns(ex[e].at, ex[e].rid, ex[e].src) : d.run = ex[e].rid
             /\ queryTaskRuns(ex[e].at, ex[e].rid) = [t \in TasksOf(e) |-> ex[e].st[t]]
  <2> DEFINE s == ex[e].at  r == ex[e].rid
  <2>1. DagRow(ex[e]) # NoRow /\ DagRow(ex[e]).source = ex[e].src /\ r \in RunId
    BY <1>2, RowsSeen, ExecFacts DEF IInv
  <2>2. r \in DagRows(s, r, ex[e].src)
    BY <2>1 DEF DagRows, DagRow
  <2>3. [run |-> r, row |-> dagRun[s][r]] \in queryDagRuns(s, r, ex[e].src)
    BY <2>2 DEF queryDagRuns
  <2> QED
    BY <1>2, <2>3, RowsSeen
<1>3. IInv => RowsMatch
  BY <1>1, <1>2 DEF RowsMatch
<1> QED
  BY <1>3, Invariance, PTL

(* A path of one or two nodes is one or two hops. *)
LEMMA Hops ==
    ASSUME NEW s, NEW r, NEW path, NEW alive, path \in Seq(TaskId), Len(path) \in {1, 2}
    PROVE  LET one == resolve_proxy_target(<<s, r>>, path[1], alive)
           IN  workers_proxy_task_events(s, r, path, alive) =
                 IF Len(path) = 1 THEN one ELSE resolve_proxy_target(one, path[2], alive)
<1> DEFINE H == 0 .. Len(path)
           G(f) == [i \in H |-> IF i = 0 THEN <<s, r>> ELSE resolve_proxy_target(f[i - 1], path[i], alive)]
           one == resolve_proxy_target(<<s, r>>, path[1], alive)
           two == resolve_proxy_target(one, path[2], alive)
           w == [i \in H |-> IF i = 0 THEN <<s, r>> ELSE IF i = 1 THEN one ELSE two]
           h == CHOOSE f : f = G(f)
<1>0. Len(path) = 1 \/ Len(path) = 2
  OBVIOUS
<1>1. w = G(w)
  <2>1. \A i \in H : w[i] = IF i = 0 THEN <<s, r>> ELSE resolve_proxy_target(w[i - 1], path[i], alive)
    <3>1. SUFFICES ASSUME NEW i \in H
                   PROVE  w[i] = IF i = 0 THEN <<s, r>> ELSE resolve_proxy_target(w[i - 1], path[i], alive)
      OBVIOUS
    <3>2. i \in {0, 1, 2} /\ 0 \in H /\ 1 \in H
      <4>1. CASE Len(path) = 1
        BY <4>1
      <4>2. CASE Len(path) = 2
        BY <4>2
      <4> QED
        BY <1>0, <4>1, <4>2
    <3>3. w[0] = <<s, r>> /\ w[1] = one
      BY <3>2
    <3>4. CASE i = 0
      BY <3>3, <3>4
    <3>5. CASE i = 1
      BY <3>3, <3>5
    <3>6. CASE i = 2
      <4>1. w[2] = two
        BY <3>6
      <4> QED
        BY <3>3, <3>6, <4>1
    <3> QED
      BY <3>2, <3>4, <3>5, <3>6
  <2> QED
    BY <2>1
<1>2. h = G(h)
  BY <1>1
<1>3. workers_proxy_task_events(s, r, path, alive) = h[Len(path)]
  BY DEF workers_proxy_task_events
<1> HIDE DEF h
<1>4. \A i \in H : h[i] = IF i = 0 THEN <<s, r>> ELSE resolve_proxy_target(h[i - 1], path[i], alive)
  BY <1>2
<1>5. 0 \in H /\ 1 \in H /\ Len(path) \in H
  OBVIOUS
<1>6. h[0] = <<s, r>> /\ h[1] = one
  BY <1>4, <1>5
<1>7. Len(path) = 2 => h[2] = two
  BY <1>4, <1>5, <1>6
<1> QED
  BY <1>3, <1>6, <1>7

(* The two lengths of path the property is about. *)
LEMMA OneNode ==
    ASSUME NEW s, NEW r, NEW t \in TaskId, NEW alive
    PROVE  workers_proxy_task_events(s, r, <<t>>, alive) = resolve_proxy_target(<<s, r>>, t, alive)
<1> DEFINE path == <<t>>
<1>1. path \in Seq(TaskId) /\ Len(path) = 1 /\ path[1] = t
  OBVIOUS
<1> HIDE DEF path
<1>2. workers_proxy_task_events(s, r, path, alive) = resolve_proxy_target(<<s, r>>, path[1], alive)
  <2>1. Len(path) \in {1, 2}
    BY <1>1
  <2> QED
    BY <1>1, <2>1, Hops
<1>3. workers_proxy_task_events(s, r, path, alive) = resolve_proxy_target(<<s, r>>, t, alive)
  BY <1>1, <1>2
<1> QED
  BY <1>3 DEF path

LEMMA TwoNodes ==
    ASSUME NEW s, NEW r, NEW t \in TaskId, NEW u \in TaskId, NEW alive
    PROVE  workers_proxy_task_events(s, r, <<t, u>>, alive)
             = resolve_proxy_target(resolve_proxy_target(<<s, r>>, t, alive), u, alive)
<1> DEFINE path == <<t, u>>
<1>1. path \in Seq(TaskId) /\ Len(path) = 2 /\ path[1] = t /\ path[2] = u
  OBVIOUS
<1> HIDE DEF path
<1>2. workers_proxy_task_events(s, r, path, alive)
        = resolve_proxy_target(resolve_proxy_target(<<s, r>>, path[1], alive), path[2], alive)
  <2>1. Len(path) \in {1, 2}
    BY <1>1
  <2> QED
    BY <1>1, <2>1, Hops
<1>3. workers_proxy_task_events(s, r, path, alive)
        = resolve_proxy_target(resolve_proxy_target(<<s, r>>, t, alive), u, alive)
  BY <1>1, <1>2
<1> QED
  BY <1>3 DEF path

(* One hop from a node of a run that has ended: to the run behind it or    *)
(* nowhere, and to that run if it has ended too and its server is alive.   *)
LEMMA OneHop ==
    ASSUME IInv, NEW e \in DOMAIN ex, ex[e].pc = "done", ~Shared(e), NEW t \in TasksOf(e),
           ex[e].child[t] # 0, NEW alive
    PROVE  LET c == ex[e].child[t]
               p == resolve_proxy_target(<<ex[e].at, ex[e].rid>>, t, alive)
           IN  /\ c \in DOMAIN ex /\ ex[c].at # NoId
               /\ p \in {Nowhere, <<ex[c].at, ex[c].rid>>}
               /\ (ex[c].pc = "done" /\ ex[c].at \in alive) => p = <<ex[c].at, ex[c].rid>>
<1> DEFINE s == ex[e].at  r == ex[e].rid  row == TaskRow(ex[e])[t]  c == ex[e].child[t]
           p == resolve_proxy_target(<<s, r>>, t, alive)
<1>1. TypeOK /\ t \in TaskId /\ s \in Server /\ r \in RunId /\ row # NoRow
  BY NodeFacts, RowsSeen
<1>2. ex[e].st[t] # "Running"
  BY DEF IInv, LocalInv, TasksOf
<1>3. c \in DOMAIN ex /\ LeadsTo(row, s, c)
  BY <1>1, <1>2 DEF IInv, ChildInv, ChildOf
<1>4. ex[c].at \in Server /\ ex[c].rid \in RunId /\ ex[c].at # NoId /\ ex[c].rid # NoId /\ s # NoId
  BY <1>1, <1>3, ExecFacts, NoIdAssumption
<1>5. <<s, r>> # Nowhere /\ <<s, r>>[1] = s /\ <<s, r>>[2] = r
  BY <1>4 DEF Nowhere
<1>6. row = getTaskRun(s, r, t)
  BY DEF getTaskRun, TaskRow
<1> HIDE DEF row, c, s, r
<1>7. p = IF row.next = NoId THEN Nowhere
          ELSE IF row.worker = NoId THEN <<s, row.next>>
          ELSE IF row.worker \in alive THEN <<row.worker, row.next>> ELSE Nowhere
  BY <1>1, <1>5, <1>6 DEF resolve_proxy_target, find_worker_by_id, proxy_forward
<1> HIDE DEF p
<1>8. p \in {Nowhere, <<ex[c].at, ex[c].rid>>}
  BY <1>1, <1>3, <1>4, <1>7 DEF LeadsTo
<1>9. (ex[c].pc = "done" /\ ex[c].at \in alive) => p = <<ex[c].at, ex[c].rid>>
  BY <1>1, <1>3, <1>4, <1>7 DEF LeadsTo
<1> QED
  BY <1>3, <1>4, <1>8, <1>9 DEF p, c, s, r

(* A path that leads to run c or nowhere shows run c. *)
LEMMA ShowsRun ==
    ASSUME IInv, NEW e \in DOMAIN ex, NEW c \in DOMAIN ex, NEW path,
           \A alive : workers_proxy_task_events(ex[e].at, ex[e].rid, path, alive)
                        \in {Nowhere, <<ex[c].at, ex[c].rid>>},
           ex[c].pc = "done" => workers_proxy_task_events(ex[e].at, ex[e].rid, path, Server)
                                  = <<ex[c].at, ex[c].rid>>
    PROVE  Shows(e, path, c)
<1> DEFINE s == ex[e].at  r == ex[e].rid
<1>1. \A alive : workers_proxy_logs(s, r, path, NoId, alive) \in {Nowhere, <<ex[c].at, ex[c].rid>>}
  BY DEF workers_proxy_logs
<1>2. ASSUME ex[c].pc = "done", ~Shared(c)
      PROVE  workers_proxy_task_runs(s, r, path, Server) = [t \in TasksOf(c) |-> ex[c].st[t]]
  <2>1. <<ex[c].at, ex[c].rid>> # Nowhere
    BY ExecFacts, NoIdAssumption DEF Nowhere, IInv
  <2>2. workers_proxy_task_events(s, r, path, Server) = <<ex[c].at, ex[c].rid>>
    BY <1>2
  <2>3. workers_proxy_task_runs(s, r, path, Server) = queryTaskRuns(ex[c].at, ex[c].rid)
    BY <2>1, <2>2 DEF workers_proxy_task_runs
  <2> QED
    BY <1>2, <2>3, RowsSeen
<1> QED
  BY <1>1, <1>2 DEF Shows

(* Through the rows of a run that has ended the proxy finds the run behind *)
(* a node, over one or two hops and on whatever server, never another, and *)
(* shows what happened in it.                                              *)
THEOREM ProxyIsRight == Spec => []ProxyFinds
<1>1. ASSUME IInv, NEW e \in DOMAIN ex, ex[e].pc = "done", ~Shared(e), NEW t \in TasksOf(e),
             ex[e].child[t] # 0
      PROVE  LET c == ex[e].child[t] IN
             /\ Shows(e, <<t>>, c)
             /\ \A u \in TasksOf(c) : LET d == ex[c].child[u] IN
                   (ex[c].pc = "done" /\ ~Shared(c) /\ d # 0) => Shows(e, <<t, u>>, d)
  <2> DEFINE c == ex[e].child[t]  s == ex[e].at  r == ex[e].rid
             one(alive) == resolve_proxy_target(<<s, r>>, t, alive)
  <2>1. /\ c \in DOMAIN ex /\ ex[c].at \in Server
        /\ \A alive : one(alive) \in {Nowhere, <<ex[c].at, ex[c].rid>>}
        /\ ex[c].pc = "done" => one(Server) = <<ex[c].at, ex[c].rid>>
    <3>1. c \in DOMAIN ex
      BY <1>1, OneHop
    <3>2. ex[c].at \in Server
      BY <1>1, <3>1, ExecFacts DEF IInv
    <3>3. \A alive : one(alive) \in {Nowhere, <<ex[c].at, ex[c].rid>>}
      BY <1>1, OneHop
    <3>4. ex[c].pc = "done" => one(Server) = <<ex[c].at, ex[c].rid>>
      BY <1>1, <3>2, OneHop
    <3> QED
      BY <3>1, <3>2, <3>3, <3>4
  <2>2. t \in TaskId
    BY <1>1, NodeFacts
  <2>3. \A alive : workers_proxy_task_events(s, r, <<t>>, alive) = one(alive)
    BY <2>2, OneNode
  <2> HIDE DEF c, one
  <2>4. Shows(e, <<t>>, c)
    BY <1>1, <2>1, <2>3, ShowsRun
  <2>5. ASSUME NEW u \in TasksOf(c), ex[c].pc = "done", ~Shared(c), ex[c].child[u] # 0
        PROVE  Shows(e, <<t, u>>, ex[c].child[u])
    <3> DEFINE d == ex[c].child[u]
               two(alive) == resolve_proxy_target(<<ex[c].at, ex[c].rid>>, u, alive)
    <3>1. d \in DOMAIN ex
      BY <1>1, <2>1, <2>5, OneHop
    <3>2. \A alive : two(alive) \in {Nowhere, <<ex[d].at, ex[d].rid>>}
      BY <1>1, <2>1, <2>5, OneHop
    <3>3. ex[d].at \in Server
      BY <1>1, <3>1, ExecFacts DEF IInv
    <3>4. ex[d].pc = "done" => two(Server) = <<ex[d].at, ex[d].rid>>
      BY <1>1, <2>1, <2>5, <3>3, OneHop
    <3>5. u \in TaskId
      BY <1>1, <2>1, NodeFacts
    <3>6. \A alive : workers_proxy_task_events(s, r, <<t, u>>, alive)
                       = resolve_proxy_target(one(alive), u, alive)
      BY <2>2, <3>5, TwoNodes DEF one
    <3>7. \A alive : resolve_proxy_target(Nowhere, u, alive) = Nowhere
      BY DEF resolve_proxy_target
    <3> HIDE DEF d
    <3>8. \A alive : workers_proxy_task_events(s, r, <<t, u>>, alive) \in {Nowhere, <<ex[d].at, ex[d].rid>>}
      BY <2>1, <3>2, <3>6, <3>7
    <3>9. ex[d].pc = "done" =>
              workers_proxy_task_events(s, r, <<t, u>>, Server) = <<ex[d].at, ex[d].rid>>
      BY <2>1, <2>5, <3>4, <3>6
    <3>10. Shows(e, <<t, u>>, d)
      BY <1>1, <3>1, <3>8, <3>9, ShowsRun
    <3> QED
      BY <3>10 DEF d
  <2> QED
    BY <2>4, <2>5 DEF c
<1>2. IInv => ProxyFinds
  BY <1>1 DEF ProxyFinds
<1> QED
  BY <1>2, Invariance, PTL
=============================================================================

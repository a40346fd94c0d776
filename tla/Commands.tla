----------------------------- MODULE Commands -----------------------------
(***************************************************************************)
(* The canvas, its undoable commands and the undo stack of the client.      *)
(*                                                                         *)
(* A canvas c is a record:                                                  *)
(*   made    items constructed so far        scene   items the scene shows  *)
(*   freed   items deleted (dangling)        sel     items flagged selected *)
(*   lines   RectItem::lines_ of each node   ends    start_ and end_ of a   *)
(*                                                   line                   *)
(*   pos     position of a node, control offset of a line                   *)
(*   prop    the edited properties of a node, of the DAG for Dag, by key    *)
(*   list    QUndoStack's commands, each a sequence of primitive ones       *)
(*   index   its index                       open    a macro is open in Qt  *)
(*   count   UndoStack::macroCount_          ub      a freed item was used  *)
(*   lost    history: a discarded Delete command deleted items              *)
(*                                                                         *)
(* Nodes stay at the top level: containers are left out.                    *)
(***************************************************************************)
EXTENDS Integers, Sequences, SequencesExt, FiniteSets

CONSTANTS Nodes, Lines, Dag, None

Items == Nodes \cup Lines

\* Positions: where it was created, where it was dragged, where it was laid out.
Placed == 0
Dragged == 1
LaidOut == 2

\* Properties: one that the inspector finds under its own key, the queue, and one
\* with a dot in its key inside exec_params (auth.*, header.*, config.*), which
\* setPropByKeyPath stores one level down.
Keys == <<"field", "queue", "nested">>
Empty == 2
Invalid == 3

CanvasInit ==
  [made |-> {}, scene |-> {}, freed |-> {}, sel |-> {},
   lines |-> [n \in Nodes |-> {}], ends |-> [l \in Lines |-> <<>>],
   pos |-> [i \in Items |-> Placed], prop |-> [i \in Nodes \cup {Dag} |-> [k \in ToSet(Keys) |-> 0]],
   list |-> <<>>, index |-> 0, open |-> FALSE, count |-> 0,
   ub |-> FALSE, lost |-> FALSE]

Shown(c) == c.scene \cap Nodes
Selected(c) == c.sel \cap c.scene
Ends(c, l) == {c.ends[l][k] : k \in DOMAIN c.ends[l]}
LinesOf(c, S) == UNION {c.lines[n] : n \in S \cap Nodes}

Touch(c, S) == IF S \cap c.freed = {} THEN c ELSE [c EXCEPT !.ub = TRUE]

\* setPos and setControlOffset: a node that really moves has its lines follow
\* (RectItem::itemChange), and a line reads both its ends (trackNodes).
Track(c, i) ==
  LET ls == IF i \in Nodes THEN c.lines[i] ELSE {i}
  IN  Touch(c, ls \cup UNION {Ends(c, l) : l \in ls})
SetPos(c, i, p) ==
  LET t == Touch(c, {i})
  IN  IF t.ub \/ t.pos[i] = p THEN t ELSE [Track(t, i) EXCEPT !.pos[i] = p]

\* clearSelection and setSelected(true): an item that is not in the scene keeps
\* its flag, and is selected again when it comes back.
SelectOnly(c, S) == [c EXCEPT !.sel = (@ \ c.scene) \cup S]

-----------------------------------------------------------------------------
(* Construction and destruction of items.                                   *)

NewNode(c, n) == [c EXCEPT !.made = @ \cup {n}]

\* LineItem's constructor tells both ends, its destructor takes itself back.
NewLine(c, l, a, b) ==
  LET t == Touch(c, {a, b})
  IN  [t EXCEPT !.made = @ \cup {l}, !.ends[l] = <<a, b>>,
                !.lines[a] = @ \cup {l}, !.lines[b] = @ \cup {l}]
Free_Bound(c, i) ==
  LET t == Touch(c, {i} \cup (IF i \in Lines THEN Ends(c, i) ELSE {}))
  IN  [t EXCEPT !.freed = @ \cup {i}, !.scene = @ \ {i}]
Free(c, i) ==
  LET t == Touch(c, {i} \cup (IF i \in Lines THEN Ends(c, i) ELSE {}))
  IN  [t EXCEPT !.freed = @ \cup {i}, !.scene = @ \ {i},
                !.lines = [n \in Nodes |-> @[n] \ {i}]]

-----------------------------------------------------------------------------
(* Primitive commands.                                                      *)

CreateCommand(n) == [op |-> "create", i |-> n]
CreateConnectionCommand(l) == [op |-> "connect", i |-> l]
\* MoveRectCommand, AdjustLineCommand / SetPropertyCommand, DagConfigCommand.
MoveCommand(i, old, new) == [op |-> "move", i |-> i, old |-> old, new |-> new]
SetCommand(i, key, old, new) ==
  [op |-> "set", i |-> i, key |-> key, old |-> old, new |-> new]
\* ord is the order in which the QSet of items is iterated.  Only a node has a
\* position of its own: pos() of a line never changes.
DeleteCommand(c, ord) ==
  [op |-> "delete", ord |-> ord, pos |-> [n \in ToSet(ord) \cap Nodes |-> c.pos[n]]]

DeleteExecute(c, S) ==
  LET L == S \cap Lines
      t == Touch(c, S \cup LinesOf(c, S) \cup UNION {Ends(c, l) : l \in L})
  IN  [t EXCEPT !.scene = @ \ (S \cup LinesOf(c, S)),
                !.lines = [n \in Nodes |-> @[n] \ L]]

DeleteUnExecute_NodesOnly(c, S) ==
  [c EXCEPT !.scene = @ \cup S,
            !.lines = [n \in Nodes |-> @[n] \cup {l \in S \cap Lines : n \in Ends(c, l)}]]
DeleteUnExecute_Unlinked(c, S) ==
  LET t == Touch(c, S \cup LinesOf(c, S))
  IN  [t EXCEPT !.scene = @ \cup S \cup LinesOf(c, S)]
DeleteUnExecute(c, S) ==
  LET L == S \cap Lines
      t == Touch(c, S \cup LinesOf(c, S) \cup UNION {Ends(c, l) : l \in L})
  IN  [t EXCEPT !.scene = @ \cup S \cup LinesOf(c, S),
                !.lines = [n \in Nodes |-> @[n] \cup {l \in L : n \in Ends(c, l)}]]

execute(c, k) ==
  CASE k.op = "create"  -> [SetPos(c, k.i, Placed) EXCEPT !.scene = @ \cup {k.i}]
    [] k.op = "connect" -> [Touch(c, {k.i}) EXCEPT !.scene = @ \cup {k.i}]
    [] k.op = "move"    -> SetPos(c, k.i, k.new)
    [] k.op = "set"     -> [Touch(c, {k.i}) EXCEPT !.prop[k.i][k.key] = k.new]
    [] k.op = "delete"  -> DeleteExecute(c, ToSet(k.ord))

unExecute(c, k) ==
  CASE k.op \in {"create", "connect"} -> [Touch(c, {k.i}) EXCEPT !.scene = @ \ {k.i}]
    [] k.op = "move"    -> SetPos(c, k.i, k.old)
    [] k.op = "set"     -> [Touch(c, {k.i}) EXCEPT !.prop[k.i][k.key] = k.old]
    [] k.op = "delete"  ->
         DeleteUnExecute(FoldLeft(LAMBDA x, i : IF i \in Nodes THEN SetPos(x, i, k.pos[i])
                                                ELSE Touch(x, {i}),
                                  c, k.ord),
                         ToSet(k.ord))

\* The destructors: an item that is not shown belongs to the command.  Delete
\* looks at the first of its items only.
Destroy(c, k) ==
  LET its == CASE k.op \in {"create", "connect"} -> <<k.i>>
               [] k.op = "delete" -> k.ord
               [] OTHER -> <<>>
  IN  IF its = <<>> THEN c
      ELSE LET t == Touch(c, {Head(its)})
           IN  IF t.ub \/ Head(its) \in t.scene THEN t
               ELSE [FoldLeft(Free, t, its) EXCEPT !.lost = @ \/ k.op = "delete"]

-----------------------------------------------------------------------------
(* QUndoStack (Qt) and the wrapper UndoStack.                               *)

\* The commands that could be redone are deleted from the last one down; the
\* children of a macro in their order.
DropRedo(c) ==
  LET gone == Reverse(SubSeq(c.list, c.index + 1, Len(c.list)))
  IN  [FoldLeft(Destroy, c, FlattenSeq(gone)) EXCEPT !.list = SubSeq(@, 1, c.index)]

\* push executes the command first.
push(c, k) ==
  LET x == execute(c, k)
  IN  IF c.open THEN [x EXCEPT !.list[Len(c.list)] = Append(@, k)]
      ELSE [DropRedo(x) EXCEPT !.list = Append(@, <<k>>), !.index = @ + 1]

beginMacro(c) ==
  IF c.count = 0
  THEN [DropRedo(c) EXCEPT !.list = Append(@, <<>>), !.open = TRUE, !.count = 1]
  ELSE [c EXCEPT !.count = @ + 1]

endMacro(c) ==
  IF c.count - 1 <= 0
  THEN [c EXCEPT !.open = FALSE, !.count = 0, !.index = @ + 1]
  ELSE [c EXCEPT !.count = @ - 1]

\* Nothing happens at an end of the list or while a macro is open.
undo(c) ==
  IF c.open \/ c.index = 0 THEN c
  ELSE [FoldLeft(unExecute, c, Reverse(c.list[c.index])) EXCEPT !.index = @ - 1]

redo(c) ==
  IF c.open \/ c.index = Len(c.list) THEN c
  ELSE [FoldLeft(execute, c, c.list[c.index + 1]) EXCEPT !.index = @ + 1]
=============================================================================

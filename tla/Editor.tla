------------------------------ MODULE Editor ------------------------------
(***************************************************************************)
(* The DAG editor of the client: mouse and key events go down the stack of  *)
(* tasks, tasks and toolbar buttons turn them into commands, the undo stack *)
(* takes them back.  Everything happens in the GUI thread, so an event is   *)
(* one step.                                                                *)
(***************************************************************************)
EXTENDS Commands, TaskStack

CONSTANTS
  Profiles    \* what a behaviour may use besides create, connect and delete, and
              \* the bound on its undo list, children of a macro included

VARIABLES
  c,          \* the canvas and the undo stack
  stack,      \* the task stack
  drag,       \* MoveTask: [target, start, moved]
  from,       \* ConnectTask::startItem_, None when not chosen
  edits,      \* the edits this behaviour uses
  maxLen,     \* and its bound
  snap,       \* history: what the canvas showed after each command
  stale,      \* history: undo or redo was used in the middle of a drag or connection
  stray       \* history: what was changed without a command, "pos" or "prop", and
              \* "nested" once an edit of a property with a dot was undone

Bounds == <<edits, maxLen>>
vars == <<c, stack, drag, from, edits, maxLen, snap, stale, stray>>

NoDrag == [target |-> None, start |-> Placed, moved |-> FALSE]

\* What the user sees: nodes, the connections between shown nodes, values.
Links(x) == {l \in x.scene \cap Lines : Ends(x, l) \subseteq Shown(x)}
View(x) ==
  [nodes |-> Shown(x), links |-> Links(x),
   pos   |-> [i \in Shown(x) \cup Links(x) |-> x.pos[i]],
   prop  |-> [i \in Shown(x) |-> [k \in {"field", "queue"} |-> x.prop[i][k]]],
   dag   |-> x.prop[Dag],
   nested |-> [i \in Shown(x) |-> x.prop[i]["nested"]]]

\* serializeLevel: a line is a dependency of its end, if its start is exported.
Exported(x) ==
  {l \in Lines : \E n \in Shown(x) : /\ l \in x.lines[n]
                                     /\ x.ends[l][2] = n
                                     /\ x.ends[l][1] \in Shown(x)}

Init ==
  /\ c = CanvasInit /\ stack = buildCore /\ drag = NoDrag /\ from = None
  /\ \E p \in Profiles : edits = p.edits /\ maxLen = p.len
  /\ snap = <<View(CanvasInit)>> /\ stale = FALSE /\ stray = {}

-----------------------------------------------------------------------------
Size(x) == Len(FlattenSeq(x.list)) + Cardinality({k \in DOMAIN x.list : x.list[k] = <<>>})
Room == Size(c) < maxLen

\* The effect of an edit on the history: a finished command has its snapshot.
Edit(x) ==
  /\ c' = x
  /\ snap' = IF x.open THEN snap
             ELSE Append(SubSeq(snap, 1, x.index), View(x))
Keep(x) == c' = x /\ UNCHANGED snap

Dragging == Top(stack) = "Move"

-----------------------------------------------------------------------------
(* Events on the canvas.                                                    *)

\* SelectTask: the item is selected and may be dragged from now on.
PressSelect(i) ==
  LET st == restore(stack) IN
  /\ Top(st) = "Select"
  /\ i \in c.scene \cup {None}
  /\ IF i = None
     THEN Keep(SelectOnly(c, {})) /\ stack' = st /\ UNCHANGED drag
     ELSE /\ Keep(SelectOnly(c, {i}))
          /\ stack' = pushTask(st, "Move")
          /\ drag' = [target |-> i, start |-> c.pos[i], moved |-> FALSE]
  /\ UNCHANGED <<from, Bounds, stale, stray>>

\* CreateTask, through CreateRectOperator and BaseOperator::doOperator.
PressCreate ==
  /\ Top(stack) = "Create"
  /\ Nodes \ c.made # {} /\ Room
  /\ LET n == CHOOSE n \in Nodes \ c.made : TRUE
         x == endMacro(push(beginMacro(NewNode(c, n)), CreateCommand(n)))
     IN  Edit(SelectOnly(x, {n}))
  /\ stack' = removeTask(stack, "Create")
  /\ UNCHANGED <<drag, from, Bounds, stale, stray>>

AlreadyConnected(a, b) == \E l \in c.lines[a] : b \in Ends(c, l)

\* ConnectTask: the first press chooses the start, the second one the end.
PressConnect(n) ==
  /\ Top(stack) = "Connect"
  /\ n \in Shown(c)
  /\ IF from = None
     THEN from' = n /\ UNCHANGED <<c, snap, stack>>
     ELSE /\ n # from
          /\ ~AlreadyConnected(from, n)
          /\ Lines \ c.made # {} /\ Room
          /\ LET l == CHOOSE l \in Lines \ c.made : TRUE
             IN  Edit(push(NewLine(c, l, from, n), CreateConnectionCommand(l)))
          /\ from' = None
          /\ stack' = removeTask(stack, "Connect")
  /\ UNCHANGED <<drag, Bounds, stale, stray>>

\* The right button leaves ConnectTask; alone on the stack, Main restores Select.
PressRight ==
  /\ Top(stack) \in {"Connect", "Main"}
  /\ stack' = IF Top(stack) = "Connect" THEN removeTask(stack, "Connect") ELSE restore(stack)
  /\ from' = None
  /\ UNCHANGED <<c, drag, Bounds, snap, stale, stray>>

\* MoveTask: the item follows the mouse, without a command.
MouseMove(p) ==
  /\ Dragging /\ (IF drag.target \in Nodes THEN "move" ELSE "adjust") \in edits
  /\ Room
  /\ drag.moved => p # c.pos[drag.target]
  /\ Keep(SetPos(c, drag.target, p))
  /\ drag' = [drag EXCEPT !.moved = TRUE]
  /\ UNCHANGED <<stack, from, Bounds, stale, stray>>

Release ==
  /\ Dragging
  /\ IF drag.moved /\ c.pos[drag.target] # drag.start
     THEN Edit(push(c, MoveCommand(drag.target, drag.start, c.pos[drag.target])))
     ELSE UNCHANGED <<c, snap>>
  /\ stack' = removeTask(stack, "Move") /\ drag' = NoDrag
  /\ UNCHANGED <<from, Bounds, stale, stray>>

\* Esc removes the task on top; a dragged item stays where it is.
Escape ==
  /\ stack' = escape(stack)
  /\ drag' = NoDrag
  /\ from' = None
  /\ stray' = IF drag.moved /\ c.pos[drag.target] # drag.start
              THEN stray \cup {"pos"} ELSE stray
  /\ UNCHANGED <<c, Bounds, snap, stale>>

\* A double click on a line straightens it; there is no test for a change.
DoubleClick(l) ==
  /\ "adjust" \in edits /\ ~Dragging /\ Room
  /\ l \in c.scene \cap Lines
  /\ Edit(push(c, MoveCommand(l, c.pos[l], Placed)))
  /\ stack' = removeTask(pushTask(stack, "StraightLine"), "StraightLine")
  /\ UNCHANGED <<drag, from, Bounds, stale, stray>>

\* CanvasView::keyPressEvent, at any moment.
Undo ==
  /\ LET x == undo(c) IN x # c /\ c' = x
  /\ stale' = (stale \/ Dragging \/ from # None)
  /\ stray' = IF \E k \in ToSet(c.list[c.index]) : k.op = "set" /\ k.key = "nested"
              THEN stray \cup {"nested"} ELSE stray
  /\ UNCHANGED <<stack, drag, from, Bounds, snap>>
Redo ==
  /\ LET x == redo(c) IN x # c /\ c' = x
  /\ stale' = (stale \/ Dragging \/ from # None)
  /\ UNCHANGED <<stack, drag, from, Bounds, snap, stray>>

-----------------------------------------------------------------------------
(* Toolbar, palette and inspector: the mouse is not held down.              *)

startCreateNodeMode ==
  /\ ~Dragging
  /\ stack' = pushTask(stack, "Create") /\ from' = None
  /\ UNCHANGED <<c, drag, Bounds, snap, stale, stray>>

\* A selected node is the start at once and stays the only one selected.
startConnectMode ==
  /\ ~Dragging
  /\ stack' = pushTask(stack, "Connect")
  /\ IF Selected(c) \cap Nodes = {}
     THEN from' = None /\ UNCHANGED <<c, snap>>
     ELSE \E n \in Selected(c) \cap Nodes : from' = n /\ Keep(SelectOnly(c, {n}))
  /\ UNCHANGED <<drag, Bounds, stale, stray>>

deleteSelected ==
  /\ ~Dragging /\ Room
  /\ IF Selected(c) = {} THEN UNCHANGED <<c, snap>>
     ELSE \E ord \in SetToSeqs(Selected(c)) : Edit(push(c, DeleteCommand(c, ord)))
  /\ stack' = removeTask(pushTask(stack, "Delete"), "Delete")
  /\ from' = None
  /\ UNCHANGED <<drag, Bounds, stale, stray>>

LayOut(x) == FoldLeft(LAMBDA y, n : SetPos(y, n, LaidOut), x, SetToSeq(Shown(x)))

\* LayoutTask moves the nodes without a command.
layoutDag ==
  /\ ~Dragging /\ "layout" \in edits
  /\ Shown(c) # {}
  /\ Keep(LayOut(c))
  /\ stray' = stray \cup {"pos"}
  /\ stack' = removeTask(pushTask(stack, "Layout"), "Layout")
  /\ UNCHANGED <<drag, from, Bounds, stale>>

\* DagLoader::loadLevel for one new task that depends on old, or on nothing.
loadLevel(x, n, l, old) ==
  LET y == push(NewNode(x, n), CreateCommand(n))
  IN  IF old = None THEN y
      ELSE push(NewLine(y, l, old, n), CreateConnectionCommand(l))

\* ImportTask: old is a node of the canvas whose id the file has too and that the
\* user chose to reuse.  The macro is begun twice and ended once.
importJson(old) ==
  /\ ~Dragging /\ "import" \in edits
  /\ Nodes \ c.made # {} /\ Room
  /\ old \in Shown(c) \cup {None} /\ (old # None => Lines \ c.made # {})
  /\ LET n == CHOOSE n \in Nodes \ c.made : TRUE
         l == IF old = None THEN None ELSE CHOOSE l \in Lines \ c.made : TRUE
         x == endMacro(loadLevel(beginMacro(beginMacro(c)), n, l, old))
     IN  Edit(LayOut(x))
  /\ stray' = stray \cup {"pos"}
  /\ stack' = removeTask(pushTask(pushTask(stack, "Import"), "Layout"), "Import")
  /\ from' = None
  /\ UNCHANGED <<drag, Bounds, stale>>

\* No file, a file that is not a DAG, or an id the user does not want to reuse.
importRefused ==
  /\ ~Dragging /\ "import" \in edits
  /\ stack' = removeTask(pushTask(stack, "Import"), "Import") /\ from' = None
  /\ UNCHANGED <<c, drag, Bounds, snap, stale, stray>>

\* What the forms of the inspector can hold.  Only a remote node's form has a
\* queue, the others answer an empty one; only the forms of HTTP, DAG and remote
\* nodes have properties with a dot in their key.
Forms ==
  {f \in [ToSet(Keys) -> 0..Invalid] :
     /\ f["field"] \in 0..1
     /\ f["queue"] \in (IF "remote" \in edits THEN 0..1 ELSE {Empty})
     /\ f["nested"] \in (IF "nested" \in edits THEN 0..1 ELSE {Invalid})}

\* InspectorPanel::saveNodeEdits for the selected node: a property is written if
\* the form differs from the value that was read before.  A key with a dot is read
\* whole, where setPropByKeyPath never wrote it, so that value is invalid.
OldValue(n, key) == IF key = "nested" THEN Invalid ELSE c.prop[n][key]
pushChanges(x, n, form) ==
  LET changed == SelectSeq(Keys, LAMBDA key : OldValue(n, key) # form[key])
  IN  FoldLeft(LAMBDA y, key : push(y, SetCommand(n, key, OldValue(n, key), form[key])),
               x, changed)

saveNodeEdits(form) ==
  /\ ~Dragging /\ "prop" \in edits /\ Room
  /\ \E n \in Selected(c) \cap Nodes : Edit(endMacro(pushChanges(beginMacro(c), n, form)))
  /\ UNCHANGED <<stack, drag, from, Bounds, stale, stray>>

\* InspectorPanel::saveDagEdits writes the command in any case.
saveDagEdits(v) ==
  /\ ~Dragging /\ "dag" \in edits /\ Room
  /\ Edit(endMacro(push(beginMacro(c), SetCommand(Dag, "field", c.prop[Dag]["field"], v))))
  /\ UNCHANGED <<stack, drag, from, Bounds, stale, stray>>

\* InspectorPanel::runDag takes over the form's values without a command.
runDag(v) ==
  /\ ~Dragging /\ "dag" \in edits
  /\ v # c.prop[Dag]["field"]
  /\ Keep([c EXCEPT !.prop[Dag]["field"] = v])
  /\ stray' = stray \cup {"prop"}
  /\ UNCHANGED <<stack, drag, from, Bounds, stale>>

Next ==
  \/ \E i \in Items \cup {None} : PressSelect(i)
  \/ PressCreate
  \/ \E n \in Nodes : PressConnect(n)
  \/ PressRight
  \/ \E p \in {Placed, Dragged} : MouseMove(p)
  \/ Release
  \/ Escape
  \/ \E l \in Lines : DoubleClick(l)
  \/ Undo
  \/ Redo
  \/ startCreateNodeMode
  \/ startConnectMode
  \/ deleteSelected
  \/ layoutDag
  \/ \E old \in Nodes \cup {None} : importJson(old)
  \/ importRefused
  \/ \E form \in Forms : saveNodeEdits(form)
  \/ \E v \in 0..1 : saveDagEdits(v)
  \/ \E v \in 0..1 : runDag(v)

Spec == Init /\ [][Next]_vars

-----------------------------------------------------------------------------
\* Nothing is promised once undo was used in the middle of a drag or a
\* connection, or a discarded Delete command has deleted items; the run does not
\* go on from there.
Promised == ~stale /\ ~c.lost

Without(S, v) ==
  [nodes |-> v.nodes, links |-> v.links, prop |-> v.prop,
   pos |-> IF "pos" \in S THEN {} ELSE v.pos,
   dag |-> IF "prop" \in S THEN {} ELSE v.dag]

(* Undo and redo lead back to exactly what was shown after that command: the  *)
(* nodes, the connections between shown nodes, positions and properties       *)
(* (command.cpp, QUndoStack).  Positions are excused once the layout or an    *)
(* abandoned drag moved nodes without a command, the properties of the DAG    *)
(* once a run took over unsaved values.  A property with a dot in its key can *)
(* be lost, and no other, once an edit of such a property was undone          *)
(* (inspector_panel.cpp reads the old value where base_item.cpp does not keep *)
(* it): it is then invalid now, or was when the command was made.             *)
UndoExact ==
  (Promised /\ ~c.open /\ ~drag.moved) =>
    LET now == View(c)  then == snap[c.index + 1]
    IN  /\ Without(stray, now) = Without(stray, then)
        /\ \A n \in now.nodes :
             \/ now.nested[n] = then.nested[n]
             \/ "nested" \in stray /\ Invalid \in {now.nested[n], then.nested[n]}

UndoneConnections ==
  {l \in Lines : \E k \in c.index + 1..Len(c.list) :
     CreateConnectionCommand(l) \in ToSet(c.list[k])}

(* The exported DAG (dag_serializer.cpp) has the dependencies the user sees,  *)
(* plus the connections that were undone and can still be redone: these stay  *)
(* in RectItem::lines_.                                                       *)
ExportedIsShown ==
  (Promised /\ ~c.open) =>
    Exported(c) = Links(c) \cup {l \in UndoneConnections : Ends(c, l) \subseteq Shown(c)}

(* As long as no discarded Delete command deletes items, and undo is not used *)
(* in the middle of a drag or a connection, no deleted item is used again:    *)
(* the destructors of the other commands own what they delete, and a deleted  *)
(* line leaves no trace in its ends (line_item.cpp).                          *)
ItemsSafe == Promised => ~c.ub
=============================================================================

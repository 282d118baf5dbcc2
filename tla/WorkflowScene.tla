---------------------------- MODULE WorkflowScene ----------------------------
(***************************************************************************)
(* The document of farm/automation/workflowmodel.cpp: nodes and the        *)
(* connections between their ports, how the editor changes it, and what the*)
(* validator says of it.  Then the WorkflowScene of                        *)
(* farm/ui/automation/workfloweditor.cpp that shows it: its undo and redo  *)
(* stacks, the move of nodes by the mouse and the note that there is       *)
(* something to save.                                                      *)
(*                                                                         *)
(* Of a node there are its id, its type, whether its required parameters   *)
(* are there, and what it does when it fails.  Names and texts are left out. *)
(* The scene is a record and an operation a function on it.  Its graphics  *)
(* items follow the document and are left out, but for the one thing they  *)
(* decide: a node that is moved is let go when the items are made anew.    *)
(***************************************************************************)
EXTENDS Naturals, SequencesExt, FiniteSetsExt

CONSTANTS
    Catalog,  \* node type |-> the sequence of its output ports
    MaxUndo   \* the documents the undo stack keeps

None == <<>>   \* no node: ids are non-empty sequences

Start == "start"

NodeOf(id, type) == [id |-> id, type |-> type, complete |-> TRUE, onFailure |-> "fail", pos |-> 0]

Ids(w) == {w.nodes[i].id : i \in DOMAIN w.nodes}

\* Workflow::node: the first with this id.
Node(w, id) == w.nodes[CHOOSE i \in DOMAIN w.nodes :
                           w.nodes[i].id = id /\ \A j \in 1..(i - 1) : w.nodes[j].id # id]

\* startNodeId: the first start node, or else the first node.
StartNodeId(w) ==
    LET starts == SelectSeq(w.nodes, LAMBDA n : n.type = Start)
    IN  IF starts # <<>> THEN starts[1].id ELSE IF w.nodes # <<>> THEN w.nodes[1].id ELSE None

NextNodes(w, id, port) == SelectSeq(w.connections, LAMBDA c : c.from = id /\ c.port = port)
NextNode(w, id, port) ==
    LET next == NextNodes(w, id, port) IN IF next = <<>> THEN None ELSE next[1].to
-----------------------------------------------------------------------------
(* The editor *)

AddNode(w, node) == [w EXCEPT !.nodes = Append(@, node)]

\* The node and every connection it has.
RemoveNode(w, id) ==
    [w EXCEPT !.nodes = IF id \in Ids(w) THEN RemoveFirst(@, Node(w, id)) ELSE @,
              !.connections = SelectSeq(@, LAMBDA c : id \notin {c.from, c.to})]

\* A port has one connection: the one that was there goes.
ConnectNodes(w, from, port, to) ==
    IF from = to THEN w
    ELSE [w EXCEPT !.connections =
             Append(SelectSeq(@, LAMBDA c : ~(c.from = from /\ c.port = port)),
                    [from |-> from, port |-> port, to |-> to])]

\* To one node, or to any.
Disconnect(w, from, port, to) ==
    [w EXCEPT !.connections =
        SelectSeq(@, LAMBDA c : ~(c.from = from /\ c.port = port /\ to \in {None, c.to}))]
-----------------------------------------------------------------------------
(* WorkflowValidator::validate *)

Known(n) == n.type \in DOMAIN Catalog

Outputs(w, id) == LET n == Node(w, id) IN IF Known(n) THEN Catalog[n.type] ELSE <<>>

NodeErrors(w) ==
    {"duplicate id" : i \in {i \in DOMAIN w.nodes : \E j \in 1..(i - 1) : w.nodes[j].id = w.nodes[i].id}}
    \cup {IF ~Known(n) THEN "unknown type" ELSE IF ~n.complete THEN "missing parameter"
          ELSE "invalid onFailure" :
             n \in {n \in ToSet(w.nodes) :
                       ~Known(n) \/ ~n.complete \/ n.onFailure \notin {"fail", "continue", "stop"}}}

StartErrors(w) ==
    IF Len(SelectSeq(w.nodes, LAMBDA n : n.type = Start)) = 1 THEN {} ELSE {"not one Start node"}

\* A node whose type has no ports may have connections from any, and a port of a
\* switch is not checked.
ConnectionErrors(w) ==
    {IF {c.from, c.to} \subseteq Ids(w) THEN "no such port" ELSE "unknown node" :
        c \in {c \in ToSet(w.connections) :
                  \/ c.from \notin Ids(w)
                  \/ c.to \notin Ids(w)
                  \/ Outputs(w, c.from) # <<>> /\ c.port \notin ToSet(Outputs(w, c.from)) \cup {"case:"}}}

IsValid(w) == NodeErrors(w) \cup StartErrors(w) \cup ConnectionErrors(w) = {}
-----------------------------------------------------------------------------
(* What the editor and the validator promise *)

OnePerPort(w) == \A i, j \in DOMAIN w.connections :
    w.connections[i].from = w.connections[j].from /\ w.connections[i].port = w.connections[j].port => i = j

\* What a user can do to w who does not touch its start node: `fresh` is the new node.
Edits(w, fresh) ==
    {AddNode(w, fresh)}
    \cup {RemoveNode(w, id) : id \in Ids(w) \ {StartNodeId(w)}}
    \cup UNION {UNION {{ConnectNodes(w, from, port, to), Disconnect(w, from, port, to),
                        Disconnect(w, from, port, None)} :
                           port \in ToSet(Outputs(w, from)), to \in Ids(w)} : from \in Ids(w)}

\* tests/tst_workflow.cpp: no edit makes a valid workflow invalid or gives a port two
\* targets, so that nextNode does not depend on the order of the connections; and a
\* connection that was drawn is the one that is followed.
EditsKeepWorkflows(w, fresh) ==
    IsValid(w) /\ OnePerPort(w) =>
        /\ \A edited \in Edits(w, fresh) : IsValid(edited) /\ OnePerPort(edited)
        /\ \A from, to \in Ids(w) : \A port \in ToSet(Outputs(w, from)) :
               from # to => NextNode(ConnectNodes(w, from, port, to), from, port) = to
-----------------------------------------------------------------------------
(* The scene *)

\* `before` is the document when the mouse took hold of a node.  For the properties only:
\* `saved` is what was last opened or saved, and `lost` whether the undo stack let go of a
\* document.
Opened(w) == [w |-> w, undo |-> <<>>, redo |-> <<>>, dirty |-> FALSE,
              before |-> None, held |-> FALSE, saved |-> w, lost |-> FALSE]

Newest(h) == SubSeq(h, Max({1, Len(h) - MaxUndo + 1}), Len(h))

Remember(s, w) == [s EXCEPT !.undo = Newest(Append(@, w)), !.redo = <<>>,
                            !.lost = @ \/ Len(s.undo) = MaxUndo]

\* pushUndo, the change and touched; rebuild where the items are made anew.
Change(s, w)  == [Remember(s, s.w) EXCEPT !.w = w, !.dirty = TRUE]
Rebuild(s)    == [s EXCEPT !.held = FALSE]
Rebuilt(s, w) == Rebuild(Change(s, w))
-----------------------------------------------------------------------------
(* Operations *)

Add(s, node) == Rebuilt(s, AddNode(s.w, node))

\* Start nodes stay.
RemoveSelected(s, ids, edges) ==
    LET gone == {id \in ids : Node(s.w, id).type # Start}
        rest == FoldSet(LAMBDA id, w : RemoveNode(w, id), s.w, gone)
    IN  IF ids = {} /\ edges = {} THEN s
        ELSE Rebuilt(s, FoldSet(LAMBDA c, w : Disconnect(w, c.from, c.port, c.to), rest, edges))

Connect(s, from, port, to) ==
    IF from = to \/ ~({from, to} \subseteq Ids(s.w)) THEN s
    ELSE Rebuilt(s, ConnectNodes(s.w, from, port, to))

Replace(w, node) ==
    [w EXCEPT !.nodes = [i \in DOMAIN @ |-> IF @[i] = Node(w, node.id) THEN node ELSE @[i]]]

\* A switch loses the connections of cases it no longer has.
UpdateNode(s, node, ports) ==
    IF node.id \notin Ids(s.w) THEN s
    ELSE Change(s, [Replace(s.w, node) EXCEPT !.connections =
            SelectSeq(@, LAMBDA c : ~(node.type = "switch" /\ c.from = node.id /\ c.port \notin ports))])

\* pasteJson of copySelectedJson: copies with new ids and the connections between them; a
\* start node is not copied.
Duplicate(s, ids, new) ==
    LET NewId(id)  == Append(id, new)
        Copied(id) == id \in ids /\ Node(s.w, id).type # Start
        nodes == SelectSeq(s.w.nodes, LAMBDA n : Copied(n.id))
        conns == SelectSeq(s.w.connections, LAMBDA c : Copied(c.from) /\ Copied(c.to))
    IN  IF ids = {} THEN s
        ELSE Rebuilt(s, [s.w EXCEPT
                !.nodes = @ \o [i \in DOMAIN nodes |->
                                  [nodes[i] EXCEPT !.id = NewId(@), !.pos = @ + 1]],
                !.connections = @ \o [i \in DOMAIN conns |->
                                  [conns[i] EXCEPT !.from = NewId(@), !.to = NewId(@)]]])

Undo(s) ==
    IF s.undo = <<>> THEN s
    ELSE Rebuild([s EXCEPT !.w = Last(s.undo), !.undo = Front(@), !.redo = Append(@, s.w), !.dirty = TRUE])

Redo(s) ==
    IF s.redo = <<>> THEN s
    ELSE Rebuild([s EXCEPT !.w = Last(s.redo), !.redo = Front(@), !.undo = Append(@, s.w), !.dirty = TRUE])

Save(s) == [s EXCEPT !.dirty = FALSE, !.saved = s.w]
-----------------------------------------------------------------------------
(* The mouse *)

\* noteDragStart
Press(s) == [s EXCEPT !.before = s.w, !.held = TRUE]

\* No undo step until the button is released.
MoveNode(s, id, pos) ==
    IF id \notin Ids(s.w) \/ Node(s.w, id).pos = pos THEN s
    ELSE [s EXCEPT !.w = Replace(s.w, [Node(s.w, id) EXCEPT !.pos = pos]), !.dirty = TRUE]

Moved(s) == \E id \in Ids(s.w) \cap Ids(s.before) : Node(s.w, id).pos # Node(s.before, id).pos

Release(s) ==
    LET t == IF Moved(s) THEN [Remember(s, s.before) EXCEPT !.dirty = TRUE] ELSE s
    IN  [t EXCEPT !.before = None, !.held = FALSE]
-----------------------------------------------------------------------------
(* What the user can do next: the keys rest while a node is held.  `new` is  *)
(* what ids are new with.                                                   *)

Fresh(new)   == [NodeOf(<<new>>, "switch") EXCEPT !.pos = 0]

Keys(s, new) ==
    {Add(s, Fresh(new)), Undo(s), Redo(s), Save(s), Press(s),
     Duplicate(s, Ids(s.w), new),
     RemoveSelected(s, Ids(s.w), {}), RemoveSelected(s, {}, ToSet(s.w.connections))}
    \cup {Connect(s, StartNodeId(s.w), "out", to) : to \in Ids(s.w)}
    \cup {UpdateNode(s, [Node(s.w, id) EXCEPT !.onFailure = "stop"], {"body"}) :
             id \in Ids(s.w) \ {StartNodeId(s.w)}}

Following(s, new) ==
    IF ~s.held THEN Keys(s, new)
    ELSE {Release(s)} \cup {MoveNode(s, id, pos) : id \in Ids(s.w), pos \in 0..1}

RECURSIVE Reached(_, _, _)

\* After the given number of steps, or fewer.
Reached(found, seen, steps) ==
    IF steps = 0 THEN seen
    ELSE LET new == UNION {Following(s, 10 + steps) : s \in found} \ seen
         IN  Reached(new, seen \cup new, steps - 1)
-----------------------------------------------------------------------------
\* Undo and redo are each other's inverse, and undoing everything brings back the document
\* that was opened, moves included, unless it has left the stack.
HistoryIsKept(s, opened) ==
    /\ s.undo # <<>> => [Redo(Undo(s)) EXCEPT !.dirty = s.dirty, !.held = s.held] = s
    /\ s.redo # <<>> => [Undo(Redo(s)) EXCEPT !.dirty = s.dirty, !.held = s.held] = s
    /\ ~s.held => Head(Append(s.undo, s.w)) = opened \/ s.lost

\* Whatever is done to a valid workflow it stays one that a worker can follow, and nothing
\* is lost without a warning: a scene that is not dirty shows what was saved.
DocumentIsSound(s) == IsValid(s.w) /\ OnePerPort(s.w) /\ (s.dirty \/ s.w = s.saved)
=============================================================================

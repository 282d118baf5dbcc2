--------------------------- MODULE AutomationsPage ---------------------------
(***************************************************************************)
(* The page of the workflows, farm/ui/pages/automationspage.cpp: the library  *)
(* of what is stored, the one workflow in the editor, the questions the page  *)
(* asks before it replaces or deletes it, and the panel of the runs.          *)
(*                                                                         *)
(* A question holds up the user and nobody else: the answer of an AI provider *)
(* may come while one is open, with questions of its own above it.  What a    *)
(* workflow contains is a number, a greater one with every edit; Blank is a   *)
(* workflow nobody would miss.                                              *)
(***************************************************************************)
EXTENDS Integers, SequencesExt, FiniteSetsExt

CONSTANTS
    Ids,         \* workflows there can be: numbers, in the order of their names
    MaxEdits     \* bound: contents there can be

None  == 0
NoRow == -1
Blank == 0

\* `seen`: what of its row the editor was filled with, or has stored.
Workflow(id, content, seen) == [id |-> id, content |-> content, seen |-> seen]

\* The page has asked for `replies`; the rest is what happened to the user's work
\* that he did not want: contents lost, a deletion of another workflow, a run of what is not stored.
Page(db) ==
    [db |-> db, current |-> None, row |-> None, editor |-> Workflow(None, Blank, Blank), dirty |-> FALSE,
     asked |-> <<>>, replies |-> 0, edits |-> Max({db[id] : id \in Ids} \cup {0}),
     lost |-> {}, wrong |-> FALSE, unsaved |-> FALSE]

Stored(s)  == {id \in Ids : s.db[id] # NoRow}
Unused(s)  == Min(Ids \ (Stored(s) \cup {s.editor.id}))
Asks(s, q) == [s EXCEPT !.asked = Append(@, q)]
Settled(s) == [s EXCEPT !.asked = Front(@)]

ReloadLibrary(s) == [s EXCEPT !.row = IF s.current \in Stored(s) THEN s.current ELSE None]

\* Another workflow takes the place of the one in the editor.
SetWorkflow(s, w, agreed) ==
    [s EXCEPT !.editor = w, !.dirty = FALSE,
              !.lost = @ \cup (IF agreed \/ s.editor.content \in {s.db[id] : id \in Ids} \cup {Blank} THEN {}
                               ELSE {s.editor.content})]

\* A row that cannot be read is an empty workflow without identity.
LoadFinish(s, id, agreed, readable) ==
    LET w == IF readable THEN Workflow(id, s.db[id], s.db[id]) ELSE Workflow(None, Blank, Blank)
    IN  [SetWorkflow(s, w, agreed) EXCEPT !.current = id, !.row = id]

\* Whether it could be saved is not looked at.
OpenFinish(s, w, agreed, saved) ==
    LET overwritten == IF s.db[w.id] \in {NoRow, w.content} THEN {} ELSE {s.db[w.id]}
        t == IF saved THEN [s EXCEPT !.db[w.id] = w.content, !.lost = @ \cup overwritten] ELSE s
    IN  SetWorkflow(ReloadLibrary([t EXCEPT !.current = w.id]), [w EXCEPT !.seen = w.content], agreed)

\* What was asked for goes on, with the unsaved edits saved or given up.
GoesOn(s, then, agreed, ok) ==
    CASE then.do = "load" -> LoadFinish(s, then.id, agreed, ok)
      [] then.do = "open" -> OpenFinish(s, then.workflow, agreed, ok)
      [] then.do = "run"  -> [s EXCEPT !.unsaved = @ \/ s.editor.content # s.editor.seen]
      [] then.do = "save" -> s

CalledOff(s, then) ==
    IF then.do = "load" /\ s.current \in Stored(s) THEN [s EXCEPT !.row = s.current] ELSE s

ConfirmDiscard(s, then, ok) ==
    IF s.dirty THEN Asks(s, [ask |-> "unsaved", then |-> then]) ELSE GoesOn(s, then, FALSE, ok)

Save(s, w, then, ok) ==
    LET id == IF w.id # None THEN w.id ELSE IF s.current # None THEN s.current ELSE Unused(s)
        unseen == IF s.db[id] \in {NoRow, w.seen, w.content} THEN {} ELSE {s.db[id]}
        t == [s EXCEPT !.db[id] = w.content, !.lost = @ \cup unseen, !.current = id, !.dirty = FALSE]
        u == IF s.editor.id = w.id THEN [t EXCEPT !.editor.seen = w.content] ELSE t
    IN  IF ok THEN GoesOn(ReloadLibrary(u), then, FALSE, TRUE) ELSE CalledOff(s, then)

SaveCurrent(s, then, valid, ok) ==
    IF valid THEN Save(s, s.editor, then, ok)
    ELSE Asks(s, [ask |-> "errors", workflow |-> s.editor, then |-> then])

\* What is deleted is what m_currentId says when the answer is yes; what was asked for has the
\* name of what is in the editor.
DeleteFinish(s, named, ok) ==
    LET gone  == [s EXCEPT !.db[s.current] = IF ok THEN NoRow ELSE @, !.current = None, !.row = None,
                           !.dirty = FALSE, !.wrong = @ \/ s.current # named]
    IN  IF Stored(gone) # {} THEN LoadFinish(gone, Min(Stored(gone)), TRUE, TRUE)
        ELSE SetWorkflow(gone, Workflow(Unused(gone), Blank, Blank), TRUE)

\* The answers to the question on top
Answers(s, oks) ==
    LET q == Last(s.asked)
        t == Settled(s)
    IN  CASE q.ask = "unsaved" ->
                {CalledOff(t, q.then)} \cup {GoesOn(t, q.then, TRUE, ok) : ok \in oks}
                \cup {SaveCurrent(t, q.then, valid, ok) : valid \in BOOLEAN, ok \in oks}
          [] q.ask = "errors" ->
                {CalledOff(t, q.then)} \cup {Save(t, q.workflow, q.then, ok) : ok \in oks}
          [] q.ask = "delete" -> {t} \cup {DeleteFinish(t, q.named, ok) : ok \in oks}
          [] q.ask = "review" -> {t} \cup {ConfirmDiscard(t, [do |-> "open", workflow |-> q.workflow], ok) : ok \in oks}

\* A new workflow, a copy, an import or a recorded macro
OpenNew(s, ok) ==
    ConfirmDiscard([s EXCEPT !.edits = @ + 1],
                   [do |-> "open", workflow |-> Workflow(Unused(s), s.edits + 1, Blank)], ok)

Edit(s) == [s EXCEPT !.edits = @ + 1, !.dirty = TRUE, !.editor.content = s.edits + 1]

UserDoes(s, oks) ==
    LET room == s.edits < MaxEdits /\ Ids \ (Stored(s) \cup {s.editor.id}) # {}
        save(then) == {SaveCurrent(s, then, valid, ok) : valid \in BOOLEAN, ok \in oks}
    IN  (IF s.edits < MaxEdits THEN {Edit(s)} ELSE {})
        \cup (IF room THEN {OpenNew(s, ok) : ok \in oks} ELSE {})
        \cup {ConfirmDiscard([s EXCEPT !.row = id], [do |-> "load", id |-> id], ok) :
                 id \in Stored(s) \ {s.current}, ok \in oks}
        \cup (IF s.editor.id = None /\ s.current = None /\ ~room THEN {} ELSE save([do |-> "save"]))
        \cup (IF s.dirty THEN (IF s.editor.id = None /\ s.current = None /\ ~room THEN {} ELSE save([do |-> "run"]))
              ELSE {GoesOn(s, [do |-> "run"], FALSE, TRUE)})
        \cup (IF s.current = None THEN {} ELSE {Asks(s, [ask |-> "delete", named |-> s.editor.id])})
        \cup (IF s.replies = 0 /\ room THEN {[s EXCEPT !.replies = 1]} ELSE {})

\* generateWithAi: the workflow has the identity the provider gave it, if any.
ReplyComes(s, id) ==
    Asks([s EXCEPT !.replies = 0, !.edits = @ + 1], [ask |-> "review", workflow |-> Workflow(id, s.edits + 1, Blank)])

\* What may go wrong: a provider that answers while a question is open ("late") or gives
\* identities ("names"), the database ("write", "read").
PageGoes(s, faults) ==
    LET oks == {TRUE} \cup (IF "database" \in faults THEN {FALSE} ELSE {})
        ids == (IF Ids \ (Stored(s) \cup {s.editor.id}) = {} THEN {} ELSE {Unused(s)})
               \cup (IF "names" \in faults THEN Stored(s) ELSE {})
    IN  (IF s.asked = <<>> THEN UserDoes(s, oks) ELSE Answers(s, oks))
        \cup (IF s.replies > 0 /\ s.edits < MaxEdits /\ (s.asked = <<>> \/ "late" \in faults)
              THEN {ReplyComes(s, id) : id \in ids} ELSE {})

RECURSIVE Pages(_, _, _)

Pages(found, seen, faults) ==
    LET new == UNION {PageGoes(s, faults) : s \in found} \ seen
    IN  IF new = {} THEN seen ELSE Pages(new, seen \cup new, faults)

\* Starts with a library, and the first of it in the editor.
Started(db) == LoadFinish(Page(db), Min(Stored(Page(db))), TRUE, TRUE)

\* No edit goes unless it is stored, or the user gave it up, and no row is written over that the
\* editor did not show.
NothingIsLost(s) == s.lost = {}
\* A question is about what it names.
DeletesWhatItNames(s) == ~s.wrong
\* The library marks what is in the editor, and what is not marked as changed is stored.
EditorIsMarked(s) ==
    s.asked = <<>> =>
        /\ \/ s.current = s.editor.id /\ s.row = s.current
           \/ s.current = None /\ Stored(s) = {}
        /\ ~s.dirty /\ s.editor.content # Blank => s.db[s.editor.id] = s.editor.content
\* What runs has been stored.
RunsAreSaved(s) == ~s.unsaved
-----------------------------------------------------------------------------
(* The runs: the engine's, newest first, and the panel's list of them.       *)

Panel == [runs |-> <<>>, active |-> {}, list |-> <<>>, row |-> None, shown |-> None, made |-> 0]

\* Only when the set of runs changed is the list made anew.
ReloadRuns(p) ==
    LET row == IF p.row \in ToSet(p.runs) THEN p.row ELSE None
        shown == IF p.shown \in ToSet(p.runs) THEN p.shown ELSE None
    IN  IF p.list = p.runs THEN p ELSE [p EXCEPT !.list = p.runs, !.row = row, !.shown = shown]

ShowRow(p, i) == [p EXCEPT !.row = p.list[i], !.shown = p.list[i]]

\* WorkflowEngine::start, with its pruning, and runAdded
RunStarts(p, kept) ==
    LET all   == <<p.made + 1>> \o p.runs
        runs  == IF Len(all) > kept /\ Last(all) \notin p.active THEN Front(all) ELSE all
    IN  ShowRow(ReloadRuns([p EXCEPT !.runs = runs, !.made = @ + 1, !.active = @ \cup {p.made + 1}]), 1)

RunEnds(p, run)  == ReloadRuns([p EXCEPT !.active = @ \ {run}])
RunRetried(p)    == ReloadRuns([p EXCEPT !.active = @ \cup {p.shown}])

\* clearFinished removes one after the other.
ClearFinished(p) ==
    FoldLeft(LAMBDA q, run : IF run \in p.active THEN q ELSE ReloadRuns([q EXCEPT !.runs = Remove(@, run)]), p, p.runs)

PanelGoes(p, kept, most) ==
    (IF p.made < most THEN {RunStarts(p, kept)} ELSE {}) \cup {RunEnds(p, run) : run \in p.active}
    \cup {ClearFinished(p)} \cup {ShowRow(p, i) : i \in DOMAIN p.list}
    \cup (IF p.shown \in ToSet(p.runs) \ p.active THEN {RunRetried(p)} ELSE {})

RECURSIVE Panels(_, _, _, _)

Panels(found, seen, kept, most) ==
    LET new == UNION {PanelGoes(p, kept, most) : p \in found} \ seen
    IN  IF new = {} THEN seen ELSE Panels(new, seen \cup new, kept, most)

\* The panel lists the runs there are; the buttons command the one that is marked.
PanelIsTrue(p) == p.list = p.runs /\ p.row = p.shown /\ p.shown \in ToSet(p.runs) \cup {None}
=============================================================================

----------------------------- MODULE DeviceWall -----------------------------
(***************************************************************************)
(* The wall of tiles: DeviceGrid, DeviceTile, FocusPanel and the part of     *)
(* DevicesPage that wires them.  What tiles there are, in which order and    *)
(* which are selected; which of them draw the frames of their device; host    *)
(* mode; and which devices a press of the mouse goes to.                     *)
(*                                                                         *)
(* The wall is a record and a handler a function on it.  The tiles stand one  *)
(* below the other and the view shows `height` of them.  Frames are numbered   *)
(* from one within a session of the core.                                   *)
(***************************************************************************)
EXTENDS Integers, SequencesExt, FiniteSetsExt

\* Devices are numbers, in the order the wall is sorted by.
Nobody  == 0
NoFrame == 0

\* `row` is where the last relayout put the tile.
NewTile == [priority |-> "visible", row |-> 1, streaming |-> FALSE, video |-> FALSE,
            shown |-> NoFrame, stale |-> FALSE]

Sorted(ids) == SetToSortSeq(ids, <)

\* `live` has the sessions of the core: the newest frame and who watches it.  `ordering` and
\* `placing` are the timers of refreshOrder and of relayout or updateRenderPriorities.
\* For the properties only: `down` is the phones with the finger of a press on them,
\* `held` the tile that was pressed.
NewWall(ids, height) ==
    [tiles |-> FoldSet(LAMBDA id, f : (id :> NewTile) @@ f, <<>>, ids), order |-> Sorted(ids), selected |-> {}, anchor |-> Nobody,
     top |-> 1, height |-> height, ordering |-> FALSE, placing |-> FALSE,
     focus |-> Nobody, panel |-> Nobody, panelShown |-> <<Nobody, NoFrame>>,
     followers |-> {}, all |-> FALSE,
     live |-> <<>>, down |-> {}, held |-> Nobody]

Known(w)     == DOMAIN w.tiles
Mirroring(w) == DOMAIN w.live
Without(f, id) == FoldSet(LAMBDA x, g : (x :> f[x]) @@ g, <<>>, DOMAIN f \ {id})
-----------------------------------------------------------------------------
(* Frames and who draws them *)

\* onFrame of the tile: one out of the view draws now and then, and only if it has
\* drawn before.
Drawn(tile, frame, rests) ==
    IF tile.priority = "hidden" \/ (tile.priority = "offscreen" /\ (~tile.video \/ rests))
    THEN [tile EXCEPT !.stale = TRUE]
    ELSE [tile EXCEPT !.stale = FALSE, !.shown = frame, !.video = TRUE, !.streaming = TRUE]

\* replayLastFrame: the newest frame once more, if there is one.
Replay(w, id, rests) ==
    IF id \notin Mirroring(w) \/ w.live[id].frame = NoFrame THEN w
    ELSE [w EXCEPT !.tiles[id] = Drawn(w.tiles[id], w.live[id].frame, rests)]

\* The decoder has a frame: everyone who watches the device gets it.
FrameOf(w, id, rests) ==
    LET next == w.live[id].frame + 1
        by   == w.live[id].by
    IN  [w EXCEPT !.live[id].frame = next,
                  !.tiles[id] = IF "tile" \in by THEN Drawn(w.tiles[id], next, rests) ELSE @,
                  !.panelShown = IF "panel" \in by THEN <<id, next>> ELSE @]

\* One screen above and one below the view are near it.
PriorityOf(w, id) ==
    LET below == w.tiles[id].row - w.top
    IN  IF id = w.focus THEN "focused"
        ELSE IF below \in 0..(w.height - 1) THEN "visible"
        ELSE IF below \in (-w.height)..(2 * w.height - 1) THEN "offscreen"
        ELSE "hidden"

InView(priority) == priority \in {"visible", "focused"}

\* A tile that comes into view and has missed a frame asks for it.
UpdateRenderPriorities(w) ==
    LET Renewed(v, id) ==
            LET p    == PriorityOf(v, id)
                asks == InView(p) /\ ~InView(v.tiles[id].priority) /\ v.tiles[id].stale
                u    == [v EXCEPT !.tiles[id].priority = p]
            IN  IF asks THEN Replay(u, id, FALSE) ELSE u
    IN  FoldLeft(Renewed, w, SelectSeq(w.order, LAMBDA id : id \in Known(w)))

Position(w, id) == SelectInSeq(w.order, LAMBDA x : x = id)

\* The timer of relayout; that of scrollContentsBy leaves the rows.
Relayout(w) ==
    LET Place(id, tiles) == [tiles EXCEPT ![id].row = Position(w, id)]
    IN  UpdateRenderPriorities([w EXCEPT !.placing = FALSE,
            !.tiles = FoldSet(Place, w.tiles, Known(w) \cap ToSet(w.order))])

Scroll(w, top) == [w EXCEPT !.top = top, !.placing = TRUE]

SetOrder(w, ids) ==
    LET Hide(id, tiles) == [tiles EXCEPT ![id].priority = "hidden"]
    IN  IF ids = w.order THEN w
        ELSE [w EXCEPT !.order = ids, !.placing = TRUE,
                       !.tiles = FoldSet(Hide, w.tiles, Known(w) \ ToSet(ids))]

\* The filter and the search keep some of the devices; where they keep none, `sorted` has all.
RefreshOrder(w, keep) ==
    LET kept == Known(w) \cap keep
    IN  [SetOrder(w, Sorted(IF kept = {} THEN Known(w) ELSE kept)) EXCEPT !.ordering = FALSE]
-----------------------------------------------------------------------------
(* Selection *)

\* DevicesPage follows every change: the followers of the host are the selected devices,
\* or all that mirror.
UpdateHostFollowers(w) ==
    IF w.focus = Nobody THEN w
    ELSE [w EXCEPT !.followers = (IF w.all THEN Mirroring(w) ELSE w.selected) \ {w.focus, w.panel}]

Select(w, ids) == UpdateHostFollowers([w EXCEPT !.selected = ids])

Between(w, a, b) ==
    LET i == Position(w, a)
        j == Position(w, b)
    IN  {w.order[k] : k \in Min({i, j})..Max({i, j})}

Toggle(ids, id) == IF id \in ids THEN ids \ {id} ELSE ids \cup {id}

\* Shift selects from the anchor to here; without it a click adds or takes away.
OnTileClicked(w, id, shift, ctrl) ==
    IF ~shift THEN Select([w EXCEPT !.anchor = id], Toggle(w.selected, id))
    ELSE IF {w.anchor, id} \subseteq ToSet(w.order)
         THEN Select(w, (IF ctrl THEN w.selected ELSE {}) \cup Between(w, w.anchor, id))
         ELSE Select(w, w.selected \cup {id})

ApplyRubberSelection(w, ids, additive) ==
    Select(w, (IF additive THEN w.selected ELSE {}) \cup (ids \cap ToSet(w.order)))

SelectAll(w)       == Select(w, ToSet(w.order))
InvertSelection(w) == Select(w, ToSet(w.order) \ w.selected)
ClearSelection(w)  == IF w.selected = {} THEN w ELSE Select(w, {})

\* An arrow moves the anchor by one, from the first tile when it is nowhere.
KeyPressed(w, delta, shift) ==
    LET here == IF Position(w, w.anchor) = 0 /\ w.order # <<>> THEN 1 ELSE Position(w, w.anchor)
        next == here + delta - 1   \* delta 0 is back, 2 is on
        id   == w.order[next]
    IN  IF next \notin DOMAIN w.order THEN w
        ELSE Select([w EXCEPT !.anchor = id], IF shift THEN w.selected \cup {id} ELSE {id})

\* "Selected but currently filtered out still count."
Selection(w) == w.selected
-----------------------------------------------------------------------------
(* Host mode *)

UnbindDevice(w) ==
    IF w.panel \in Mirroring(w) THEN [w EXCEPT !.live[w.panel].by = @ \ {"panel"}] ELSE w

\* The panel that shows the device already keeps its registration, or its lack of one.
ShowDevice(w, id) ==
    LET u == [UnbindDevice(w) EXCEPT !.panel = id, !.followers = @ \ {id}]
    IN  IF w.panel = id THEN w
        ELSE IF id \in Mirroring(w) THEN [u EXCEPT !.live[id].by = @ \cup {"panel"}] ELSE u

\* 60 and 250 ms after showDevice.
PanelReplay(w) ==
    IF w.panel \notin Mirroring(w) \/ w.live[w.panel].frame = NoFrame THEN w
    ELSE [w EXCEPT !.panelShown = <<w.panel, w.live[w.panel].frame>>]

SetFocusedId(w, id) == UpdateRenderPriorities([w EXCEPT !.focus = id])

OpenHost(w, id) == UpdateHostFollowers(ShowDevice(SetFocusedId(w, id), id))
CloseHost(w)    == SetFocusedId([UnbindDevice(w) EXCEPT !.panel = Nobody], Nobody)

\* On a device that does not mirror a double click only starts its mirror.
OnTileDoubleClicked(w, id) ==
    IF id \notin Mirroring(w) THEN w
    ELSE IF w.focus = id THEN CloseHost(w) ELSE OpenHost(w, id)

\* The panel's button: detach, and closeHost of the page.
CloseClicked(w) == CloseHost([UnbindDevice(w) EXCEPT !.panel = Nobody])

ControlAll(w, on) == UpdateHostFollowers([w EXCEPT !.all = on])
-----------------------------------------------------------------------------
(* Devices and mirrors come and go *)

OnDeviceAdded(w, id) ==
    [w EXCEPT !.tiles = IF id \in Known(w) THEN @ ELSE (id :> NewTile) @@ w.tiles, !.ordering = TRUE]

\* The core has a session; attachTile.
OnMirrorStarted(w, id) ==
    LET u == [w EXCEPT !.live = (id :> [frame |-> NoFrame, by |-> {"tile"}]) @@ w.live]
    IN  [Replay(u, id, FALSE) EXCEPT !.tiles[id].streaming = TRUE]

\* Its last words while the session still is: detachTile, and releaseVideo of a tile that
\* streamed.  The finger of a press goes with the session, and with the surface of the
\* pressed tile goes the release of the button.
OnMirrorStopped(w, id) ==
    LET t == [w.tiles[id] EXCEPT !.streaming = FALSE,
                                 !.video = @ /\ ~w.tiles[id].streaming,
                                 !.shown = IF w.tiles[id].streaming THEN NoFrame ELSE @]
        u == [w EXCEPT !.live[id].by = @ \ {"tile"}, !.tiles[id] = t]
        v == IF id = w.focus THEN CloseHost(u) ELSE u
    IN  [v EXCEPT !.live = Without(v.live, id), !.down = @ \ {id}, !.held = IF @ = id THEN Nobody ELSE @]

\* actForget: the mirror is stopped before the device is removed.
RemoveTile(w, id) ==
    LET u == [w EXCEPT !.tiles = Without(w.tiles, id), !.order = SelectSeq(@, LAMBDA x : x # id), !.placing = TRUE]
    IN  IF id \in w.selected THEN Select(u, w.selected \ {id}) ELSE u

OnDeviceRemoved(w, id) ==
    [RemoveTile(IF id = w.focus THEN CloseHost(w) ELSE w, id) EXCEPT !.ordering = TRUE]

Forget(w, id) == OnDeviceRemoved(IF id \in Mirroring(w) THEN OnMirrorStopped(w, id) ELSE w, id)
-----------------------------------------------------------------------------
(* The mouse on a tile that drives its device *)

InputTargets(w, source) ==
    IF w.all THEN Mirroring(w)
    ELSE IF Cardinality(w.selected) > 1 /\ source \in w.selected THEN Selection(w)
    ELSE {source}

TargetsFor(w, clicked) ==
    IF clicked # Nobody /\ clicked \notin w.selected THEN {clicked} ELSE Selection(w)

\* Files dropped on a tile go to it or to the selection; with none of these to all online.
DropTargets(w, dropped, online) ==
    IF TargetsFor(w, dropped) # {} THEN TargetsFor(w, dropped) ELSE online

Reach(w, source) == InputTargets(w, source) \cap Mirroring(w)

\* A press is a click first, so it changes the selection, and then it goes to the devices.
Press(w, id, shift, ctrl) ==
    LET u == OnTileClicked(w, id, shift, ctrl)
    IN  [u EXCEPT !.down = @ \cup Reach(u, id), !.held = id]

Release(w) == [w EXCEPT !.down = @ \ Reach(w, w.held), !.held = Nobody]

\* Whom the panel's mouse, keys and buttons go to, the master first.
PanelTargets(w, sync) ==
    SelectSeq(<<w.panel>> \o (IF sync THEN Sorted(w.followers) ELSE <<>>), LAMBDA id : id \in Mirroring(w))
-----------------------------------------------------------------------------
(* What can happen next.  Host mode is entered by a double click, while a     *)
(* button is held the user touches nothing else, and the mirror of the host   *)
(* does not end in the moment its tile comes back through the filter.         *)

Clicks(w) ==
    {OnTileClicked(w, id, shift, ctrl) : id \in ToSet(w.order), shift, ctrl \in BOOLEAN}
    \cup {KeyPressed(w, delta, shift) : delta \in {0, 2}, shift \in BOOLEAN}
    \cup {ApplyRubberSelection(w, ids, additive) : ids \in SUBSET Known(w), additive \in BOOLEAN}
    \cup {SelectAll(w), InvertSelection(w), ClearSelection(w)}

ComesBack(w, id) == w.tiles[id].priority = "hidden" /\ Contains(w.order, id)

\* The mirror of the pressed tile ends only when no other phone has the press.
Sessions(w) ==
    {OnMirrorStarted(w, id) : id \in Known(w) \ Mirroring(w)}
    \cup {OnMirrorStopped(w, id) : id \in {x \in Mirroring(w) :
            /\ x = w.held => w.down \subseteq {x}
            /\ ~(x = w.focus /\ ComesBack(w, x))}}

Timers(w) ==
    (IF w.placing THEN {Relayout(w)} ELSE {})
    \cup (IF w.ordering THEN {RefreshOrder(w, Known(w))} ELSE {})

\* At most two frames of a session.
Frames(w) ==
    {FrameOf(w, id, rests) : id \in {x \in Mirroring(w) : w.live[x].frame < 2}, rests \in BOOLEAN}

Fleet(w, ids) ==
    {OnDeviceAdded(w, id) : id \in ids \ Known(w)}
    \cup {Forget(w, id) : id \in {x \in Known(w) : ~(x = w.focus /\ ComesBack(w, x))}}

Host(w) == {OnTileDoubleClicked(w, id) : id \in ToSet(w.order)} \cup {CloseClicked(w), PanelReplay(w)}

\* A press lands on a tile that is in view and has a surface.
Presses(w) ==
    {Press(w, id, FALSE, ctrl) : ctrl \in BOOLEAN,
        id \in {x \in ToSet(w.order) : w.tiles[x].video /\ InView(w.tiles[x].priority)}}

Following(what, w, ids) ==
    CASE what = "selecting" -> Clicks(w) \cup Fleet(w, ids) \cup Timers(w)
                               \cup {RefreshOrder(w, keep) : keep \in SUBSET ids}
      [] what = "watching"  -> Sessions(w) \cup Timers(w) \cup Frames(w)
                               \cup {Scroll(w, row) : row \in DOMAIN w.order}
                               \cup {RefreshOrder(w, keep) : keep \in {Known(w), {Max(ids)}}}
                               \cup {OnTileDoubleClicked(w, Min(ids))}
      [] what = "driving"   -> IF w.held # Nobody THEN {Release(w)} \cup Sessions(w) \cup Timers(w)
                               ELSE Presses(w) \cup Host(w) \cup Sessions(w) \cup Timers(w)
                                    \cup Frames(w) \cup Fleet(w, ids) \cup {ControlAll(w, ~w.all)}

\* The wall at the start, and one whose devices all mirror.
Placed(ids, height) == Relayout(NewWall(ids, height))
Streaming(ids) ==
    FoldSet(LAMBDA id, w : FrameOf(OnMirrorStarted(w, id), id, FALSE), Placed(ids, Max(ids)), ids)

RECURSIVE Reached(_, _, _, _, _)

\* After the given number of steps, or fewer.
Reached(what, ids, found, seen, steps) ==
    IF steps = 0 \/ found = {} THEN seen
    ELSE LET new == UNION {Following(what, w, ids) : w \in found} \ seen
         IN  Reached(what, ids, new, seen \cup new, steps - 1)
-----------------------------------------------------------------------------
\* Only tiles of the wall are selected; and in host mode the followers are the selected
\* devices without the master, so that none is told twice.
SelectionIsThere(w) ==
    /\ w.selected \subseteq Known(w)
    /\ w.focus # Nobody => w.focus \notin w.followers
    /\ w.focus # Nobody /\ ~w.all => w.followers = w.selected \ {w.focus}

\* A tile says it streams as long as its device has a session; it is told every frame of
\* it, nobody watches a session through a tile or a panel that is gone, and the panel
\* shows the device in focus.
StreamsAreWatched(w) ==
    /\ Mirroring(w) \subseteq Known(w)
    /\ \A id \in Known(w) : w.tiles[id].streaming = (id \in Mirroring(w))
    /\ \A id \in Mirroring(w) :
          w.live[id].by = IF id = w.focus THEN {"tile", "panel"} ELSE {"tile"}
    /\ w.panel = w.focus

\* With no timer pending a tile in view shows the newest frame, whatever it did not draw
\* while it was out of the view or filtered out.
TilesInViewAreFresh(w) ==
    ~w.placing => \A id \in Mirroring(w) :
        Contains(w.order, id) /\ (id = w.focus \/ Position(w, id) \in w.top..(w.top + w.height - 1))
            => w.tiles[id].shown = w.live[id].frame

\* When the button is up no phone has a finger of the press on it.
FingersAreLifted(w) == w.held = Nobody => w.down = {}

\* What the two exceptions are for.  A panel opened on a device before its mirror starts
\* stays dark until it is opened anew; and a tile that missed frames while it was filtered
\* out asks for one when its host mode ends with the mirror, and keeps it.
OpenedEarly == OnMirrorStarted(OpenHost(NewWall({1}, 1), 1), 1)
CameBack ==
    LET host == FrameOf(OnTileDoubleClicked(OnMirrorStarted(Placed({1, 2}, 2), 1), 1), 1, FALSE)
    IN  OnMirrorStopped(RefreshOrder(FrameOf(RefreshOrder(host, {2}), 1, FALSE), {1}), 1)

GapsAreReal ==
    /\ OpenedEarly.focus = 1 /\ OpenedEarly.live[1].by = {"tile"}
    /\ Mirroring(CameBack) = {} /\ CameBack.tiles[1].streaming

WallIsSound(w) ==
    SelectionIsThere(w) /\ StreamsAreWatched(w) /\ TilesInViewAreFresh(w) /\ FingersAreLifted(w)
=============================================================================

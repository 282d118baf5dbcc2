------------------------------ MODULE GameInput ------------------------------
(***************************************************************************)
(* QtScrcpyCore inputconvertgame.cpp: keys and mouse buttons of the PC as    *)
(* fingers on the phone.  A finger is a place in m_multiTouchID, which names *)
(* the key it belongs to; the phone hears of fingers that go down, move and  *)
(* go up.                                                                   *)
(*                                                                         *)
(* The state is a record, a handler a function on it.  Where a finger is,    *)
(* how long a timer waits and the cursor are left out: a drag or a turn of   *)
(* the steering wheel has some way left or none, and timers go off in any    *)
(* order.  A message for no finger is dropped, as in a release build.        *)
(***************************************************************************)
EXTENDS Naturals, FiniteSetsExt, SequencesExt

CONSTANTS
    MaxTouches,   \* MULTI_TOUCH_MAX_NUM
    Map,          \* m_keyMap: what a key does
    SwitchKey,    \* the key that turns the map on and off
    Looks         \* whether the map turns mouse moves into a look around

\* The node of a key: click, twice, multi, drag, wheel, eyes, button, or none; whether it
\* frees the mouse (switchMap) and whether its drag is too short to have a way.
NodeOf(type, switchMap, short) == [type |-> type, switchMap |-> switchMap, short |-> short]

Key     == DOMAIN Map \ {SwitchKey}
Free    == "free"
Unknown == "unknown"   \* Qt::Key_unknown, before the first turn of the wheel
LookKey == "look"      \* Qt::ExtraButton24
Finger  == 1..MaxTouches
None    == 0

Idle == [game |-> FALSE, back |-> FALSE, held |-> {},
         ids |-> [i \in Finger |-> Free],
         down |-> {}, wrong |-> FALSE,               \* what the phone was told
         wheelKey |-> Unknown, wheel |-> {}, turning |-> FALSE,
         drag |-> Free, dragging |-> FALSE,
         clicks |-> <<>>, eyes |-> <<>>,             \* chains of one-shot timers
         touching |-> FALSE, lookTimer |-> FALSE, smallEyes |-> FALSE, process |-> TRUE]
-----------------------------------------------------------------------------
(* Fingers *)

TouchOf(s, k) ==
    LET mine == {i \in Finger : s.ids[i] = k} IN IF mine = {} THEN None ELSE Min(mine)

Attach(s, k) == IF TouchOf(s, Free) = None THEN s ELSE [s EXCEPT !.ids[TouchOf(s, Free)] = k]
Detach(s, k) == IF TouchOf(s, k) = None THEN s ELSE [s EXCEPT !.ids[TouchOf(s, k)] = Free]

SendDown(s, i) ==
    IF i = None THEN s ELSE [s EXCEPT !.down = @ \cup {i}, !.wrong = @ \/ i \in s.down]
SendUp(s, i) ==
    IF i = None THEN s ELSE [s EXCEPT !.down = @ \ {i}, !.wrong = @ \/ i \notin s.down]
SendMove(s, i) ==
    IF i = None THEN s ELSE [s EXCEPT !.wrong = @ \/ i \notin s.down]

\* attachTouchID answers the place it found, none when all are taken.
Down(s, k) == SendDown(Attach(s, k), TouchOf(s, Free))
Up(s, k)   == Detach(SendUp(s, TouchOf(s, k)), k)
-----------------------------------------------------------------------------
(* Keys *)

\* processKeyClick
Click(s, k, press) ==
    LET freed == IF Map[k].switchMap /\ ~press THEN [s EXCEPT !.back = ~@] ELSE s
    IN  IF press THEN Down(freed, k) ELSE Up(freed, k)

ClickTwice(s, k) == Up(Down(s, k), k)

\* processKeyClickMulti: two timers for each click, the finger down and up.
ClickMulti(s, k, press) ==
    IF press THEN [s EXCEPT !.clicks = Append(@, [key |-> k, left |-> 4])] ELSE s

\* processSteerWheel
SteerWheel(s, k, press) ==
    LET keys == IF press THEN s.wheel \cup {k} ELSE s.wheel \ {k}
        t == [s EXCEPT !.wheel = keys]
    IN  IF keys = {} THEN Up([t EXCEPT !.turning = FALSE], s.wheelKey)
        ELSE IF press /\ keys = {k} THEN Down([t EXCEPT !.wheelKey = k, !.turning = TRUE], k)
        ELSE [t EXCEPT !.turning = TRUE]

\* processKeyDrag: a drag under way ends where it is.
Drag(s, k, press) ==
    IF ~press THEN s
    ELSE LET stopped == IF s.dragging THEN Up(s, s.drag) ELSE s
         IN  [Down(stopped, k) EXCEPT !.drag = k, !.dragging = TRUE]

StartLook(s) == IF s.touching THEN s ELSE [Down(s, LookKey) EXCEPT !.touching = TRUE]
StopLook(s)  == IF s.touching THEN [Up(s, LookKey) EXCEPT !.touching = FALSE] ELSE s

\* Looks again from elsewhere after 30 and 60 ms.
LookAgain(s) == [s EXCEPT !.process = FALSE, !.eyes = Append(@, 2)]

SmallEyes(s, press) ==
    IF press THEN [LookAgain([s EXCEPT !.smallEyes = TRUE]) EXCEPT !.lookTimer = FALSE]
    ELSE StartLook(StopLook([s EXCEPT !.smallEyes = FALSE]))

SwitchGameMap(s) ==
    LET t == [s EXCEPT !.game = ~@, !.back = s.back /\ ~s.game]
    IN  IF Looks /\ ~t.game THEN StopLook([t EXCEPT !.lookTimer = FALSE]) ELSE t

\* keyEvent, and mouseEvent of a button.  A mouse button whose map is off or whose mouse is
\* freed is a plain touch.
Event(s, k, press) ==
    LET type == Map[k].type IN
    CASE k = SwitchKey -> IF press THEN SwitchGameMap(s) ELSE s
      [] k # SwitchKey /\ type = "button" /\ s.game /\ ~s.back -> IF press THEN Down(s, k) ELSE Up(s, k)
      [] k # SwitchKey /\ type = "click" /\ (s.game \/ (s.back /\ Map[k].switchMap)) -> Click(s, k, press)
      [] k # SwitchKey /\ type = "twice" /\ s.game -> ClickTwice(s, k)
      [] k # SwitchKey /\ type = "multi" /\ s.game -> ClickMulti(s, k, press)
      [] k # SwitchKey /\ type = "drag" /\ s.game  -> Drag(s, k, press)
      [] k # SwitchKey /\ type = "wheel" /\ s.game -> SteerWheel(s, k, press)
      [] k # SwitchKey /\ type = "eyes" /\ s.game  -> SmallEyes(s, press)
      [] OTHER -> s

\* processMouseMove, away from the border of the window; the edge is that of the way a
\* finger can look around.
MouseMove(s, edge) ==
    LET t == [StartLook(s) EXCEPT !.lookTimer = TRUE]
        look == TouchOf(t, LookKey)
    IN  IF ~(s.game /\ ~s.back /\ Looks /\ s.process) THEN s
        ELSE IF edge /\ ~s.smallEyes THEN StopLook(t)
        ELSE SendMove(IF edge THEN LookAgain(t) ELSE t, look)
-----------------------------------------------------------------------------
(* Timers *)

\* onSteerWheelTimer, with more way to go or at the end of it.
WheelTimer(s, more) ==
    LET moved == [SendMove(s, TouchOf(s, s.wheelKey)) EXCEPT !.turning = more]
    IN  IF ~more /\ s.wheel = {} THEN Up(moved, s.wheelKey) ELSE moved

\* onDragTimer.  A drag without a way stays where it is.
DragTimer(s, more) ==
    IF Map[s.drag].short THEN [s EXCEPT !.dragging = FALSE]
    ELSE LET moved == SendMove(s, TouchOf(s, s.drag))
         IN  IF more THEN moved ELSE [Up(moved, s.drag) EXCEPT !.drag = Free, !.dragging = FALSE]

\* The next timer of the c-th chain of clicks.
ClickTimer(s, c) ==
    LET k == s.clicks[c].key
        left == s.clicks[c].left
        t == IF left % 2 = 0 THEN Down(s, k) ELSE Up(s, k)
    IN  [t EXCEPT !.clicks = IF left = 1 THEN RemoveAt(@, c) ELSE [@ EXCEPT ![c].left = left - 1]]

EyesTimer(s, e) ==
    IF s.eyes[e] = 2 THEN [StopLook(s) EXCEPT !.eyes[e] = 1]
    ELSE [StartLook(s) EXCEPT !.process = TRUE, !.eyes = RemoveAt(@, e)]

LookTimer(s) == StopLook([s EXCEPT !.lookTimer = FALSE])
-----------------------------------------------------------------------------
(* What can happen next.  A careful user turns the map on and off with     *)
(* nothing else held or under way, and holds no mouse button while a key     *)
(* frees the mouse.                                                         *)

Quiet(s) == /\ s.held \subseteq {SwitchKey} /\ ~s.turning /\ ~s.dragging
            /\ s.clicks = <<>> /\ s.eyes = <<>>

Careful(s, k) == /\ k = SwitchKey => Quiet(s)
                 /\ Map[k].switchMap => \A b \in s.held : Map[b].type # "button"
                 /\ Map[k].type = "button" => \A b \in s.held : ~Map[b].switchMap

\* At most two chains of timers of a kind at a time.
Following(s, careful) ==
    {Event([s EXCEPT !.held = @ \cup {k}], k, TRUE) :
        k \in {k \in DOMAIN Map \ s.held : /\ careful => Careful(s, k)
                                           /\ Len(s.clicks) < 2 /\ Len(s.eyes) < 2}}
    \cup {Event([s EXCEPT !.held = @ \ {k}], k, FALSE) : k \in s.held}
    \cup {MouseMove(s, edge) : edge \in IF Len(s.eyes) < 2 THEN BOOLEAN ELSE {FALSE}}
    \cup {WheelTimer(s, more) : more \in IF s.turning THEN BOOLEAN ELSE {}}
    \cup {DragTimer(s, more) : more \in IF s.dragging THEN BOOLEAN ELSE {}}
    \cup {ClickTimer(s, c) : c \in DOMAIN s.clicks}
    \cup {EyesTimer(s, e) : e \in DOMAIN s.eyes}
    \cup {LookTimer(t) : t \in IF s.lookTimer THEN {s} ELSE {}}

RECURSIVE Reached(_, _, _)

Reached(found, seen, careful) ==
    LET new == UNION {Following(s, careful) : s \in found} \ seen
    IN  IF new = {} THEN seen ELSE Reached(new, seen \cup new, careful)
-----------------------------------------------------------------------------
\* The table of fingers and the phone agree: no finger goes down twice, moves or goes up
\* without being down, whatever order keys, modes and timers come in, also when all
\* places are taken.
TouchesArePaired(s) == ~s.wrong /\ s.down = {i \in Finger : s.ids[i] # Free}

\* No finger stays on the phone: with the keys released and the timers done the look is the
\* only one, and with the map off there is none.
NoTouchIsLeft(s) ==
    /\ Quiet(s) /\ s.held = {} => \A i \in s.down : s.ids[i] = LookKey /\ s.touching
    /\ ~s.game => s.down = {}
=============================================================================

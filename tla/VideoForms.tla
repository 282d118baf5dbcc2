----------------------------- MODULE VideoForms ------------------------------
(***************************************************************************)
(* The window of a phone outside the farm: videoform.cpp, toolform.cpp,      *)
(* groupcontroller.cpp, the wiring of dialog.cpp and the fan-out of          *)
(* device.cpp.  A phone that is made host of the group has its input told to  *)
(* every phone of the group that is not a host.                             *)
(*                                                                         *)
(* The state is a record, a handler a function on it.  Sizes, full screen,    *)
(* the content of files and texts are left out.                             *)
(***************************************************************************)
EXTENDS NormalInput

CONSTANTS
    Serial,   \* the phones
    Keys      \* the keys a user holds down

Nobody == "nobody"

\* `hand` is the window that has the mouse and the keyboard while anything is held.  For
\* the properties only: `lost` whether a host left the others while something was held.
Idle == [devices |-> {}, group |-> {}, hosts |-> {}, observed |-> {},
         phones |-> [d \in Serial |-> AtRest],
         hand |-> Nobody, buttons |-> {}, typed |-> {}, dragged |-> FALSE, lost |-> FALSE]

Holding(s) == s.buttons # {} \/ s.typed # {}
-----------------------------------------------------------------------------
(* Fan-out *)

\* Both as the code finds them: the observer is the group controller, on a device.
Followers(s) == SetToSeq({d \in s.group \ s.hosts : d \in s.devices})

RECURSIVE Told(_, _)

\* The phones a message for d reaches, in order: its own controller, and by the group
\* controller the devices of the group, which tell their observers in turn.
Told(s, d) ==
    <<d>> \o (IF d \notin s.observed THEN <<>>
              ELSE FlattenSeq([i \in DOMAIN Followers(s) |-> Told(s, Followers(s)[i])]))

\* What the tool bar, the shortcuts and files dropped on the window ask for.
ToolBar   == {"back", "home", "menu", "appSwitch", "power", "volumeUp", "volumeDown", "displayOff",
              "displayOn", "expandPanel", "getClipboard", "screenshot", "showTouch"}
Shortcuts == {"home", "back", "appSwitch", "menu", "volumeUp", "volumeDown", "power", "displayOff",
              "expandPanel", "collapsePanel", "copy", "cut", "setClipboard", "paste"}
Drops     == {"pushFile", "installApk"}

\* A device tells no observer of these two.
Alone == {"screenshot", "showTouch"}

CommandTold(s, d, command) == IF command \in Alone THEN <<d>> ELSE Told(s, d)

Tell(s, d, e) ==
    [s EXCEPT !.phones = FoldSeq(LAMBDA x, phones : [phones EXCEPT ![x] = Heard(phones[x], e)],
                                 s.phones, Told(s, d))]
-----------------------------------------------------------------------------
(* Devices come and go *)

Connected(s, d) ==
    [s EXCEPT !.devices = @ \cup {d}, !.group = @ \cup {d}, !.phones[d] = AtRest]

\* The window goes with its buttons and with what they held.
Disconnected(s, d) ==
    LET mine == s.hand = d
    IN  [s EXCEPT !.devices = @ \ {d}, !.group = @ \ {d}, !.hosts = @ \ {d},
                  !.observed = @ \ {d}, !.phones[d] = AtRest,
                  !.hand = IF mine THEN Nobody ELSE @,
                  !.buttons = IF mine THEN {} ELSE @, !.typed = IF mine THEN {} ELSE @,
                  !.dragged = @ /\ ~mine, !.lost = @ \/ (mine /\ d \in s.observed /\ Holding(s))]

\* updateDeviceState
Observe(s, d) ==
    IF d \notin s.group \/ d \notin s.devices THEN s
    ELSE IF d \in s.hosts THEN [s EXCEPT !.observed = @ \cup {d}]
    ELSE [s EXCEPT !.observed = @ \ {d}]

ToggleHost(s, d) ==
    Observe([s EXCEPT !.hosts = IF d \in @ THEN @ \ {d} ELSE @ \cup {d},
                      !.lost = @ \/ Holding(s)], d)
-----------------------------------------------------------------------------
(* The mouse.  `inside`: over the video, not over the border around it.      *)

Mouse(type, buttons) == [kind |-> "mouse", type |-> type, buttons |-> buttons]
KeyClick(code)       == [kind |-> "click", code |-> code]

Took(s, d) == [s EXCEPT !.hand = d]
Rested(s)  == IF Holding(s) THEN s ELSE [s EXCEPT !.hand = Nobody]

MousePress(s, d, button, inside) ==
    LET t == [Took(s, d) EXCEPT !.buttons = @ \cup {button}]
    IN  CASE button = "middle" -> Tell(t, d, KeyClick({"home"}))
          [] button = "right"  -> Tell(t, d, KeyClick({"back"}))
          [] button \notin {"middle", "right"} /\ inside -> Tell(t, d, Mouse("press", t.buttons))
          [] OTHER             -> [t EXCEPT !.dragged = @ \/ button = "left"]

\* The end of a drag of the window is not for the phone.
MouseRelease(s, button) ==
    LET t == [s EXCEPT !.buttons = @ \ {button}]
    IN  Rested(IF s.dragged THEN [t EXCEPT !.dragged = FALSE]
               ELSE Tell(t, s.hand, Mouse("release", t.buttons)))

MouseMove(s, inside) ==
    IF inside THEN Tell(s, s.hand, Mouse("move", s.buttons)) ELSE s

MouseDoubleClick(s, d, button, inside) ==
    LET t == [Took(s, d) EXCEPT !.buttons = @ \cup {button}]
        u == IF button = "right" THEN Tell(t, d, [kind |-> "backOrScreenOn", down |-> FALSE]) ELSE t
    IN  IF inside THEN Tell(u, d, Mouse("double", u.buttons)) ELSE u
-----------------------------------------------------------------------------
(* Keys *)

KeyPress(s, d, k) ==
    Tell([Took(s, d) EXCEPT !.typed = @ \cup {k}], d, Pressed(<<k, k>>, {}, FALSE))
KeyRelease(s, k) ==
    Rested(Tell([s EXCEPT !.typed = @ \ {k}], s.hand, Released(<<k, k>>, {}, FALSE)))
-----------------------------------------------------------------------------
(* What can happen next.  `calm`: the left button only, no double clicks, and no phone    *)
(* comes and no host is made while anything is held; windows may close at any time.       *)

Hands(s)       == IF s.hand = Nobody THEN s.devices ELSE {s.hand}
Buttons(calm)  == IF calm THEN {"left"} ELSE {"left", "right", "side"}

Following(s, calm) ==
    (IF calm /\ Holding(s) THEN {}
     ELSE {Connected(s, d) : d \in Serial \ s.devices} \cup {ToggleHost(s, d) : d \in s.devices})
    \cup {Disconnected(s, d) : d \in s.devices}
    \cup UNION {{MousePress(s, d, b, inside) : d \in Hands(s), inside \in BOOLEAN} :
                   b \in Buttons(calm) \ s.buttons}
    \cup UNION {{MouseDoubleClick(s, d, b, inside) : d \in Hands(s), inside \in BOOLEAN} :
                   b \in IF calm THEN {} ELSE Buttons(calm) \ s.buttons}
    \cup {MouseRelease(s, b) : b \in s.buttons}
    \cup {MouseMove(s, inside) : inside \in IF s.buttons = {} THEN {} ELSE {~s.dragged} \cup {~calm}}
    \cup UNION {{KeyPress(s, d, k) : d \in Hands(s)} : k \in Keys \ s.typed}
    \cup {KeyRelease(s, k) : k \in s.typed}

RECURSIVE Happened(_, _, _)

Happened(found, seen, calm) ==
    IF found = {} THEN seen
    ELSE LET new == UNION {Following(s, calm) : s \in found} \ seen
         IN  Happened(new, seen \cup new, calm)
-----------------------------------------------------------------------------
\* The group controller watches the hosts of the group and nobody else, and asks for no
\* device that the manager does not have.
HostsAreObserved(s) == s.observed = s.hosts /\ s.hosts \subseteq s.group /\ s.group = s.devices

\* A message reaches its own phone first, and what it reaches it reaches once; no host is
\* told what another host is told.
ToldOnce(s) ==
    \A d \in s.devices, command \in ToolBar \cup Shortcuts \cup Drops :
        LET told   == CommandTold(s, d, command)
            shared == d \in s.hosts /\ command \notin Alone
        IN  /\ told[1] = d /\ IsInjective(told)
            /\ ToSet(told) = {d} \cup (IF shared THEN s.devices \ s.hosts ELSE {})

\* Nothing is down on a phone once the user holds nothing, unless a host went in between.
PhonesAreReleased(s) ==
    ~Holding(s) /\ ~s.lost => \A d \in s.devices : ~s.phones[d].finger /\ s.phones[d].keys = {}

\* No move or end of a touch or of a key comes without its beginning.
TouchesAreWhole(s) == ~s.lost => \A d \in s.devices : ~s.phones[d].stray
=============================================================================

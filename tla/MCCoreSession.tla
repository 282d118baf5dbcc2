--------------------------- MODULE MCCoreSession ---------------------------
(***************************************************************************)
(* The instance of CoreSession for TLC.  MAX_CONNECT_COUNT is 30 in the    *)
(* code; what tells are the first and the last failed attempt.  The        *)
(* messages of the control socket, and the fingers that go to the phone on  *)
(* it, are checked apart: nothing they do touches the session.             *)
(***************************************************************************)
EXTENDS CoreSession

ASSUME MaxRestarts = 1
-----------------------------------------------------------------------------
(* A look around with a fire button and a key that frees the mouse; a       *)
(* steering wheel with drags and a click; and clicks with delays.  The       *)
(* places for fingers run out in the first and the last.                    *)

PlainNode(type) == [type |-> type, switchMap |-> FALSE, short |-> FALSE]
SwitchNode      == PlainNode("none")

LookMap  == [switch |-> SwitchNode, eyes |-> PlainNode("eyes"), fire |-> PlainNode("button"),
             bag |-> [PlainNode("click") EXCEPT !.switchMap = TRUE]]
WheelMap == [switch |-> SwitchNode, up |-> PlainNode("wheel"), right |-> PlainNode("wheel"),
             swipe |-> PlainNode("drag"), throw |-> PlainNode("drag"), jump |-> PlainNode("click")]
ClickMap == [switch |-> SwitchNode, combo |-> PlainNode("multi"), up |-> PlainNode("wheel"),
             jump |-> PlainNode("twice")]

Look  == INSTANCE GameInput WITH MaxTouches <- 2, SwitchKey <- "switch", Looks <- TRUE, Map <- LookMap
Wheel == INSTANCE GameInput WITH MaxTouches <- 3, SwitchKey <- "switch", Looks <- FALSE, Map <- WheelMap
Combo == INSTANCE GameInput WITH MaxTouches <- 2, SwitchKey <- "switch", Looks <- FALSE, Map <- ClickMap

ASSUME LooksEnd == \A s \in Look!Reached({Look!Idle}, {Look!Idle}, TRUE) :
                       Look!TouchesArePaired(s) /\ Look!NoTouchIsLeft(s)
ASSUME WheelsEnd == \A s \in Wheel!Reached({Wheel!Idle}, {Wheel!Idle}, TRUE) :
                       Wheel!TouchesArePaired(s) /\ Wheel!NoTouchIsLeft(s)
ASSUME CombosEnd == \A s \in Combo!Reached({Combo!Idle}, {Combo!Idle}, TRUE) :
                       Combo!TouchesArePaired(s) /\ Combo!NoTouchIsLeft(s)

\* However careless the user is.
CarelessMap == [switch |-> SwitchNode, combo |-> PlainNode("multi"), up |-> PlainNode("wheel")]
Careless == INSTANCE GameInput WITH MaxTouches <- 2, SwitchKey <- "switch", Looks <- FALSE, Map <- CarelessMap

ASSUME CombosArePaired == \A s \in Careless!Reached({Careless!Idle}, {Careless!Idle}, FALSE) :
                              Careless!TouchesArePaired(s)
-----------------------------------------------------------------------------
(* A phone without a key map: the keyboard, numbers, texts, and what the     *)
(* phone says of its clipboard; then the windows of two phones with a key,   *)
(* and of three with a mouse.                                               *)

Plain == INSTANCE NormalInput WITH MaxText <- 3, MaxClipboard <- 4, LengthSpace <- 4

\* Up to three messages, cut in up to three places and where a message ends.
Lengths == UNION {[1..n -> 0..3] : n \in 1..2} \cup {<<2, 0, 3>>}
Cuts(lengths) ==
    LET places == 1..Len(Plain!Stream(lengths))
    IN  {{a, b, c} : a, b, c \in places} \cup {Plain!Ends(lengths) \cup {a} : a \in places}

ASSUME MessagesAreRecognised ==
    \A lengths \in Lengths : \A cuts \in Cuts(lengths) : Plain!MessagesAreRecognised(lengths, cuts)

Steady  == {<<"A", "A">>, <<"1", "!">>, <<"Up", "Up">>}
Shifted == {<<"2", "@">>, <<"Tab", "Backtab">>}
Typing(layout, modifiers, calm) ==
    Plain!Reached({Plain!Keyboard}, {Plain!Keyboard}, layout, modifiers, calm)

ASSUME CalmTypingIsLifted == \A u \in Typing(Shifted, SUBSET {"Shift", "Alt"}, TRUE) : Plain!KeysAreLifted(u)
ASSUME ShiftIsForgiven    == \A u \in Typing(Steady, SUBSET {"Shift"}, FALSE) : Plain!KeysAreLifted(u)
\* A key is left down when its code changes while it is held.
ASSUME KeysCanBeLeft ==
    /\ \A k \in Shifted : \E u \in Typing({k}, SUBSET {"Shift"}, FALSE) : u.held = {} /\ u.phone.keys # {}
    /\ \E u \in Typing({<<"A", "A">>}, SUBSET {"Alt"}, FALSE) : u.held = {} /\ u.phone.keys # {}

ASSUME NumbersAreKept ==
    /\ \A frame, show \in 1..20 : Plain!PlacesAreKept(frame, show)
    /\ Plain!ScrollsAreKept(-1100..1100)
ASSUME TextsAreKept ==
    \A n \in 0..4 : \A text \in [1..n -> {"a", "high", "low", "end"}] : Plain!TextsAreKept(text)

Pair == INSTANCE VideoForms WITH
            MaxText <- 3, MaxClipboard <- 4, LengthSpace <- 4, Serial <- {"a", "b"}, Keys <- {"Up"}
Trio == INSTANCE VideoForms WITH
            MaxText <- 3, MaxClipboard <- 4, LengthSpace <- 4, Serial <- {"a", "b", "c"}, Keys <- {}
Mice == INSTANCE VideoForms WITH
            MaxText <- 3, MaxClipboard <- 4, LengthSpace <- 4, Serial <- {"a", "b"}, Keys <- {}

ASSUME PairsAreSound ==
    \A s \in Pair!Happened({Pair!Idle}, {Pair!Idle}, TRUE) :
        /\ Pair!HostsAreObserved(s) /\ Pair!ToldOnce(s)
        /\ Pair!PhonesAreReleased(s) /\ Pair!TouchesAreWhole(s)
ASSUME TriosAreSound ==
    \A s \in Trio!Happened({Trio!Idle}, {Trio!Idle}, TRUE) :
        /\ Trio!HostsAreObserved(s) /\ Trio!ToldOnce(s)
        /\ Trio!PhonesAreReleased(s) /\ Trio!TouchesAreWhole(s)
\* Any buttons at any time: fingers are lifted all the same, but the ends of touches come
\* alone, and a host that goes while a button is held leaves a finger behind.
ASSUME CarelessMice ==
    LET reached == Mice!Happened({Mice!Idle}, {Mice!Idle}, FALSE)
    IN  /\ \A s \in reached : Mice!PhonesAreReleased(s)
        /\ \E s \in reached : ~s.lost /\ ~Mice!TouchesAreWhole(s)
        /\ \E s \in reached : ~Mice!Holding(s) /\ s.phones["b"].finger
=============================================================================

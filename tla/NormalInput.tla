----------------------------- MODULE NormalInput -----------------------------
(***************************************************************************)
(* QtScrcpyCore inputconvertnormal.cpp, controller.cpp and controlmsg.cpp:   *)
(* what a phone hears of the mouse and the keyboard when no key map is       *)
(* loaded, and of the buttons around its window; and what the program hears  *)
(* of the phone on the same control socket.                                 *)
(*                                                                         *)
(* A phone is a record, an event a function on it.  Messages wait in the     *)
(* controller's event queue and keep their order, so they are taken as       *)
(* they are sent.                                                           *)
(***************************************************************************)
EXTENDS Integers, FiniteSetsExt, SequencesExt

CONSTANTS
    MaxText,       \* CONTROL_MSG_INJECT_TEXT_MAX_LENGTH
    MaxClipboard,  \* CONTROL_MSG_CLIPBOARD_TEXT_MAX_LENGTH
    LengthSpace    \* 2^16: what a quint16 holds

\* What the phone takes to be down, the count of repeats, and (for the properties only)
\* whether it was told of a move or an end that had no beginning.
AtRest == [keys |-> {}, finger |-> FALSE, repeat |-> 0, stray |-> FALSE]
-----------------------------------------------------------------------------
(* Keys.  A key code is the set of the keys of Qt it stands for, A for the   *)
(* letters; no code is AKEYCODE_UNKNOWN.                                    *)

FunctionalCodes ==
    {{k} : k \in {"Return", "Enter", "Escape", "Backspace", "Delete", "Tab", "Home", "End",
                  "PageUp", "PageDown", "Left", "Right", "Up", "Down"}}

CharacterCodes ==
    {{k} : k \in {"A", "0", "2", "3", "8", "9", "Space", "=", "@", "+", "#", "(", ")", "*"}}
    \cup {{"1", "!"}, {"4", "$"}, {"5", "%"}, {"6", "^"}, {"7", "&"}, {",", "<"}, {".", ">"},
          {"-", "_"}, {"[", "{"}, {"]", "}"}, {"backslash", "bar"}, {";", ":"}, {"'", "quote"},
          {"/", "?"}, {"grave", "tilde"}}

NoCode == {}

\* With Alt or Meta characters are not for the phone.
KeyCode(key, modifiers) ==
    UNION {code \in FunctionalCodes
                    \cup (IF modifiers \cap {"Alt", "Meta"} = {} THEN CharacterCodes ELSE {}) :
               key \in code}

KeyDown(p, code) == [p EXCEPT !.keys = @ \cup {code}]
KeyUp(p, code)   == [p EXCEPT !.keys = @ \ {code}, !.stray = @ \/ code \notin p.keys]

\* One count for all keys.
KeyEvent(p, e) ==
    LET code    == KeyCode(e.key, e.modifiers)
        counted == [p EXCEPT !.repeat = IF e.repeat THEN @ + 1 ELSE 0]
    IN  IF code = NoCode THEN p
        ELSE IF e.type = "press" THEN KeyDown(counted, code) ELSE KeyUp(counted, code)

\* postKeyCodeClick, of the buttons; and of a right double click only half.
Click(p, code)    == KeyUp(KeyDown(p, code), code)
BackOrScreenOn(p) == p
-----------------------------------------------------------------------------
(* The mouse: every button is the same finger, of which a press begins a     *)
(* touch and a release ends it; the second press of a double click is        *)
(* neither.                                                                 *)

MouseEvent(p, e) ==
    CASE e.type = "press"   -> [p EXCEPT !.finger = TRUE]
      [] e.type = "release" -> [p EXCEPT !.finger = FALSE, !.stray = @ \/ ~p.finger]
      [] e.type = "move" /\ "left" \in e.buttons -> [p EXCEPT !.stray = @ \/ ~p.finger]
      [] OTHER              -> p

Heard(p, e) ==
    CASE e.kind = "mouse" -> MouseEvent(p, e)
      [] e.kind = "key"   -> KeyEvent(p, e)
      [] e.kind = "click" -> Click(p, e.code)
      [] OTHER            -> BackOrScreenOn(p)
-----------------------------------------------------------------------------
(* Numbers.  A place on the window becomes the nearest on the phone's frame. *)

Place(x, frame, show) == (2 * x * frame + show) \div (2 * show)

Clamp(v, low, high) == Min({Max({v, low}), high})

\* flostToI16fp, for delta / 1024 of full scale, and flostToU16fp, for a share of full scale.
\* What writes 16 bits keeps the lower ones.
Scroll(delta)        == Min({Clamp(delta, -1024, 1024) * 32, 32767}) % 65536
Pressure(part, full) == Min({(part * 65536) \div full, 65535})

\* What the phone reads in 16 bits.
Abs(d) == IF d < 0 THEN -d ELSE d

Signed(w) == IF w < 32768 THEN w ELSE w - 65536
-----------------------------------------------------------------------------
(* Texts are sequences of UTF-16 units: "a" and "e" for characters of one    *)
(* byte and of more, "high" and "low" for the halves of a pair, and "end"    *)
(* for the character 0.                                                     *)

Left(text, n) == SubSeq(text, 1, Min({n, Len(text)}))

\* toUtf8: half a pair is a question mark.
Paired(text, i) ==
    \/ text[i] = "high" /\ i < Len(text) /\ text[i + 1] = "low"
    \/ text[i] = "low" /\ i > 1 /\ text[i - 1] = "high"
Utf8(text) ==
    [i \in DOMAIN text |-> IF text[i] \in {"high", "low"} /\ ~Paired(text, i) THEN "?" ELSE text[i]]

\* strlen
UpToEnd(bytes) ==
    LET ends == {i \in DOMAIN bytes : bytes[i] = "end"}
    IN  IF ends = {} THEN bytes ELSE SubSeq(bytes, 1, Min(ends) - 1)

InjectText(text) == UpToEnd(Utf8(Left(text, MaxText)))

\* An empty clipboard leaves `paste` as it was made, TRUE or whatever the union held.
SetClipboard(text, paste) ==
    IF text = <<>> THEN [text |-> text, paste |-> BOOLEAN]
    ELSE [text |-> UpToEnd(Utf8(Left(text, MaxClipboard))), paste |-> {paste}]
-----------------------------------------------------------------------------
(* The other direction (device.cpp, devicemsg.cpp, receiver.cpp): the one     *)
(* message a phone sends carries a text of its clipboard, behind a header of  *)
(* a type and a length of 32 bits.  Bytes are known by their place: the k-th  *)
(* of the m-th message.  TCP delivers them in order, cut anywhere, and each   *)
(* cut is one readyRead.                                                    *)

HeaderLength == 5

Message(m, length) == [k \in 1..(HeaderLength + length) |-> <<m, k>>]
Stream(lengths) == FlattenSeq([m \in DOMAIN lengths |-> Message(m, lengths[m])])
TextOf(m, length) == [k \in 1..length |-> <<m, HeaderLength + k>>]
\* DeviceMsg::deserialize: how many bytes of the buffer are used, 0 while there are
\* too few and none after an unknown type, and the text: whatever follows the header.
\* The length is cut to 16 bits.  A buffer that does not begin with a header is given up.
Deserialize(buffer, lengths) ==
    LET m == buffer[1][1]
        isHeader == buffer[1][2] = 1
        clipboardLen == lengths[m] % LengthSpace
    IN  IF Len(buffer) < HeaderLength \/ ~isHeader \/ clipboardLen > Len(buffer) - HeaderLength
        THEN [consume |-> 0, text |-> <<>>]
        ELSE [consume |-> HeaderLength + clipboardLen,
              text    |-> SubSeq(buffer, HeaderLength + 1, Len(buffer))]

RECURSIVE Drain(_, _, _)

\* The slot of readyRead: messages are taken off the socket while they are complete.
Drain(buffer, texts, lengths) ==
    IF buffer = <<>> THEN [buffer |-> <<>>, texts |-> texts]
    ELSE LET msg == Deserialize(buffer, lengths)
         IN  IF msg.consume = 0 THEN [buffer |-> buffer, texts |-> texts]
             ELSE Drain(SubSeq(buffer, msg.consume + 1, Len(buffer)), Append(texts, msg.text), lengths)

\* The texts the receiver got, and the bytes left over, when the stream has arrived,
\* cut after the bytes of `cuts`.
Received(lengths, cuts) ==
    LET bytes == Stream(lengths)
        ends == SetToSortSeq(cuts \cup {Len(bytes)}, <)
        Arrive(got, end) ==
            Drain(got.buffer \o SubSeq(bytes, got.end + 1, end), got.texts, lengths) @@ [end |-> end]
    IN  FoldLeft(Arrive, [buffer |-> <<>>, texts |-> <<>>, end |-> 0], ends)
-----------------------------------------------------------------------------
(* What a user does on one phone's keyboard.  A key reports what it stands   *)
(* for with the Shift key as it is now; `layout` names both, and `held`      *)
(* the keys that are down.                                                  *)

Symbol(k, modifiers) == IF "Shift" \in modifiers THEN k[2] ELSE k[1]

Pressed(k, modifiers, repeat) ==
    [kind |-> "key", type |-> "press", key |-> Symbol(k, modifiers), modifiers |-> modifiers,
     repeat |-> repeat]
Released(k, modifiers, repeat) == [Pressed(k, modifiers, repeat) EXCEPT !.type = "release"]

Keyboard == [phone |-> AtRest, held |-> {}, modifiers |-> {}]

\* A key that is held repeats: it is released and pressed.  `calm`: the modifiers change
\* only while no key is held.
Typed(u, layout, modifiers, calm) ==
    {[u EXCEPT !.phone = KeyEvent(u.phone, Pressed(k, u.modifiers, FALSE)), !.held = @ \cup {k}] :
        k \in layout \ u.held}
    \cup {[u EXCEPT !.phone = KeyEvent(u.phone, Released(k, u.modifiers, FALSE)), !.held = @ \ {k}] :
        k \in u.held}
    \cup {[u EXCEPT !.phone = KeyEvent(KeyEvent(u.phone, Released(k, u.modifiers, TRUE)),
                                      Pressed(k, u.modifiers, TRUE))] : k \in u.held}
    \cup {[u EXCEPT !.modifiers = m] :
        m \in {m \in modifiers : calm => u.held = {}}}

MaxRepeat == 4   \* bounds the count of repeats

RECURSIVE Reached(_, _, _, _, _)

Reached(found, seen, layout, modifiers, calm) ==
    IF found = {} THEN seen
    ELSE LET new == {u \in UNION {Typed(u, layout, modifiers, calm) : u \in found} :
                        u.phone.repeat <= MaxRepeat} \ seen
         IN  Reached(new, seen \cup new, layout, modifiers, calm)
-----------------------------------------------------------------------------
\* What a user let go of is not down on the phone, and what is held and has a code is.
KeysAreLifted(u) ==
    u.phone.keys = {KeyCode(Symbol(k, u.modifiers), u.modifiers) : k \in u.held} \ {NoCode}

\* No position leaves the frame but for its edge, and left stays left of right.
PlacesAreKept(frame, show) ==
    /\ Place(0, frame, show) = 0 /\ Place(show, frame, show) = frame
    /\ \A x \in 1..show : Place(x - 1, frame, show) <= Place(x, frame, show)

\* The phone scrolls the way the wheel was turned, and not less for a longer turn; the
\* two assertions of flostToI16fp hold.  A full press is the most 16 bits hold.
ScrollsAreKept(deltas) ==
    \A d \in deltas :
        LET i == Clamp(d, -1024, 1024) * 32
        IN  /\ i >= -32768 /\ (i >= 32767 => i = 32768)
            /\ (d > 0) = (Signed(Scroll(d)) > 0) /\ (d < 0) = (Signed(Scroll(d)) < 0)
            /\ Signed(Scroll(d - 1)) <= Signed(Scroll(d))
            /\ Pressure(0, Abs(d) + 1) = 0 /\ Pressure(Abs(d) + 1, Abs(d) + 1) = 65535

\* What arrives of a text is how it begins, if no pair was cut.
TextsAreKept(text) ==
    LET sent == InjectText(text)
    IN  /\ "?" \notin ToSet(sent) => IsPrefix(sent, text)
        /\ "end" \notin ToSet(text) /\ Len(text) <= MaxText => Len(sent) = Len(text)
        /\ text # <<>> => SetClipboard(text, TRUE).paste = {TRUE}

\* The places where a message ends.
Ends(lengths) == {FoldLeft(+, 0, [i \in 1..m |-> HeaderLength + lengths[i]]) : m \in DOMAIN lengths}

\* devicemsg.h:7: while the texts are shorter than a quint16 counts, each message is
\* recognised once, in order, wherever the stream is cut, and its text is there from
\* the start; it is the whole text that was sent, and no more, when no message
\* arrives together with the next.
MessagesAreRecognised(lengths, cuts) ==
    LET got == Received(lengths, cuts) IN
    /\ got.buffer = <<>>
    /\ Len(got.texts) = Len(lengths)
    /\ \A m \in DOMAIN lengths :
           /\ IsPrefix(TextOf(m, lengths[m]), got.texts[m])
           /\ Ends(lengths) \subseteq cuts => got.texts[m] = TextOf(m, lengths[m])
=============================================================================

-------------------------------- MODULE Nodes --------------------------------
(***************************************************************************)
(* What the nodes of a workflow do, farm/automation/workflowengine.cpp: the   *)
(* port each answers, how those that wait look again and again, and how a     *)
(* text is typed through a mirror that belongs to another thread.  The ports  *)
(* they have are nodecatalog.cpp's.                                          *)
(*                                                                         *)
(* A world is how the commands of a node turn out.  Interpreter goes on from  *)
(* the answer.                                                              *)
(***************************************************************************)
EXTENDS Integers, SequencesExt, FiniteSetsExt
-----------------------------------------------------------------------------
(* The catalogue *)

Gestures == {"input.tap", "input.doubleTap", "input.longPress", "input.swipe", "input.scroll"}
Keys     == {"input.key", "input.back", "input.home", "input.recent"}
Pictures == {"screen.findImage", "screen.waitForImage", "screen.tapImage"}
Readings == {"screen.waitForText", "screen.tapText"}
Elements == {"ui.waitForElement", "ui.tapElement"}
Variables == {"var.set", "var.increment", "var.listAppend"}

Asks  == {"app.isForeground", "ui.exists", "file.exists", "logic.if"}
Finds == Pictures \cup Readings \cup Elements \cup {"app.waitFor"}
Ends  == {"flow.end", "flow.fail"}
Acts  == Gestures \cup Keys \cup Variables \cup
         {"flow.start", "device.property", "device.wake", "device.keepAwake", "input.text", "app.launch",
          "app.forceStop", "app.clearData", "app.install", "app.uninstall", "time.wait", "time.waitRandom",
          "adb.shell", "adb.exec", "adb.getprop", "screen.screenshot", "screen.ocr", "ui.dump", "file.push",
          "file.pull", "file.delete", "log.message", "log.screenshot", "log.errorReport"}

\* The nodes with an executor; the interpreter itself takes loops and calls.
Types == Asks \cup Finds \cup Ends \cup Acts \cup {"logic.switch"}

\* Every case has its port besides.
Outputs(type) ==
    CASE type \in Acts  -> {"out"}
      [] type \in Asks  -> {"true", "false"}
      [] type \in Finds -> {"found", "timeout"}
      [] type \in Ends  -> {}
      [] OTHER          -> {"default"}
-----------------------------------------------------------------------------
(* Waiting.  A node looks when it begins, or when it has time left, and what  *)
(* it looks for is there from one time until another.                        *)

Never == 1000

\* `wait`: what the node is set to; `there`: its world.
RECURSIVE Waited(_, _, _)

Waited(wait, there, t) ==
    LET seen  == there.from <= t /\ t < there.until
        later == t + there.cost
        Over(at)   == at >= wait.timeout \/ at >= there.cancel
        Ended(how) == [port |-> how, looked |-> t, ended |-> later]
    IN  IF ~wait.looksFirst /\ Over(t) THEN [Ended("timeout") EXCEPT !.ended = t]
        ELSE IF wait.looksFirst /\ t >= there.broken THEN Ended("error")
        ELSE IF t < there.broken /\ seen # wait.gone THEN Ended("found")
        ELSE IF wait.looksFirst /\ (~wait.again \/ Over(later)) THEN Ended("timeout")
        ELSE Waited(wait, there, later + wait.interval)

\* A node that waits ends soon after its time, or the user's stop.
WaitsEnd(wait, there) ==
    LET w == Waited(wait, there, 0)
    IN  w.ended <= Min({Max({wait.timeout, 0}), there.cancel}) + wait.interval + 2 * there.cost

\* It finds what is there, and misses nothing that stays for an interval within its time.
FoundIsThere(wait, there) ==
    LET w      == Waited(wait, there, 0)
        span   == wait.interval + there.cost
        Right(t) == (there.from <= t /\ t < there.until) # wait.gone
    IN  /\ w.port = "found" => Right(w.looked)
        /\ there.cancel = Never /\ there.broken = Never /\ wait.again
               /\ (\E s \in 0..(wait.timeout - span - 1) : \A t \in s..(s + span) : Right(t))
           => w.port = "found"

\* time.wait, and the pause before a retry: slices, with a pause of the run in between.
RECURSIVE Slept(_, _, _, _, _)

Slept(ms, slice, pause, cancel, t) ==
    LET next   == t + Max({1, Min({slice, ms - t})})
        Rest(n) == {at \in {next + k * slice : k \in 0..n} : at >= cancel \/ at < pause.from \/ at >= pause.until}
    IN  IF t >= ms \/ t >= cancel THEN t
        ELSE Slept(ms, slice, pause, cancel, Min(Rest(pause.until)))

SleepsEnd(ms, slice, pause, cancel) ==
    LET t == Slept(ms, slice, pause, cancel, 0)
    IN  /\ t >= ms \/ t >= cancel
        /\ t < Max({ms, Min({pause.until, cancel})}) + slice
        /\ t < cancel + slice
-----------------------------------------------------------------------------
(* Answers *)

Fail     == [ok |-> FALSE, port |-> ""]
To(port) == [ok |-> TRUE, port |-> port]
Did(ok)  == IF ok THEN To("out") ELSE Fail
Says(b)  == To(IF b THEN "true" ELSE "false")

\* A world: `ok` of the command, whether its answer has the word `said` that tells success,
\* whether the node is `able` to begin (a picture, a reader, a key, a text of ASCII), whether
\* the text was typed by the `mirror`, the look, and the tap that follows it.
ExecInput(type, w) ==
    CASE type \in Gestures     -> Did(w.ok)
      [] type \in Keys         -> Did((type = "input.key" => w.able) /\ w.ok)
      [] type = "input.text"   -> IF w.mirror THEN To("out") ELSE Did(w.able /\ w.ok)

ExecApp(type, w) ==
    CASE type \in {"app.launch", "app.install", "app.uninstall"} -> Did(w.said)
      [] type = "app.forceStop"    -> Did(w.ok)
      [] type = "app.clearData"    -> Did(w.ok /\ w.said)
      [] type = "app.isForeground" -> Says(w.said)
      [] type = "app.waitFor"      -> To(w.look.port)

\* A node that taps what it finds fails when the tap does.
Sought(type, w) ==
    CASE ~w.able \/ w.look.port = "error" -> Fail
      [] w.able /\ w.look.port = "found" ->
             IF type \in {"screen.tapImage", "screen.tapText", "ui.tapElement"} /\ ~w.tap THEN Fail ELSE To("found")
      [] OTHER -> To("timeout")

ExecScreen(type, w) ==
    CASE type \in {"screen.screenshot", "log.screenshot", "ui.dump"} -> Did(w.ok)
      [] type = "screen.ocr" -> Did(w.able /\ w.ok)
      [] type = "ui.exists"  -> IF ~w.ok THEN Fail ELSE Says(w.said)
      [] OTHER               -> Sought(type, w)

\* file.delete is not able to take a root.
ExecFile(type, w) ==
    CASE type \in {"file.push", "file.pull"} -> Did(w.ok)
      [] type = "file.delete" -> Did(w.able /\ w.ok)
      [] type = "file.exists" -> Says(w.said)

ExecuteNode(type, w) ==
    CASE type \in Gestures \cup Keys \cup {"input.text"} -> ExecInput(type, w)
      [] type \in {"app.launch", "app.install", "app.uninstall", "app.forceStop", "app.clearData",
                   "app.isForeground", "app.waitFor"} -> ExecApp(type, w)
      [] type \in Pictures \cup Readings \cup Elements \cup
                  {"screen.screenshot", "log.screenshot", "ui.dump", "screen.ocr", "ui.exists"} -> ExecScreen(type, w)
      [] type \in {"file.push", "file.pull", "file.delete", "file.exists"} -> ExecFile(type, w)
      [] type \in Variables \cup {"flow.start", "device.property", "device.keepAwake", "time.wait",
                                  "time.waitRandom", "log.message", "log.errorReport"} -> To("out")
      [] type \in {"device.wake", "adb.exec", "adb.getprop"} -> Did(w.ok)
      [] type = "adb.shell"    -> Did(w.ok \/ ~w.able)    \* failOnError
      [] type = "logic.if"     -> Says(w.said)
      [] type = "logic.switch" -> To(IF w.said THEN "case:" ELSE "default")
      [] type = "flow.end"     -> To("")
      [] type = "flow.fail"    -> Fail

Worlds ==
    {[ok |-> ok, said |-> said, able |-> able, mirror |-> mirror, tap |-> tap, look |-> [port |-> port]] :
        ok, able, mirror, tap \in BOOLEAN, said \in BOOLEAN, port \in {"found", "timeout", "error"}}

\* An executor answers the ports of the catalogue, and each of them some time.
AnswersArePorts(type) ==
    LET Asked == {w \in Worlds : type = "app.waitFor" => w.look.port # "error"}
        ports == {ExecuteNode(type, w).port : w \in {w \in Asked : ExecuteNode(type, w).ok}}
    IN  ports \ {"", "case:"} = Outputs(type)

\* Where every command fails, and so says nothing, no node answers as if it knew: that it does
\* is the exception.
AnswersInTheDark(type) ==
    \E w \in Worlds : ~w.ok /\ ~w.said /\ ~w.mirror /\ ~w.tap /\ w.able /\ w.look.port = "error"
                      /\ type \in (Asks \ {"logic.if"}) \cup {"app.launch", "app.install", "app.uninstall"}
                      /\ ExecuteNode(type, w).ok
-----------------------------------------------------------------------------
(* input.text.  The worker asks the thread of the mirrors and waits for a     *)
(* while; what it asked is done even when it waits no more.                   *)

Typing(ticks) == [worker |-> "waits", left |-> ticks, asked |-> TRUE, answered |-> FALSE, typed |-> FALSE,
                  times |-> 0, stopped |-> FALSE]

\* The thread of the mirrors comes to it, with a mirror or without.
Answer(s, mirror) ==
    [s EXCEPT !.asked = FALSE, !.answered = TRUE, !.typed = mirror, !.times = @ + (IF mirror THEN 1 ELSE 0)]

\* A try of 100 ms
Try(s) ==
    IF s.left = 0 \/ s.stopped THEN [s EXCEPT !.worker = "types"]
    ELSE IF s.answered THEN [s EXCEPT !.worker = IF s.typed THEN "done" ELSE "types"]
    ELSE [s EXCEPT !.left = @ - 1]

\* A run that is stopped has no command carried out.
Type(s, ok) ==
    IF ok /\ ~s.stopped THEN [s EXCEPT !.worker = "done", !.times = @ + 1] ELSE [s EXCEPT !.worker = "failed"]

\* `prompt`: the thread of the mirrors comes to it while the worker waits.
TypesOn(s, prompt) ==
    (IF s.asked THEN {Answer(s, mirror) : mirror \in BOOLEAN} ELSE {})
    \cup (IF s.worker = "waits" /\ ~(prompt /\ s.asked /\ s.left <= 1) THEN {Try(s)} ELSE {})
    \cup (IF s.worker = "types" THEN {Type(s, ok) : ok \in BOOLEAN} ELSE {})
    \cup (IF prompt THEN {} ELSE {[s EXCEPT !.stopped = TRUE]})

RECURSIVE Typed(_, _, _)

Typed(found, seen, prompt) ==
    LET new == UNION {TypesOn(s, prompt) : s \in found} \ seen
    IN  IF new = {} THEN seen ELSE Typed(new, seen \cup new, prompt)

\* A text is typed once, and then the node says so.
TypedOnce(s) == s.times <= 1 /\ (s.worker = "done" => s.times = 1) /\ (s.worker = "failed" => s.times = 0)
-----------------------------------------------------------------------------
(* Places.  A coordinate is a number of parts of a whole; up to the whole it   *)
(* is a fraction of the screen, beyond it counts pixels.                      *)

ToPixels(x, y, screen, whole) ==
    IF x <= whole /\ y <= whole THEN <<(x * screen[1]) \div whole, (y * screen[2]) \div whole>>
    ELSE <<x \div whole, y \div whole>>

\* From one place to the other, `amount` of a whole
Scroll(direction, amount, screen, whole) ==
    LET mid   == ToPixels(whole \div 2, whole \div 2, screen, whole)
        parts == Max({(5 * whole) \div 100, Min({(95 * whole) \div 100, amount})})
        dx    == (parts * screen[1]) \div (2 * whole)
        dy    == (parts * screen[2]) \div (2 * whole)
    IN  CASE direction = "down"  -> <<<<mid[1], mid[2] + dy>>, <<mid[1], mid[2] - dy>>>>
          [] direction = "up"    -> <<<<mid[1], mid[2] - dy>>, <<mid[1], mid[2] + dy>>>>
          [] direction = "left"  -> <<<<mid[1] + dx, mid[2]>>, <<mid[1] - dx, mid[2]>>>>
          [] direction = "right" -> <<<<mid[1] - dx, mid[2]>>, <<mid[1] + dx, mid[2]>>>>

OnScreen(p, screen) == p[1] \in 0..(screen[1] - 1) /\ p[2] \in 0..(screen[2] - 1)

\* A fraction short of the whole is on the screen, and so is a scroll, whatever its amount.
PlacesAreOnScreen(x, y, screen, whole) ==
    /\ x < whole /\ y < whole => OnScreen(ToPixels(x, y, screen, whole), screen)
    /\ \A direction \in {"down", "up", "left", "right"} : \A i \in 1..2 :
           OnScreen(Scroll(direction, x, screen, whole)[i], screen)
=============================================================================

-------------------------- MODULE CoreSessionProofs --------------------------
(***************************************************************************)
(* Proofs about CoreSession: the tunnels a start makes are never lost and  *)
(* its entry lives the life CoreEntry promises the farm; no decoded frame  *)
(* is forgotten, and a recording is whole and in order.                    *)
(***************************************************************************)
EXTENDS CoreSession, FiniteSetTheorems, WellFoundedInduction, TLAPS

\* An entry whose Device was deleted during its start.
Orphan == [Gone EXCEPT !.entry = "null"]

Starting == {"push", "reverse", "forward", "execute"}

\* Which timers, sockets and flags a step of the start goes with.
StartIsSound(s) ==
  /\ s.entry = "device"
  /\ s.work # "idle" => s.step = s.work
  /\ s.posted \/ s.step \in {"push", "reverse"} => ~s.forward /\ ~s.listening
  /\ s.step = "forward" => s.forward
  /\ s.posted \/ s.step \in Starting =>
       /\ s.held /\ ~s.up /\ ~s.enabled /\ ~s.video /\ ~s.infoTimer
       /\ s.stream = "idle"
  /\ s.posted => s.step = "null"
  /\ s.enabled => s.step = "running" /\ s.held
  /\ s.connect => s.forward /\ s.enabled
  /\ s.accept => ~s.forward /\ s.enabled
  /\ s.proc = "up" => s.step \in {"null", "running"} /\ ~s.posted
  /\ s.video \/ s.infoTimer \/ s.listening => ~s.forward
  /\ s.up => ~s.enabled /\ ~s.video /\ ~s.posted /\ ~s.listening
  /\ s.stream # "idle" => s.up
  /\ s.closing => s.up /\ ~s.held

Sound(s) ==
  /\ s \in Server
  /\ s.entry # "device" => s \in {Gone, Orphan}
  /\ s.entry = "device" /\ ~s.crashed => StartIsSound(s)

\* The tunnels a record accounts for: InUse, without their names.
Uses(s) ==
  CASE s.entry = "null"    -> Tunnels
    [] s.step = "execute" -> {TunnelOf(s)}
    [] s.enabled          -> {TunnelOf(s)}
    [] OTHER -> {}

\* What a handler owes: a sound record, every tunnel accounted for, the ones adb has just
\* made among them, and an entry that moves as the farm was promised.
Keeps(s, out, T) ==
  /\ Sound(out.s)
  /\ T \subseteq Tunnels /\ out.remove \subseteq Tunnels
  /\ T \cup Uses(s) \subseteq Uses(out.s) \cup out.remove
  /\ Entry!Moves(EntryOf(s), EntryOf(out.s))

StartInv ==
  /\ Sound(srv)
  /\ starts \in 0 .. MaxStarts
  /\ srv.entry # "absent" => starts # 0
  /\ adb.tunnels \subseteq Tunnels \X (1 .. MaxStarts)
  /\ adb.removing \subseteq Tunnels \X (1 .. MaxStarts)
  /\ adb.tunnels \subseteq adb.removing \cup Named(Uses(srv))

-----------------------------------------------------------------------------
(* The handlers, each on the record alone.                                 *)

Live(s) == s \in Server /\ StartIsSound(s) /\ ~s.crashed

LEMMA GoneIsSound == Gone \in Server /\ Orphan \in Server /\ Sound(Gone) /\ Sound(Orphan)
  <1>1. Gone \in Server BY ServerAssumption DEF Gone, Server, Steps
  <1>2. Orphan \in Server BY <1>1 DEF Server, Orphan
  <1>3. Gone.entry = "absent" /\ Orphan.entry = "null" BY DEF Orphan, Gone
  <1> QED BY <1>1, <1>2, <1>3 DEF Sound

\* A handler that leaves the Device in a start or a session.
LEMMA ContinuingKeeps ==
  ASSUME NEW s, NEW t, NEW R, NEW T, Live(s), Live(t), T \subseteq Tunnels, R \subseteq Tunnels,
         T \cup Uses(s) \subseteq Uses(t) \cup R,
         Entry!Moves(EntryOf(s), EntryOf(t))
  PROVE  Keeps(s, Out(t, R), T)
  <1>1. Sound(t) BY DEF Sound, Live, StartIsSound
  <1> QED BY <1>1 DEF Keeps, Out

LEMMA StoppedIsSound ==
  ASSUME NEW s, s \in Server
  PROVE  /\ Stopped(s) \in Server
         /\ Stopped(s).entry = s.entry /\ Stopped(s).held = s.held /\ Stopped(s).up = s.up
         /\ Stopped(s).posted = s.posted /\ Stopped(s).step = s.step /\ Stopped(s).work = s.work
         /\ Stopped(s).video = s.video /\ Stopped(s).infoTimer = s.infoTimer
         /\ Stopped(s).stream = s.stream /\ Stopped(s).crashed = s.crashed
         /\ Stopped(s).closing = s.closing /\ Stopped(s).restarts = s.restarts
         /\ Stopped(s).proc \in {"none", "dying"}
         /\ Stopped(s).enabled = FALSE /\ Stopped(s).listening = FALSE
         /\ Stopped(s).accept <=> s.accept /\ s.forward
         /\ Stopped(s).connect <=> s.connect /\ ~s.forward
         /\ Stopped(s).forward <=> s.forward /\ ~s.enabled
         /\ RemovedByStop(s) \subseteq Tunnels
         /\ RemovedByStop(Stopped(s)) = {}
  <1>1. Stopped(s) \in Server
    <2> DEFINE a == s.accept /\ s.forward
               c == s.connect /\ ~s.forward
               n == IF s.forward THEN 0 ELSE s.connects
               k == IF s.control = "open" THEN "closed" ELSE s.control
               p == IF s.proc = "none" THEN "none" ELSE "dying"
               f == s.forward /\ ~s.enabled
    <2>1. /\ a \in BOOLEAN /\ c \in BOOLEAN /\ f \in BOOLEAN
          /\ n \in 0 .. MaxConnects
          /\ k \in {"none", "open", "closed"}
          /\ p \in {"none", "spawning", "up", "dying"}
      BY ServerAssumption DEF Server
    <2> DEFINE q == [s EXCEPT !.accept = a, !.connect = c, !.connects = n, !.control = k]
               r == [q EXCEPT !.proc = p, !.forward = f]
    <2>2. Stopped(s) = [r EXCEPT !.enabled = FALSE, !.listening = FALSE] BY DEF Stopped
    <2> HIDE DEF a, c, n, k, p, f
    <2>3. q \in Server BY <2>1, ZenonT(60) DEF Server
    <2> HIDE DEF q
    <2>4. r \in Server BY <2>1, <2>3, ZenonT(60) DEF Server
    <2> HIDE DEF r
    <2> QED BY <2>2, <2>4, ZenonT(60) DEF Server
  <1>2. /\ Stopped(s).entry = s.entry /\ Stopped(s).held = s.held /\ Stopped(s).up = s.up
        /\ Stopped(s).posted = s.posted /\ Stopped(s).step = s.step /\ Stopped(s).work = s.work
        /\ Stopped(s).video = s.video /\ Stopped(s).infoTimer = s.infoTimer
        /\ Stopped(s).stream = s.stream /\ Stopped(s).crashed = s.crashed
        /\ Stopped(s).closing = s.closing /\ Stopped(s).restarts = s.restarts
        /\ Stopped(s).proc \in {"none", "dying"}
        /\ Stopped(s).enabled = FALSE /\ Stopped(s).listening = FALSE
        /\ Stopped(s).accept <=> s.accept /\ s.forward
        /\ Stopped(s).connect <=> s.connect /\ ~s.forward
        /\ Stopped(s).forward <=> s.forward /\ ~s.enabled
    <2>1. /\ Stopped(s).entry = s.entry /\ Stopped(s).held = s.held /\ Stopped(s).up = s.up
          /\ Stopped(s).posted = s.posted /\ Stopped(s).step = s.step /\ Stopped(s).work = s.work
          /\ Stopped(s).video = s.video /\ Stopped(s).infoTimer = s.infoTimer
          /\ Stopped(s).stream = s.stream /\ Stopped(s).crashed = s.crashed
          /\ Stopped(s).closing = s.closing /\ Stopped(s).restarts = s.restarts
      BY DEF Stopped, Server
    <2>2. /\ Stopped(s).proc \in {"none", "dying"}
          /\ Stopped(s).enabled = FALSE /\ Stopped(s).listening = FALSE
      BY DEF Stopped, Server
    <2>3. /\ Stopped(s).accept <=> s.accept /\ s.forward
          /\ Stopped(s).connect <=> s.connect /\ ~s.forward
          /\ Stopped(s).forward <=> s.forward /\ ~s.enabled
      BY DEF Stopped, Server
    <2> QED BY <2>1, <2>2, <2>3
  <1> QED BY <1>1, <1>2 DEF RemovedByStop, TunnelOf, Tunnels

\* A start that failed: the Device is gone with its tunnels, or a null pointer was used.
LEMMA FailingKeeps ==
  ASSUME NEW s, NEW t, NEW R, NEW T, Live(s), t \in Server, t.entry = "device", t.held = s.held,
         ~s.up, ~t.up, T \subseteq Tunnels, R \subseteq Tunnels,
         T \cup Uses(s) \subseteq R \cup RemovedByStop(t)
  PROVE  Keeps(s, Failed(t, R), T)
  <1>1. CASE s.held
    <2>1. Failed(t, R) = Out(Gone, R \cup RemovedByStop(t)) BY <1>1 DEF Failed
    <2>2. RemovedByStop(t) \subseteq Tunnels BY StoppedIsSound
    <2>3. EntryOf(s) = "starting" /\ EntryOf(Gone) = "absent"
      BY <1>1 DEF EntryOf, Live, StartIsSound, Gone
    <2>4. Entry!Moves(EntryOf(s), EntryOf(Gone)) BY <2>3 DEF Entry!Moves, Entry!ReportedBad
    <2> QED BY <2>1, <2>2, <2>4, GoneIsSound DEF Keeps, Out
  <1>2. CASE ~s.held
    <2> DEFINE c == [t EXCEPT !.crashed = TRUE]
    <2>1. Failed(t, R) = Out(c, R) BY <1>2 DEF Failed
    <2>2. c \in Server /\ c.entry = "device" /\ c.crashed BY DEF Server
    <2>3. EntryOf(c) = EntryOf(s) BY DEF EntryOf, Live, StartIsSound, Server
    <2>4. Uses(t) = Uses(c) BY DEF Uses, TunnelOf, Server
    <2>5. RemovedByStop(t) \subseteq Uses(t) BY DEF RemovedByStop, Uses, TunnelOf, Server
    <2>6. Sound(c) BY <2>2 DEF Sound
    <2> HIDE DEF c
    <2> QED BY <2>1, <2>3, <2>4, <2>5, <2>6 DEF Keeps, Out, Entry!Moves
  <1> QED BY <1>1, <1>2 DEF Live, Server

\* Device::disconnectDevice, after the process or the stream has ended, or for its owner.
LEMMA DisconnectingKeeps ==
  ASSUME NEW s, Live(s), ~s.closing, ~s.posted, s.step \notin Starting,
         NEW p \in {"none", s.proc}, NEW e \in {"null", s.step}, NEW r \in {"idle", s.stream}
  PROVE  Keeps(s, DisconnectDevice([s EXCEPT !.proc = p, !.step = e, !.stream = r]), {})
  <1> DEFINE t == [s EXCEPT !.proc = p, !.step = e, !.stream = r]
  <1>0. t \in Server /\ t.entry = "device" /\ ~t.crashed BY DEF Live, Server, Steps, StartIsSound
  <1>1. CASE s.held
    <2> DEFINE c == [Stopped(t) EXCEPT !.held = FALSE, !.closing = t.up]
    <2>1. DisconnectDevice(t) = Out(c, RemovedByStop(t)) BY <1>1 DEF DisconnectDevice, Live, Server
    <2>2. Live(c)
      <3>1. Stopped(t) \in Server BY <1>0, StoppedIsSound
      <3>2. c \in Server BY <1>0, <3>1 DEF Server
      <3>3. StartIsSound(c) BY <1>1 DEF Live, Server, StartIsSound, Starting, Stopped
      <3>4. ~c.crashed BY DEF Live, Server, Stopped
      <3> QED BY <3>2, <3>3, <3>4 DEF Live
    <2>3. Uses(s) \subseteq RemovedByStop(t) /\ RemovedByStop(t) \subseteq Tunnels
      BY DEF Uses, RemovedByStop, Live, StartIsSound, Starting, TunnelOf, Tunnels, Server
    <2>4. Entry!Moves(EntryOf(s), EntryOf(c))
      <3>1. c.entry = "device" /\ c.held = FALSE /\ (c.up <=> s.up)
        BY DEF Stopped, Server, Live, StartIsSound
      <3> HIDE DEF c
      <3> QED BY <1>1, <3>1 DEF EntryOf, Live, StartIsSound, Server, Entry!Moves, Entry!EndedUnheard
    <2> HIDE DEF c, t
    <2>5. Keeps(s, Out(c, RemovedByStop(t)), {}) BY <2>2, <2>3, <2>4, ContinuingKeeps
    <2> QED BY <2>1, <2>5 DEF t
  <1>2. CASE ~s.held
    <2>1. DisconnectDevice(t) = Out(t, {}) BY <1>2 DEF DisconnectDevice, Live, Server
    <2>2. EntryOf(s) = EntryOf(t) BY DEF EntryOf, Live, Server
    <2>3. Live(t) BY <1>0, <1>2 DEF Live, Server, StartIsSound, Starting
    <2>4. Uses(s) = {} BY <1>2 DEF Uses, Live, StartIsSound, Starting
    <2> HIDE DEF t
    <2>5. Keeps(s, Out(t, {}), {}) BY <2>2, <2>3, <2>4, ContinuingKeeps DEF Entry!Moves
    <2> QED BY <2>1, <2>5 DEF t
  <1> QED BY <1>1, <1>2 DEF Live, Server

\* A start that succeeded: the stream runs, or a null pointer was used.
LEMMA SucceedingKeeps ==
  ASSUME NEW s, NEW t, NEW R, Live(s), t \in Server, t.entry = "device", t.held = s.held,
         ~s.up, ~t.up, R \subseteq Tunnels, Uses(s) \subseteq R,
         s.held => Live([t EXCEPT !.up = TRUE, !.video = FALSE, !.stream = "running"])
  PROVE  Keeps(s, Succeeded(t, R), {})
  <1>1. CASE s.held
    <2> DEFINE c == [t EXCEPT !.up = TRUE, !.video = FALSE, !.stream = "running"]
    <2>1. Succeeded(t, R) = Out(c, R) BY <1>1 DEF Succeeded
    <2>2. EntryOf(s) = "starting" /\ EntryOf(c) = "live"
      BY <1>1 DEF EntryOf, Live, StartIsSound, Server
    <2>3. Live(c) BY <1>1
    <2> HIDE DEF c
    <2> QED BY <2>1, <2>2, <2>3, ContinuingKeeps DEF Entry!Moves, Entry!ReportedUp
  <1>2. CASE ~s.held
    <2> DEFINE c == [t EXCEPT !.crashed = TRUE]
    <2>1. Succeeded(t, R) = Out(c, R) BY <1>2 DEF Succeeded
    <2>2. c \in Server /\ c.entry = "device" /\ c.crashed BY DEF Server
    <2>3. EntryOf(c) = EntryOf(s) BY DEF EntryOf, Live, StartIsSound, Server
    <2>4. Sound(c) BY <2>2 DEF Sound
    <2> HIDE DEF c
    <2> QED BY <2>1, <2>3, <2>4 DEF Keeps, Out, Entry!Moves
  <1> QED BY <1>1, <1>2 DEF Live, Server

LEMMA WorkKeeps ==
  ASSUME NEW s, Live(s), s.work # "idle", NEW ok \in BOOLEAN, NEW listens \in BOOLEAN
  PROVE  Keeps(s, WorkResult(s, ok, listens), IF ok THEN {s.work} \cap Tunnels ELSE {})
  <1> DEFINE idle == [s EXCEPT !.work = "idle"]
             T == IF ok THEN {s.work} \cap Tunnels ELSE {}
  <1>0. /\ s.step = s.work /\ s.work \in {"push", "reverse", "forward"}
        /\ s.held /\ ~s.up /\ ~s.enabled /\ Uses(s) = {} /\ T \subseteq Tunnels
    BY DEF Live, Server, StartIsSound, Starting, Uses
  <1>1. CASE s.step = "push" /\ ok /\ s.useReverse
    <2> DEFINE t == [s EXCEPT !.step = "reverse", !.work = "reverse"]
    <2>1. WorkResult(s, ok, listens) = Out(t, {}) BY <1>1 DEF WorkResult
    <2>2. t \in Server BY DEF Live, Server, Steps
    <2>3. Live(t) BY <2>2, <1>1 DEF Live, Server, StartIsSound, Starting
    <2>4. T = {} BY <1>0, <1>1 DEF Tunnels
    <2>5. EntryOf(t) = EntryOf(s) BY DEF EntryOf, Live, Server
    <2> HIDE DEF t
    <2> QED BY <1>0, <2>1, <2>3, <2>4, <2>5, ContinuingKeeps DEF Entry!Moves
  <1>2. CASE \/ s.step = "push" /\ ok /\ ~s.useReverse
             \/ s.step = "reverse" /\ ~ok
    <2> DEFINE t == Forwarding(s)
    <2>1. WorkResult(s, ok, listens) = Out(t, {}) BY <1>2 DEF WorkResult
    <2>2. t \in Server BY DEF Live, Server, Steps, Forwarding
    <2>3. Live(t) BY <2>2, <1>2 DEF Live, Server, StartIsSound, Starting, Forwarding
    <2>4. T = {} BY <1>0, <1>2 DEF Tunnels
    <2>5. EntryOf(t) = EntryOf(s) BY DEF EntryOf, Live, Server, Forwarding
    <2> HIDE DEF t
    <2> QED BY <1>0, <2>1, <2>3, <2>4, <2>5, ContinuingKeeps DEF Entry!Moves
  <1>3. CASE s.step = "reverse" /\ ok /\ listens
    <2> DEFINE t == Executing([idle EXCEPT !.listening = TRUE])
    <2>1. WorkResult(s, ok, listens) = Out(t, {}) BY <1>3 DEF WorkResult, ListenOrFail
    <2>2. t \in Server BY ZenonT(60) DEF Live, Server, Steps, Executing
    <2>3. Live(t) BY <2>2, <1>3 DEF Live, Server, StartIsSound, Starting, Executing
    <2>4. T \subseteq Uses(t)
      BY <1>0, <1>3 DEF Tunnels, Uses, TunnelOf, Executing, Live, Server, StartIsSound
    <2>5. EntryOf(t) = EntryOf(s) BY DEF EntryOf, Live, Server, Executing
    <2> HIDE DEF t, T
    <2> QED BY <1>0, <2>1, <2>3, <2>4, <2>5, ContinuingKeeps DEF T, Entry!Moves
  <1>4. CASE s.step = "reverse" /\ ok /\ ~listens
    <2> DEFINE t == [idle EXCEPT !.step = "null"]
    <2>1. WorkResult(s, ok, listens) = Failed(t, {"reverse"}) BY <1>4 DEF WorkResult, ListenOrFail
    <2>2. t \in Server BY DEF Live, Server, Steps
    <2>3. t.entry = "device" /\ t.held = s.held /\ ~t.up BY <1>0 DEF Live, Server, StartIsSound
    <2>4. T \subseteq {"reverse"} /\ {"reverse"} \subseteq Tunnels BY <1>0, <1>4 DEF Tunnels
    <2> HIDE DEF t, T
    <2>5. Keeps(s, Failed(t, {"reverse"}), T) BY <1>0, <2>2, <2>3, <2>4, FailingKeeps
    <2> QED BY <2>1, <2>5 DEF T
  <1>5. CASE s.step = "forward" /\ ok
    <2> DEFINE t == Executing(idle)
    <2>1. WorkResult(s, ok, listens) = Out(t, {}) BY <1>5 DEF WorkResult
    <2>2. t \in Server BY ZenonT(60) DEF Live, Server, Steps, Executing
    <2>3. Live(t) BY <2>2, <1>5 DEF Live, Server, StartIsSound, Starting, Executing
    <2>4. T \subseteq Uses(t)
      BY <1>0, <1>5 DEF Tunnels, Uses, TunnelOf, Executing, Live, Server, StartIsSound
    <2>5. EntryOf(t) = EntryOf(s) BY DEF EntryOf, Live, Server, Executing
    <2> HIDE DEF t, T
    <2> QED BY <1>0, <2>1, <2>3, <2>4, <2>5, ContinuingKeeps DEF T, Entry!Moves
  <1>6. CASE s.step \in {"push", "forward"} /\ ~ok
    <2> DEFINE t == [idle EXCEPT !.step = "null"]
    <2>1. WorkResult(s, ok, listens) = Failed(t, {}) BY <1>6 DEF WorkResult
    <2>2. t \in Server BY DEF Live, Server, Steps
    <2>3. t.entry = "device" /\ t.held = s.held /\ ~t.up BY <1>0 DEF Live, Server, StartIsSound
    <2>4. T = {} BY <1>6
    <2> HIDE DEF t, T
    <2>5. Keeps(s, Failed(t, {}), T) BY <1>0, <2>2, <2>3, <2>4, FailingKeeps
    <2> QED BY <2>1, <2>5 DEF T
  <1> QED BY <1>0, <1>1, <1>2, <1>3, <1>4, <1>5, <1>6 DEF Live, Server

LEMMA BeginKeeps ==
  ASSUME NEW s, Live(s), s.posted
  PROVE  Keeps(s, Out(StartServer([s EXCEPT !.posted = FALSE]), {}), {})
  <1> DEFINE t == StartServer([s EXCEPT !.posted = FALSE])
  <1>1. t \in Server BY DEF Live, Server, Steps, StartServer
  <1>2. Live(t) BY <1>1 DEF Live, Server, StartIsSound, Starting, StartServer
  <1>3. Uses(s) = {} BY DEF Live, StartIsSound, Starting, Uses
  <1>4. EntryOf(t) = EntryOf(s) BY DEF EntryOf, Live, Server, StartServer
  <1> HIDE DEF t
  <1>5. Keeps(s, Out(t, {}), {}) BY <1>2, <1>3, <1>4, ContinuingKeeps DEF Entry!Moves
  <1> QED BY <1>5 DEF t

\* The shell runs: the wait for its sockets begins.
LEMMA SpawnedKeeps ==
  ASSUME NEW s, Live(s), s.step = "execute"
  PROVE  Keeps(s, Out(ConnectTo([s EXCEPT !.proc = "up"]), {}), {})
  <1> DEFINE t == ConnectTo([s EXCEPT !.proc = "up"])
  <1>1. t \in Server BY DEF Live, Server, Steps, ConnectTo
  <1>2. Live(t) BY <1>1 DEF Live, Server, StartIsSound, Starting, ConnectTo
  <1>3. Uses(s) \subseteq Uses(t) BY DEF Live, Server, StartIsSound, Starting, Uses, TunnelOf, ConnectTo
  <1>4. EntryOf(t) = EntryOf(s) BY DEF EntryOf, Live, Server, ConnectTo
  <1> HIDE DEF t
  <1>5. Keeps(s, Out(t, {}), {}) BY <1>2, <1>3, <1>4, ContinuingKeeps DEF Entry!Moves
  <1> QED BY <1>5 DEF t

LEMMA SpawnFailureKeeps ==
  ASSUME NEW s, Live(s)
  PROVE  Keeps(s, Out([s EXCEPT !.proc = "none"], {}), {})
  <1> DEFINE t == [s EXCEPT !.proc = "none"]
  <1>1. t \in Server BY DEF Live, Server
  <1>2. Live(t) BY <1>1 DEF Live, Server, StartIsSound, Starting
  <1>3. Uses(s) = Uses(t) BY DEF Live, Server, Uses, TunnelOf
  <1>4. EntryOf(t) = EntryOf(s) BY DEF EntryOf, Live, Server
  <1> HIDE DEF t
  <1>5. Keeps(s, Out(t, {}), {}) BY <1>2, <1>3, <1>4, ContinuingKeeps DEF Entry!Moves
  <1> QED BY <1>5 DEF t

\* The server's process has ended, whichever step it ended in.
LEMMA ProcessKeeps ==
  ASSUME NEW s, Live(s), ~s.closing
  PROVE  Keeps(s, ProcessEnded(s), {})
  <1> DEFINE over == [s EXCEPT !.proc = "none"]
             t == [over EXCEPT !.step = "null"]
  <1>1. CASE s.step = "execute"
    <2> DEFINE u == [t EXCEPT !.listening = FALSE]
    <2>1. ProcessEnded(s) = Failed(u, {TunnelOf(s)}) BY <1>1 DEF ProcessEnded, Live, Server
    <2>2. u \in Server BY DEF Live, Server, Steps
    <2>3. u.entry = "device" /\ u.held = s.held /\ ~u.up /\ ~s.up
      BY <1>1 DEF Live, Server, StartIsSound, Starting
    <2>4. Uses(s) = {TunnelOf(s)} /\ {TunnelOf(s)} \subseteq Tunnels
      BY <1>1 DEF Uses, TunnelOf, Tunnels, Live, StartIsSound
    <2> HIDE DEF u
    <2> QED BY <2>1, <2>2, <2>3, <2>4, FailingKeeps
  <1>2. CASE s.step = "running"
    <2>1. ProcessEnded(s) = DisconnectDevice(t) BY <1>2 DEF ProcessEnded, Live, Server
    <2>2. t = [s EXCEPT !.proc = "none", !.step = "null", !.stream = s.stream]
      BY DEF Live, Server
    <2>3. ~s.posted /\ s.step \notin Starting BY <1>2 DEF Live, StartIsSound, Starting
    <2> HIDE DEF t
    <2> QED BY <2>1, <2>2, <2>3, DisconnectingKeeps
  <1>3. CASE s.step \notin {"execute", "running"}
    <2>1. ProcessEnded(s) = Out(over, {}) BY <1>3 DEF ProcessEnded, Live, Server
    <2> QED BY <2>1, SpawnFailureKeeps
  <1> QED BY <1>1, <1>2, <1>3 DEF Live, Server

\* The second socket and the header are there, in whichever order they came.
LEMMA ReverseStartKeeps ==
  ASSUME NEW s, Live(s), ~s.forward, ~s.up, s.step \notin Starting, ~s.posted,
         NEW k \in {"open", s.control}, NEW i \in {TRUE, s.infoReady}
  PROVE  Keeps(s, FinishReverseStart([s EXCEPT !.control = k, !.infoReady = i]), {})
  <1> DEFINE t == [s EXCEPT !.control = k, !.infoReady = i]
             u == [t EXCEPT !.listening = FALSE, !.enabled = FALSE, !.accept = FALSE]
             c == [u EXCEPT !.up = TRUE, !.video = FALSE, !.stream = "running"]
  <1>1. FinishReverseStart(t) = Succeeded(u, {"reverse"}) BY DEF FinishReverseStart
  <1>2. u \in Server BY DEF Server, Live
  <1>3. u.entry = "device" /\ u.held = s.held /\ ~u.up BY DEF Live, Server, StartIsSound
  <1>4. Uses(s) \subseteq {"reverse"} BY DEF Uses, Live, StartIsSound, Starting, TunnelOf
  <1>5. StartIsSound(c) BY DEF Live, Server, StartIsSound, Starting
  <1>6. ~c.crashed BY DEF Live, Server
  <1> HIDE DEF u
  <1>7. c \in Server BY <1>2 DEF Server
  <1>8. Live(c) BY <1>5, <1>6, <1>7 DEF Live
  <1>9. Keeps(s, Succeeded(u, {"reverse"}), {})
    BY <1>2, <1>3, <1>4, <1>8, SucceedingKeeps DEF Tunnels
  <1> QED BY <1>1, <1>9

\* A connection that is not valid, or a header that did not come in time.
LEMMA GivingUpKeeps ==
  ASSUME NEW s, Live(s), ~s.up, s.step \notin Starting,
         NEW t, t \in Server, t.entry = "device", t.held = s.held, ~t.up, t.enabled = s.enabled,
         t.forward = s.forward
  PROVE  Keeps(s, Failed(Stopped(t), RemovedByStop(t)), {})
  <1>1. Uses(s) \subseteq RemovedByStop(t)
    BY DEF Uses, RemovedByStop, Live, StartIsSound, Starting, TunnelOf
  <1>2. /\ Stopped(t) \in Server /\ Stopped(t).entry = "device" /\ Stopped(t).held = s.held
        /\ ~Stopped(t).up /\ RemovedByStop(t) \subseteq Tunnels
    BY StoppedIsSound
  <1> QED BY <1>1, <1>2, FailingKeeps

LEMMA ConnectionKeeps ==
  ASSUME NEW s, Live(s), s.listening, s.proc = "up", NEW valid \in BOOLEAN
  PROVE  Keeps(s, NewConnection(s, valid), {})
  <1>0. ~s.forward /\ s.step \notin Starting /\ ~s.posted /\ ~s.up
    BY DEF Live, StartIsSound, Starting
  <1>1. CASE ~valid
    <2>1. NewConnection(s, valid) = Failed(Stopped(s), RemovedByStop(s)) BY <1>1 DEF NewConnection
    <2> QED BY <1>0, <2>1, GivingUpKeeps DEF Live, StartIsSound
  <1>2. CASE valid /\ ~s.video
    <2> DEFINE t == [s EXCEPT !.video = TRUE, !.infoReady = FALSE, !.infoTimer = TRUE]
    <2>1. NewConnection(s, valid) = Out(t, {}) BY <1>2 DEF NewConnection
    <2>2. t \in Server BY DEF Live, Server
    <2>3. Live(t) BY <2>2, <1>0 DEF Live, Server, StartIsSound, Starting
    <2>4. Uses(s) = Uses(t) /\ EntryOf(s) = EntryOf(t) BY DEF Live, Server, Uses, TunnelOf, EntryOf
    <2> HIDE DEF t
    <2> QED BY <2>1, <2>3, <2>4, ContinuingKeeps DEF Entry!Moves
  <1>3. CASE valid /\ s.video
    <2> DEFINE t == [s EXCEPT !.control = "open"]
    <2>1. CASE s.infoReady
      <3>1. NewConnection(s, valid) = FinishReverseStart(t) BY <1>3, <2>1 DEF NewConnection
      <3>2. t = [s EXCEPT !.control = "open", !.infoReady = s.infoReady] BY DEF Live, Server
      <3>3. ~s.up BY <1>3 DEF Live, StartIsSound
      <3> HIDE DEF t
      <3> QED BY <1>0, <3>1, <3>2, <3>3, ReverseStartKeeps
    <2>2. CASE ~s.infoReady
      <3>1. NewConnection(s, valid) = Out(t, {}) BY <1>3, <2>2 DEF NewConnection
      <3>2. t \in Server BY DEF Live, Server
      <3>3. Live(t) BY <3>2, <1>0 DEF Live, Server, StartIsSound, Starting
      <3>4. Uses(s) = Uses(t) /\ EntryOf(s) = EntryOf(t) BY DEF Live, Server, Uses, TunnelOf, EntryOf
      <3> HIDE DEF t
      <3> QED BY <3>1, <3>3, <3>4, ContinuingKeeps DEF Entry!Moves
    <2> QED BY <2>1, <2>2 DEF Live, Server
  <1> QED BY <1>1, <1>2, <1>3 DEF Live, Server

LEMMA HeaderKeeps ==
  ASSUME NEW s, Live(s), s.video
  PROVE  Keeps(s, HeaderRead(s), {})
  <1> DEFINE t == [s EXCEPT !.infoReady = TRUE]
  <1>0. ~s.forward /\ s.step \notin Starting /\ ~s.posted /\ ~s.up
    BY DEF Live, StartIsSound, Starting
  <1>1. CASE s.control = "open"
    <2>1. HeaderRead(s) = FinishReverseStart(t) BY <1>1 DEF HeaderRead
    <2>2. t = [s EXCEPT !.control = s.control, !.infoReady = TRUE] BY DEF Live, Server
    <2> HIDE DEF t
    <2> QED BY <1>0, <2>1, <2>2, ReverseStartKeeps
  <1>2. CASE s.control # "open"
    <2>1. HeaderRead(s) = Out(t, {}) BY <1>2 DEF HeaderRead
    <2>2. t \in Server BY DEF Live, Server
    <2>3. Live(t) BY <2>2, <1>0 DEF Live, Server, StartIsSound, Starting
    <2>4. Uses(s) = Uses(t) /\ EntryOf(s) = EntryOf(t) BY DEF Live, Server, Uses, TunnelOf, EntryOf
    <2> HIDE DEF t
    <2> QED BY <2>1, <2>3, <2>4, ContinuingKeeps DEF Entry!Moves
  <1> QED BY <1>1, <1>2

LEMMA InfoTimeoutKeeps ==
  ASSUME NEW s, Live(s)
  PROVE  Keeps(s, InfoTimeout(s), {})
  <1> DEFINE t == [s EXCEPT !.infoTimer = FALSE]
  <1>1. t \in Server BY DEF Live, Server
  <1>2. CASE ~s.infoReady /\ s.video
    <2>1. InfoTimeout(s) = Failed(Stopped(t), RemovedByStop(t)) BY <1>2 DEF InfoTimeout
    <2>2. ~s.up /\ s.step \notin Starting BY <1>2 DEF Live, StartIsSound, Starting
    <2>3. /\ t.entry = "device" /\ t.held = s.held /\ ~t.up /\ t.enabled = s.enabled
          /\ t.forward = s.forward
      BY <2>2 DEF Live, Server, StartIsSound
    <2> HIDE DEF t
    <2> QED BY <1>1, <2>1, <2>2, <2>3, GivingUpKeeps
  <1>3. CASE ~(~s.infoReady /\ s.video)
    <2>1. InfoTimeout(s) = Out(t, {}) BY <1>3 DEF InfoTimeout
    <2>2. Live(t) BY <1>1 DEF Live, Server, StartIsSound, Starting
    <2>3. Uses(s) = Uses(t) /\ EntryOf(s) = EntryOf(t) BY DEF Live, Server, Uses, TunnelOf, EntryOf
    <2> HIDE DEF t
    <2> QED BY <2>1, <2>2, <2>3, ContinuingKeeps DEF Entry!Moves
  <1> QED BY <1>2, <1>3

LEMMA AcceptTimeoutKeeps ==
  ASSUME NEW s, Live(s), s.accept
  PROVE  Keeps(s, Failed([s EXCEPT !.accept = FALSE], {}), {})
  <1> DEFINE t == [s EXCEPT !.accept = FALSE]
  <1>1. t \in Server BY DEF Live, Server
  <1>2. t.entry = "device" /\ t.held = s.held /\ ~t.up /\ ~s.up
    BY DEF Live, Server, StartIsSound
  <1>3. Uses(s) \subseteq RemovedByStop(t)
    BY DEF Live, Server, StartIsSound, Starting, Uses, TunnelOf, RemovedByStop
  <1> HIDE DEF t
  <1>4. Keeps(s, Failed(t, {}), {}) BY <1>1, <1>2, <1>3, FailingKeeps
  <1> QED BY <1>4 DEF t

\* onConnectTimer: the last failed attempt starts the server again, or ends the start.
LEMMA AttemptKeeps ==
  ASSUME NEW s, Live(s), s.connect, NEW outcome \in {"refused", "silent", "header"}
  PROVE  Keeps(s, Attempt(s, outcome), {})
  <1> DEFINE last  == outcome = "refused" \/ s.connects = MaxConnects
             first == [s EXCEPT !.connect = FALSE, !.connects = 0]
             ended == Stopped(first)
  <1>0. /\ s.forward /\ s.enabled /\ s.held /\ s.step = "running" /\ ~s.posted /\ ~s.up
        /\ Uses(s) = {"forward"} /\ RemovedByStop(s) = {"forward"} /\ {"forward"} \subseteq Tunnels
    BY DEF Live, StartIsSound, Starting, Uses, RemovedByStop, TunnelOf, Tunnels
  <1>1. CASE outcome = "header"
    <2> DEFINE q == [s EXCEPT !.connect = FALSE, !.connects = 0, !.video = TRUE]
               u == [q EXCEPT !.control = "open", !.enabled = FALSE, !.restarts = 0]
               c == [u EXCEPT !.up = TRUE, !.video = FALSE, !.stream = "running"]
    <2>1. Attempt(s, outcome) = Succeeded(u, {"forward"}) BY <1>1 DEF Attempt
    <2>0. 0 \in 0 .. MaxConnects /\ 0 \in 0 .. MaxRestarts BY ServerAssumption
    <2>2. u \in Server
      <3>1. q \in Server BY <2>0 DEF Live, Server
      <3> HIDE DEF q
      <3> QED BY <2>0, <3>1 DEF Server
    <2>3. u.entry = "device" /\ u.held = s.held /\ ~u.up BY <1>0 DEF Live, Server, StartIsSound
    <2>4. StartIsSound(c) BY <1>0 DEF Live, Server, StartIsSound, Starting
    <2>5. ~c.crashed BY DEF Live, Server
    <2> HIDE DEF u
    <2>6. c \in Server BY <2>2 DEF Server
    <2>7. Live(c) BY <2>4, <2>5, <2>6 DEF Live
    <2>8. Keeps(s, Succeeded(u, {"forward"}), {}) BY <1>0, <2>2, <2>3, <2>7, SucceedingKeeps
    <2> QED BY <2>1, <2>8
  <1>2. CASE outcome # "header" /\ ~last
    <2> DEFINE t == [s EXCEPT !.connects = @ + 1]
    <2>1. Attempt(s, outcome) = Out(t, {}) BY <1>2 DEF Attempt
    <2>2. s.connects + 1 \in 0 .. MaxConnects BY <1>2, ServerAssumption DEF Live, Server
    <2>3. t \in Server BY <2>2 DEF Live, Server
    <2>4. Live(t) BY <2>3 DEF Live, Server, StartIsSound, Starting
    <2>5. Uses(s) = Uses(t) /\ EntryOf(s) = EntryOf(t) BY DEF Live, Server, Uses, TunnelOf, EntryOf
    <2> HIDE DEF t
    <2> QED BY <2>1, <2>4, <2>5, ContinuingKeeps DEF Entry!Moves
  <1>3. /\ ended \in Server /\ ended.entry = "device" /\ ended.held = s.held /\ ~ended.up
        /\ ~ended.crashed /\ ~ended.enabled /\ ~ended.listening /\ ~ended.accept /\ ~ended.connect
        /\ ~ended.forward /\ ~ended.video /\ ~ended.infoTimer /\ ~ended.posted /\ ~ended.closing
        /\ ended.stream = "idle" /\ ended.proc \in {"none", "dying"} /\ ended.restarts = s.restarts
    <2>0. 0 \in 0 .. MaxConnects BY ServerAssumption
    <2>1. first \in Server BY <2>0 DEF Live, Server
    <2>2. /\ first.entry = "device" /\ first.held = s.held /\ ~first.up /\ ~first.crashed
          /\ first.forward /\ first.enabled /\ ~first.connect /\ ~first.accept
          /\ ~first.video /\ ~first.infoTimer /\ ~first.posted /\ ~first.closing
          /\ first.stream = "idle" /\ first.restarts = s.restarts
      BY <1>0 DEF Live, Server, StartIsSound, Starting
    <2> HIDE DEF first
    <2> QED BY <2>1, <2>2, StoppedIsSound
  <1>4. CASE outcome # "header" /\ last /\ s.restarts < MaxRestarts
    <2> DEFINE t == StartServer([ended EXCEPT !.restarts = @ + 1])
    <2>1. Attempt(s, outcome) = Out(t, RemovedByStop(s)) BY <1>4 DEF Attempt
    <2> HIDE DEF ended
    <2>2. ended.restarts + 1 \in 0 .. MaxRestarts
      BY <1>3, <1>4, ServerAssumption DEF Live, Server
    <2>3. t \in Server BY <1>3, <2>2 DEF Server, StartServer, Steps
    <2>4. /\ t.entry = "device" /\ t.held = s.held /\ ~t.up /\ ~t.crashed
          /\ ~t.enabled /\ ~t.listening /\ ~t.accept /\ ~t.connect
          /\ ~t.forward /\ ~t.video /\ ~t.infoTimer /\ ~t.posted /\ ~t.closing
          /\ t.stream = "idle" /\ t.proc \in {"none", "dying"} /\ t.step = "push" /\ t.work = "push"
      BY <1>3 DEF Server, StartServer
    <2>5. EntryOf(s) = EntryOf(t)
      BY <1>0, <1>3 DEF Live, Server, EntryOf, StartServer, StartIsSound
    <2> HIDE DEF t
    <2>6. Live(t) BY <1>0, <2>3, <2>4 DEF Live, StartIsSound, Starting
    <2>7. Keeps(s, Out(t, RemovedByStop(s)), {})
      BY <1>0, <2>5, <2>6, ContinuingKeeps DEF Entry!Moves
    <2> QED BY <2>1, <2>7
  <1>5. CASE outcome # "header" /\ last /\ ~(s.restarts < MaxRestarts)
    <2> DEFINE t == [ended EXCEPT !.restarts = 0]
    <2>1. Attempt(s, outcome) = Failed(t, RemovedByStop(s)) BY <1>5 DEF Attempt
    <2> HIDE DEF ended
    <2>2. t \in Server BY <1>3, ServerAssumption DEF Server
    <2>3. t.entry = "device" /\ t.held = s.held /\ ~t.up BY <1>3 DEF Server
    <2> HIDE DEF t
    <2>4. Keeps(s, Failed(t, RemovedByStop(s)), {}) BY <1>0, <2>2, <2>3, FailingKeeps
    <2> QED BY <2>1, <2>4
  <1> QED BY <1>1, <1>2, <1>4, <1>5

LEMMA StreamEndKeeps ==
  ASSUME NEW s, Live(s), s.stream = "running"
  PROVE  Keeps(s, Out([s EXCEPT !.stream = "over"], {}), {})
  <1> DEFINE t == [s EXCEPT !.stream = "over"]
  <1>1. t \in Server BY DEF Live, Server
  <1>2. Live(t) BY <1>1 DEF Live, Server, StartIsSound, Starting
  <1>3. Uses(s) = Uses(t) /\ EntryOf(s) = EntryOf(t) BY DEF Live, Server, Uses, TunnelOf, EntryOf
  <1> HIDE DEF t
  <1>4. Keeps(s, Out(t, {}), {}) BY <1>2, <1>3, ContinuingKeeps DEF Entry!Moves
  <1> QED BY <1>4 DEF t

LEMMA StreamStopKeeps ==
  ASSUME NEW s, Live(s), ~s.closing, s.stream = "over"
  PROVE  Keeps(s, DisconnectDevice([s EXCEPT !.stream = "idle"]), {})
  <1>1. [s EXCEPT !.stream = "idle"] = [s EXCEPT !.proc = s.proc, !.step = s.step, !.stream = "idle"]
    BY DEF Live, Server
  <1>2. ~s.posted /\ s.step \notin Starting BY DEF Live, StartIsSound, Starting
  <1> QED BY <1>1, <1>2, DisconnectingKeeps

LEMMA ClosedKeeps ==
  ASSUME NEW s, Live(s), s.closing
  PROVE  Keeps(s, Out(Gone, {}), {})
  <1>1. s.up /\ Uses(s) = {} BY DEF Live, StartIsSound, Starting, Uses
  <1>2. EntryOf(s) = "live" /\ EntryOf(Gone) = "absent" BY <1>1 DEF EntryOf, Live, StartIsSound, Gone
  <1> QED BY <1>1, <1>2, GoneIsSound DEF Keeps, Out, Entry!Moves, Entry!Ended

\* DeviceManage::disconnectDevice.
LEMMA DeleteKeeps ==
  ASSUME NEW s, Live(s), ~s.closing
  PROVE  Keeps(s, IF s.up THEN DisconnectDevice(s)
                  ELSE Out([Gone EXCEPT !.entry = "null"], IF s.held THEN RemovedByStop(s) ELSE {}), {})
  <1>1. CASE s.up
    <2>1. s = [s EXCEPT !.proc = s.proc, !.step = s.step, !.stream = s.stream] BY DEF Live, Server
    <2>2. ~s.posted /\ s.step \notin Starting BY <1>1 DEF Live, StartIsSound, Starting
    <2>3. Keeps(s, DisconnectDevice(s), {}) BY <2>1, <2>2, DisconnectingKeeps
    <2> QED BY <1>1, <2>3
  <1>2. CASE ~s.up
    <2> DEFINE R == IF s.held THEN RemovedByStop(s) ELSE {}
    <2>1. EntryOf(s) \in {"starting", "zombie"} BY <1>2 DEF EntryOf, Live, StartIsSound
    <2>2. EntryOf(Orphan) = "null" /\ Uses(Orphan) = Tunnels BY DEF EntryOf, Uses, Orphan, Gone
    <2>3. R \subseteq Tunnels /\ Uses(s) \subseteq Tunnels
      BY StoppedIsSound DEF Live, Uses, StartIsSound, TunnelOf, Tunnels
    <2> HIDE DEF R
    <2>4. Keeps(s, Out(Orphan, R), {})
      BY <2>1, <2>2, <2>3, GoneIsSound DEF Keeps, Out, Entry!Moves, Entry!Orphaned
    <2> QED BY <1>2, <2>4 DEF R, Orphan
  <1> QED BY <1>1, <1>2 DEF Live, Server

-----------------------------------------------------------------------------
(* The steps.                                                              *)

LEMMA DoingKeeps ==
  ASSUME StartInv, srv.entry = "device", NEW out, NEW T, Does(out, T), Keeps(srv, out, T)
  PROVE  StartInv' /\ Entry!Moves(EntryOf(srv), EntryOf(srv'))
  <1>1. srv' = out.s /\ starts' = starts BY DEF Does
  <1>2. /\ adb'.tunnels = adb.tunnels \cup Named(T)
        /\ adb'.removing = adb.removing \cup Named(out.remove)
    BY DEF Does
  <1>3. starts \in 1 .. MaxStarts BY ServerAssumption DEF StartInv
  <1>4. \A K : K \subseteq Tunnels => Named(K) \subseteq Tunnels \X (1 .. MaxStarts)
    BY <1>3 DEF Named
  <1>5. Named(Uses(srv))' = Uses(srv') \X {starts} BY <1>1 DEF Named
  <1>6. adb'.tunnels \subseteq adb'.removing \cup Named(Uses(srv))'
    BY <1>1, <1>2, <1>5 DEF Named, StartInv, Keeps
  <1> QED BY <1>1, <1>2, <1>3, <1>4, <1>6 DEF StartInv, Keeps

LEMMA StartStep ==
  StartInv /\ [StartNext]_startVars
    => StartInv' /\ Entry!Moves(EntryOf(srv), EntryOf(srv'))
  <1> SUFFICES ASSUME StartInv, [StartNext]_startVars
               PROVE  StartInv' /\ Entry!Moves(EntryOf(srv), EntryOf(srv'))
    OBVIOUS
  <1> DEFINE Goal == StartInv' /\ Entry!Moves(EntryOf(srv), EntryOf(srv'))
  <1>0. srv.entry = "device" /\ ~srv.crashed => Live(srv)
    BY DEF StartInv, Sound, Live
  <1>a. srv.entry # "device" =>
          /\ ~srv.posted /\ srv.work = "idle" /\ srv.proc = "none" /\ ~srv.listening /\ ~srv.video
          /\ ~srv.infoTimer /\ ~srv.accept /\ ~srv.connect /\ srv.stream = "idle" /\ ~srv.closing
    BY DEF StartInv, Sound, Gone, Orphan
  <1>1. CASE Connect
    <2> DEFINE r(v) == [Gone EXCEPT !.entry = "device", !.held = TRUE, !.posted = TRUE, !.useReverse = v]
    <2>1. PICK v \in BOOLEAN : srv' = r(v) BY <1>1 DEF Connect
    <2>2. r(v) \in Server BY GoneIsSound DEF Server
    <2>3. StartIsSound(r(v)) BY DEF Gone, StartIsSound, Starting
    <2>4. Uses(r(v)) = {} /\ EntryOf(r(v)) = "starting" /\ r(v).entry = "device"
      BY DEF Uses, Gone, EntryOf
    <2>5. srv.entry = "absent" /\ srv = Gone BY <1>1 DEF Connect, StartInv, Sound, Orphan, Gone
    <2>6. Uses(srv) = {} /\ EntryOf(srv) = "absent" BY <2>5 DEF Uses, Gone, EntryOf
    <2>7. starts' = starts + 1 /\ starts + 1 \in 0 .. MaxStarts /\ starts + 1 # 0 /\ adb' = adb
      BY <1>1, ServerAssumption DEF Connect, StartInv
    <2>8. adb.tunnels \subseteq adb.removing BY <2>6 DEF StartInv, Named
    <2> HIDE DEF r
    <2>9. Sound(srv)' BY <2>1, <2>2, <2>3, <2>4 DEF Sound
    <2>10. StartInv' BY <2>1, <2>4, <2>7, <2>8, <2>9 DEF StartInv
    <2>11. Entry!Moves(EntryOf(srv), EntryOf(srv'))
      BY <2>1, <2>4, <2>6 DEF Entry!Moves, Entry!Connected
    <2> QED BY <2>10, <2>11
  <1>2. CASE Begin
    <2>1. Live(srv) BY <1>2, <1>0, <1>a DEF Begin, Serving
    <2> QED BY <1>2, <2>1, BeginKeeps, DoingKeeps DEF Begin, Live, StartIsSound
  <1>3. CASE WorkDone
    <2>1. Live(srv) BY <1>3, <1>0, <1>a DEF WorkDone, Serving
    <2> QED BY <1>3, <2>1, WorkKeeps, DoingKeeps DEF WorkDone, Live, StartIsSound
  <1>4. CASE Spawned
    <2>1. Live(srv) BY <1>4, <1>0, <1>a DEF Spawned, Serving
    <2> QED BY <1>4, <2>1, SpawnedKeeps, DoingKeeps DEF Spawned, Live, StartIsSound
  <1>5. CASE SpawnFails
    <2>1. Live(srv) BY <1>5, <1>0, <1>a DEF SpawnFails, Serving
    <2> QED BY <1>5, <2>1, SpawnFailureKeeps, DoingKeeps DEF SpawnFails, Live, StartIsSound
  <1>6. CASE ProcEnds
    <2>1. Live(srv) BY <1>6, <1>0, <1>a DEF ProcEnds, Serving
    <2> QED BY <1>6, <2>1, ProcessKeeps, DoingKeeps DEF ProcEnds, Serving, Live, StartIsSound
  <1>7. CASE SocketConnects
    <2>1. Live(srv) BY <1>7, <1>0, <1>a DEF SocketConnects, Serving
    <2> QED BY <1>7, <2>1, ConnectionKeeps, DoingKeeps DEF SocketConnects, Live, StartIsSound
  <1>8. CASE HeaderArrives
    <2>1. Live(srv) BY <1>8, <1>0, <1>a DEF HeaderArrives, Serving
    <2> QED BY <1>8, <2>1, HeaderKeeps, DoingKeeps DEF HeaderArrives, Live, StartIsSound
  <1>9. CASE InfoTimerFires
    <2>1. Live(srv) BY <1>9, <1>0, <1>a DEF InfoTimerFires, Serving
    <2> QED BY <1>9, <2>1, InfoTimeoutKeeps, DoingKeeps DEF InfoTimerFires, Live, StartIsSound
  <1>10. CASE AcceptTimerFires
    <2>1. Live(srv) BY <1>10, <1>0, <1>a DEF AcceptTimerFires, Serving
    <2> QED BY <1>10, <2>1, AcceptTimeoutKeeps, DoingKeeps DEF AcceptTimerFires, Live, StartIsSound
  <1>11. CASE ConnectTimerFires
    <2>1. Live(srv) BY <1>11, <1>0, <1>a DEF ConnectTimerFires, Serving
    <2> QED BY <1>11, <2>1, AttemptKeeps, DoingKeeps DEF ConnectTimerFires, Live, StartIsSound
  <1>12. CASE StreamStops
    <2>1. Live(srv) BY <1>12, <1>0, <1>a DEF StreamStops, Serving
    <2> QED BY <1>12, <2>1, StreamStopKeeps, DoingKeeps DEF StreamStops, Serving, Live, StartIsSound
  <1>13. CASE Delete
    <2>1. Live(srv) BY <1>13, <1>0 DEF Delete, Serving
    <2> QED BY <1>13, <2>1, DeleteKeeps, DoingKeeps DEF Delete, Serving, Live, StartIsSound
  <1>14. CASE Closed
    <2>1. Live(srv) BY <1>14, <1>0, <1>a DEF Closed
    <2> QED BY <1>14, <2>1, ClosedKeeps, DoingKeeps DEF Closed, Live, StartIsSound
  <1>15. CASE StreamEnds
    <2>1. Live(srv) BY <1>15, <1>0, <1>a DEF StreamEnds
    <2> QED BY <1>15, <2>1, StreamEndKeeps, DoingKeeps DEF StreamEnds, Live, StartIsSound
  <1>16. CASE RemovalDone
    <2>1. PICK k \in adb.removing :
            /\ adb' = [tunnels |-> adb.tunnels \ {k}, removing |-> adb.removing \ {k}]
            /\ srv' = srv /\ starts' = starts
      BY <1>16 DEF RemovalDone
    <2>2. adb'.tunnels = adb.tunnels \ {k} /\ adb'.removing = adb.removing \ {k} BY <2>1
    <2>3. StartInv' BY <2>1, <2>2 DEF StartInv, Named
    <2> QED BY <2>1, <2>3 DEF Entry!Moves
  <1>17. CASE Crashes
    <2>1. srv' = [srv EXCEPT !.crashed = TRUE] /\ srv.up /\ starts' = starts /\ adb' = adb
      BY <1>17 DEF Crashes
    <2>2. srv \in Server /\ srv.entry = "device"
      BY <2>1 DEF StartInv, Sound, Gone, Orphan
    <2>3. /\ srv' \in Server /\ srv'.crashed /\ srv'.entry = srv.entry /\ srv'.step = srv.step
          /\ srv'.enabled = srv.enabled /\ srv'.up = srv.up /\ srv'.held = srv.held
          /\ srv'.forward = srv.forward
      BY <2>1, <2>2 DEF Server
    <2>4. Sound(srv)' BY <2>2, <2>3 DEF Sound
    <2>5. TunnelOf(srv') = TunnelOf(srv) BY <2>3 DEF TunnelOf
    <2>6. Uses(srv') = Uses(srv) BY <2>3, <2>5 DEF Uses
    <2>7. EntryOf(srv') = EntryOf(srv) BY <2>3 DEF EntryOf
    <2>8. StartInv' BY <2>1, <2>3, <2>4, <2>6 DEF StartInv, Named
    <2> QED BY <2>7, <2>8 DEF Entry!Moves
  <1>18. CASE UNCHANGED startVars
    BY <1>18 DEF startVars, StartInv, Named, Entry!Moves
  <1> QED
    BY <1>1, <1>2, <1>3, <1>4, <1>5, <1>6, <1>7, <1>8, <1>9, <1>10, <1>11, <1>12, <1>13, <1>14,
       <1>15, <1>16, <1>17, <1>18
    DEF StartNext, Handlers

LEMMA StartBegins == StartInit => StartInv
  BY GoneIsSound, ServerAssumption DEF StartInit, StartInv, Gone, Named, Uses

\* The video's side of a session does nothing to the server but end its stream.
LEMMA CoreStepsAreStartSteps == [Next]_coreVars => [StartNext]_startVars
  BY DEF Next, coreVars, Handle, Finish, StreamStep, VideoStep, MuxerCrash, AdbStep, StartNext,
         startVars

LEMMA AlwaysStartInv == Spec => []StartInv
  <1>1. Init => StartInv BY StartBegins DEF Init
  <1>2. StartInv /\ [Next]_coreVars => StartInv' BY StartStep, CoreStepsAreStartSteps
  <1> QED BY <1>1, <1>2, PTL DEF Spec

\* Server, Device and adb: whatever order adb's answers, sockets, timers and the owner
\* come in, a tunnel in adb's list is the one of the start under way, belongs to an
\* orphaned entry, or is being removed.
THEOREM TunnelsAreAlwaysTaken == Spec => []TunnelsAreTaken
  <1>1. InUse = Named(Uses(srv)) BY DEF InUse, Uses, Named
  <1>2. StartInv => TunnelsAreTaken BY <1>1 DEF StartInv, TunnelsAreTaken, StartTypeOK, Sound
  <1> QED BY <1>2, AlwaysStartInv, PTL

\* A session's steps are those CoreEntry promises the farm's service: one report for each
\* start, one end for each session that was up.
THEOREM SessionsLiveTheirEntry == Spec => EntrySpec
  <1>1. Init => Entry!Init BY DEF Init, StartInit, Entry!Init, EntryOf, Gone
  <1>2. StartInv /\ [Next]_coreVars => [Entry!Next]_([d \in {"phone"} |-> EntryOf(srv)])
    BY StartStep, CoreStepsAreStartSteps DEF Entry!Next
  <1> QED BY <1>1, <1>2, AlwaysStartInv, PTL DEF Spec, EntrySpec, Entry!Spec

-----------------------------------------------------------------------------
(* The frames.                                                             *)

Streams == [at : ThreadStates, open : BOOLEAN, sent : 0 .. MaxPackets, packet : Packets \cup {NoPacket}]

Buffers == [decoding : Slots, rendering : Slots, frame : [Slots -> Nat], consumed : BOOLEAN,
            lock : {"none", "gui"}, events : Nat, offered : Nat, drawn : Nat]

\* A decoded frame is in the slot the decoder has, the last frame offered in the other.
FramesInv ==
  /\ gui \in GuiStates /\ stream \in Streams /\ buf \in Buffers
  /\ {buf.decoding, buf.rendering} = Slots
  /\ stream.at = "offering" => buf.frame[buf.decoding] = stream.packet.n
  /\ buf.frame[buf.rendering] = buf.offered
  /\ FramesReachTheScreen

\* A session opens on new buffers, and is put away once disconnectDevice is through.
Reset == /\ gui = "over" /\ gui' = "idle"
         /\ stream' = NewStream /\ buf' = NewBuffer /\ rec' = NewRecorder

VideoStepOfSession ==
  \/ VideoNext \/ StartClosing \/ Reset
  \/ \E recorded \in {FALSE, Recorded}, opens \in BOOLEAN : OpenSession(recorded, opens)

LEMMA CoreStepsAreVideoSteps == [Next]_coreVars => [VideoStepOfSession]_videoVars
  <1>1. Handle => VideoStepOfSession \/ UNCHANGED videoVars
    BY DEF Handle, VideoStepOfSession
  <1>2. Finish => VideoStepOfSession BY DEF Finish, VideoStepOfSession, Reset
  <1>3. StreamStep => VideoStepOfSession BY DEF StreamStep, VideoStepOfSession, VideoNext, Demuxing
  <1>4. VideoStep => VideoStepOfSession
    BY DEF VideoStep, VideoStepOfSession, VideoNext, Demuxing
  <1>5. AdbStep => UNCHANGED videoVars BY DEF AdbStep
  <1>6. MuxerCrash => UNCHANGED videoVars BY DEF MuxerCrash, WriteNowhere
  <1>7. UNCHANGED coreVars => UNCHANGED videoVars BY DEF coreVars, videoVars
  <1> QED BY <1>1, <1>2, <1>3, <1>4, <1>5, <1>6, <1>7 DEF Next

LEMMA NewSession ==
  /\ NewBuffer \in Buffers /\ NewStream \in Streams
  /\ [NewStream EXCEPT !.at = "receiving", !.open = TRUE] \in Streams
  /\ NewStream.at = "idle" /\ [NewStream EXCEPT !.at = "receiving", !.open = TRUE].at = "receiving"
  /\ {NewBuffer.decoding, NewBuffer.rendering} = Slots
  /\ NewBuffer.frame[NewBuffer.rendering] = 0 /\ NewBuffer.offered = 0 /\ NewBuffer.drawn = 0
  /\ NewBuffer.consumed = TRUE /\ NewBuffer.events = 0
  <1>1. NewBuffer.frame = [i \in Slots |-> 0] BY DEF NewBuffer
  <1>2. NewBuffer \in Buffers BY DEF NewBuffer, Buffers, Slots
  <1>3. /\ NewBuffer.decoding = 1 /\ NewBuffer.rendering = 2 /\ NewBuffer.offered = 0
        /\ NewBuffer.drawn = 0 /\ NewBuffer.consumed = TRUE /\ NewBuffer.events = 0
    BY DEF NewBuffer
  <1>4. NewStream \in Streams /\ NewStream.at = "idle"
    BY VideoAssumption DEF NewStream, Streams, ThreadStates
  <1>5. /\ [NewStream EXCEPT !.at = "receiving", !.open = TRUE] \in Streams
        /\ [NewStream EXCEPT !.at = "receiving", !.open = TRUE].at = "receiving"
    BY <1>4 DEF Streams, ThreadStates
  <1> QED BY <1>1, <1>2, <1>3, <1>4, <1>5 DEF Slots

LEMMA FramesBegin == VideoInit => FramesInv
  BY NewSession DEF VideoInit, FramesInv, FramesReachTheScreen, InHand, GuiStates

LEMMA FramesStep == FramesInv /\ [VideoStepOfSession]_videoVars => FramesInv'
  <1> SUFFICES ASSUME FramesInv, [VideoStepOfSession]_videoVars PROVE FramesInv'
    OBVIOUS
  <1> USE DEF FramesInv
  <1>1. CASE Receive
    <2>1. PICK config \in BOOLEAN :
            stream' = [stream EXCEPT !.sent = @ + 1,
                                     !.packet = [n |-> stream.sent + 1, config |-> config],
                                     !.at = IF config THEN "recording" ELSE "decoding"]
      BY <1>1 DEF Receive
    <2>2. stream.sent + 1 \in 1 .. MaxPackets /\ stream.sent + 1 \in 0 .. MaxPackets
      BY <1>1, VideoAssumption DEF Receive, Streams
    <2>3. [n |-> stream.sent + 1, config |-> config] \in Packets BY <2>2 DEF Packets
    <2>4. stream' \in Streams BY <2>1, <2>2, <2>3 DEF Streams, ThreadStates
    <2>5. stream'.at \in {"recording", "decoding"} BY <2>1 DEF Streams
    <2> QED BY <1>1, <2>4, <2>5 DEF Receive, FramesReachTheScreen, InHand, Slots, Buffers
  <1>2. CASE Decode
    <2>1. CASE /\ buf' = [buf EXCEPT !.frame[buf.decoding] = stream.packet.n]
               /\ stream' = [stream EXCEPT !.at = "offering"]
      <3>1. stream' \in Streams /\ stream'.at = "offering" /\ stream'.packet = stream.packet
        BY <2>1 DEF Streams, ThreadStates
      <3>2. stream.packet.n \in Nat BY DEF Streams, Packets, NoPacket
      <3>3. buf' = [buf EXCEPT !.frame = [@ EXCEPT ![buf.decoding] = stream.packet.n]] BY <2>1
      <3>4. [buf.frame EXCEPT ![buf.decoding] = stream.packet.n] \in [Slots -> Nat]
        BY <3>2 DEF Buffers
      <3>5. buf' \in Buffers BY <3>3, <3>4 DEF Buffers
      <3>6. /\ buf'.decoding = buf.decoding /\ buf'.rendering = buf.rendering
            /\ buf'.offered = buf.offered /\ buf'.drawn = buf.drawn /\ buf'.events = buf.events
            /\ buf'.consumed = buf.consumed
            /\ buf'.frame = [buf.frame EXCEPT ![buf.decoding] = stream.packet.n]
        BY <3>3 DEF Buffers
      <3>7. buf.decoding # buf.rendering BY DEF Slots
      <3>8. /\ buf'.frame[buf'.decoding] = stream'.packet.n
            /\ buf'.frame[buf'.rendering] = buf'.offered
        BY <3>1, <3>6, <3>7 DEF Buffers
      <3>9. gui' = gui /\ stream.at = "decoding" BY <1>2 DEF Decode
      <3> QED BY <3>1, <3>5, <3>6, <3>8, <3>9 DEF FramesReachTheScreen, InHand
    <2>2. CASE stream' = [stream EXCEPT !.at = "recording"] /\ UNCHANGED buf
      <3>1. stream' \in Streams /\ stream'.at = "recording" BY <2>2 DEF Streams, ThreadStates
      <3>2. gui' = gui /\ stream.at = "decoding" BY <1>2 DEF Decode
      <3> QED BY <2>2, <3>1, <3>2 DEF FramesReachTheScreen, InHand
    <2> QED BY <1>2, <2>1, <2>2 DEF Decode
  <1>3. CASE Offer
    <2>1. /\ stream' \in Streams /\ stream'.at = IF buf.consumed THEN "announcing" ELSE "recording"
          /\ stream.at = "offering" /\ gui' = gui
      BY <1>3 DEF Offer, Streams, ThreadStates
    <2>2. stream.packet.n \in Nat BY DEF Streams, Packets, NoPacket
    <2>3. buf' \in Buffers BY <1>3, <2>2 DEF Offer, Buffers
    <2>4. /\ buf'.decoding = buf.rendering /\ buf'.rendering = buf.decoding
          /\ buf'.frame = buf.frame /\ buf'.offered = stream.packet.n /\ buf'.events = buf.events
          /\ buf'.consumed = FALSE
      BY <1>3 DEF Offer, Buffers
    <2>5. /\ {buf'.decoding, buf'.rendering} = Slots
          /\ buf'.frame[buf'.rendering] = buf'.offered
      BY <2>1, <2>4
    <2>6. buf'.events + InHand(stream'.at = "announcing") + InHand(gui' = "locking")
            = InHand(~buf'.consumed)
      BY <2>1, <2>4 DEF FramesReachTheScreen, InHand, Buffers
    <2> QED BY <2>1, <2>3, <2>4, <2>5, <2>6 DEF FramesReachTheScreen
  <1>4. CASE Announce
    <2>1. /\ stream' \in Streams /\ stream'.at = "recording" /\ stream.at = "announcing" /\ gui' = gui
      BY <1>4 DEF Announce, Streams, ThreadStates
    <2>2. buf' \in Buffers BY <1>4 DEF Announce, Buffers
    <2>3. /\ buf'.decoding = buf.decoding /\ buf'.rendering = buf.rendering /\ buf'.frame = buf.frame
          /\ buf'.offered = buf.offered /\ buf'.drawn = buf.drawn /\ buf'.events = buf.events + 1
          /\ buf'.consumed = buf.consumed
      BY <1>4 DEF Announce, Buffers
    <2>4. buf'.events + InHand(stream'.at = "announcing") + InHand(gui' = "locking")
            = InHand(~buf'.consumed)
      BY <2>1, <2>3 DEF FramesReachTheScreen, InHand, Buffers
    <2> QED BY <2>1, <2>2, <2>3, <2>4 DEF FramesReachTheScreen
  <1>5. CASE Record
    <2>1. /\ stream' \in Streams /\ stream'.at = "receiving" /\ stream.at = "recording"
          /\ gui' = gui /\ buf' = buf
      BY <1>5 DEF Record, Streams, ThreadStates
    <2> QED BY <2>1 DEF FramesReachTheScreen, InHand
  <1>6. CASE HangUp \/ EndStream
    <2>1. /\ stream' \in Streams /\ gui' = gui /\ buf' = buf /\ stream'.packet = stream.packet
          /\ \/ stream'.at = stream.at
             \/ stream.at = "receiving" /\ stream'.at = "ended"
      BY <1>6 DEF HangUp, EndStream, Streams, ThreadStates
    <2> QED BY <2>1 DEF FramesReachTheScreen, InHand
  <1>7. CASE TakeEvent
    <2>1. stream' = stream /\ gui = "free" /\ gui' = "locking" /\ buf.events > 0
      BY <1>7 DEF TakeEvent, Gui
    <2>2. buf' \in Buffers BY <1>7, <2>1 DEF TakeEvent, Buffers
    <2>3. /\ buf'.decoding = buf.decoding /\ buf'.rendering = buf.rendering /\ buf'.frame = buf.frame
          /\ buf'.offered = buf.offered /\ buf'.drawn = buf.drawn /\ buf'.events = buf.events - 1
          /\ buf'.consumed = buf.consumed
      BY <1>7 DEF TakeEvent, Buffers
    <2>4. buf'.events + InHand(stream'.at = "announcing") + InHand(gui' = "locking")
            = InHand(~buf'.consumed)
      BY <2>1, <2>3 DEF FramesReachTheScreen, InHand, Buffers
    <2> QED BY <2>1, <2>2, <2>3, <2>4 DEF FramesReachTheScreen, GuiStates
  <1>8. CASE StartDrawing
    <2>1. stream' = stream /\ gui = "locking" /\ gui' = "drawing" BY <1>8 DEF StartDrawing, Gui
    <2>2. buf' \in Buffers BY <1>8 DEF StartDrawing, Buffers
    <2>3. /\ buf'.decoding = buf.decoding /\ buf'.rendering = buf.rendering /\ buf'.frame = buf.frame
          /\ buf'.offered = buf.offered /\ buf'.drawn = buf.frame[buf.rendering]
          /\ buf'.events = buf.events /\ buf'.consumed = TRUE
      BY <1>8 DEF StartDrawing, Buffers
    <2>4. buf'.events + InHand(stream'.at = "announcing") + InHand(gui' = "locking")
            = InHand(~buf'.consumed)
      BY <2>1, <2>3 DEF FramesReachTheScreen, InHand, Buffers
    <2>5. buf.decoding # buf.rendering BY DEF Slots
    <2> QED BY <2>1, <2>2, <2>3, <2>4, <2>5 DEF FramesReachTheScreen, GuiStates
  <1>9. CASE StartReplay \/ StartSaving \/ Unlock \/ Save
    <2>1. /\ stream' = stream
          /\ gui \in {"free", "drawing", "replaying", "saving"}
          /\ gui' \in {"free", "replaying", "saving"}
      BY <1>9 DEF StartReplay, StartSaving, Unlock, Save, Gui
    <2>2. buf' \in Buffers BY <1>9 DEF StartReplay, StartSaving, Unlock, Save, Buffers
    <2>3. /\ buf'.decoding = buf.decoding /\ buf'.rendering = buf.rendering /\ buf'.frame = buf.frame
          /\ buf'.offered = buf.offered /\ buf'.drawn = buf.drawn /\ buf'.events = buf.events
          /\ buf'.consumed = buf.consumed
      BY <1>9 DEF StartReplay, StartSaving, Unlock, Save, Buffers
    <2>4. buf.decoding # buf.rendering BY DEF Slots
    <2> QED BY <2>1, <2>2, <2>3, <2>4 DEF FramesReachTheScreen, GuiStates, InHand
  <1>10. CASE Recording
    <2>1. gui' = gui /\ stream' = stream /\ buf' = buf BY <1>10 DEF Recording, Drain, WriteNext
    <2> QED BY <2>1 DEF FramesReachTheScreen, InHand
  <1>11. CASE ClosingDown \/ StartClosing
    <2>1. /\ stream' = stream /\ buf' = buf
          /\ gui \in {"free", "waiting", "joining"} /\ gui' \in {"waiting", "joining", "over"}
      BY <1>11 DEF ClosingDown, StopRecorder, FinishClosing, StartClosing
    <2> QED BY <2>1 DEF FramesReachTheScreen, GuiStates, InHand
  <1>12. CASE Reset
    BY <1>12, NewSession DEF Reset, FramesReachTheScreen, GuiStates, InHand
  <1>13. CASE \E recorded \in {FALSE, Recorded}, opens \in BOOLEAN : OpenSession(recorded, opens)
    <2>1. /\ gui' = "free" /\ buf' = NewBuffer
          /\ stream' = [NewStream EXCEPT !.at = "receiving", !.open = TRUE]
      BY <1>13 DEF OpenSession
    <2> QED BY <2>1, NewSession DEF FramesReachTheScreen, GuiStates, InHand
  <1>14. CASE UNCHANGED videoVars
    BY <1>14 DEF videoVars, FramesReachTheScreen, InHand
  <1> QED
    BY <1>1, <1>2, <1>3, <1>4, <1>5, <1>6, <1>7, <1>8, <1>9, <1>10, <1>11, <1>12, <1>13, <1>14
    DEF VideoStepOfSession, VideoNext, Demuxing, Drawing, Recording, ClosingDown

LEMMA AlwaysFramesInv == Spec => []FramesInv
  <1>1. Init => FramesInv BY FramesBegin DEF Init
  <1>2. FramesInv /\ [Next]_coreVars => FramesInv' BY FramesStep, CoreStepsAreVideoSteps
  <1> QED BY <1>1, <1>2, PTL DEF Spec

\* VideoBuffer and onNewFrame: while an offered frame was not drawn exactly one event is on
\* its way to draw it, and otherwise the newest frame is on the screen.
THEOREM FramesAlwaysReachTheScreen == Spec => []FramesReachTheScreen
  <1>1. FramesInv => FramesReachTheScreen BY DEF FramesInv
  <1> QED BY <1>1, AlwaysFramesInv, PTL

-----------------------------------------------------------------------------
(* The data packets of a sequence.                                         *)

\* A set of numbers that is not empty has a least one.
LEMMA LeastNat ==
  ASSUME NEW T \in SUBSET Nat, T # {}
  PROVE  \E n \in T : \A m \in T : n <= m
  <1> DEFINE U == {1 .. n : n \in T}
             R == StrictSubsetOrdering(Nat)
  <1>1. U \subseteq FiniteSubsetsOf(Nat)
    <2>1. \A n \in T : IsFiniteSet(1 .. n) /\ 1 .. n \subseteq Nat BY FS_Interval
    <2> QED BY <2>1 DEF FiniteSubsetsOf
  <1>2. U # {} OBVIOUS
  <1>3. IsWellFoundedOn(R, FiniteSubsetsOf(Nat)) BY FS_StrictSubsetOrderingWellFounded
  <1> HIDE DEF U, R
  <1>4. PICK x \in U : \A y \in U : <<y, x>> \notin R BY <1>1, <1>2, <1>3, WFMin
  <1>5. PICK n \in T : x = 1 .. n BY DEF U
  <1>6. ASSUME NEW m \in T, m < n PROVE FALSE
    <2>1. 1 .. m \in U /\ <<1 .. m, 1 .. n>> \notin R BY <1>4, <1>5 DEF U
    <2>2. n \in 1 .. n /\ n \notin 1 .. m /\ 1 .. m \subseteq 1 .. n BY <1>6
    <2>3. 1 .. m \in SUBSET Nat /\ 1 .. n \in SUBSET Nat OBVIOUS
    <2> QED BY <2>1, <2>2, <2>3 DEF R, StrictSubsetOrdering
  <1> QED BY <1>6

\* The data packets among the first i of s, from those among the first i - 1.
DataStep(s, data, i) == IF s[i].config THEN data[i - 1] ELSE Append(data[i - 1], s[i])

\* What DataIn is defined by has a solution, of sequences of packets, up to every n.
LEMMA DataExists ==
  ASSUME NEW s \in Seq(Packets)
  PROVE  \A n \in 0 .. Len(s) : \E g \in [0 .. n -> Seq(Packets)] :
            g[0] = <<>> /\ \A i \in 1 .. n : g[i] = DataStep(s, g, i)
  <1> DEFINE P(n) == \E g \in [0 .. n -> Seq(Packets)] :
                        g[0] = <<>> /\ \A i \in 1 .. n : g[i] = DataStep(s, g, i)
             T == {n \in 0 .. Len(s) : ~P(n)}
  <1>1. P(0)
    <2> DEFINE g == [i \in 0 .. 0 |-> <<>>]
    <2>1. g \in [0 .. 0 -> Seq(Packets)] /\ g[0] = <<>> OBVIOUS
    <2>2. \A i \in 1 .. 0 : g[i] = DataStep(s, g, i) OBVIOUS
    <2> HIDE DEF g
    <2> QED BY <2>1, <2>2
  <1>2. ASSUME NEW n \in 1 .. Len(s), P(n - 1) PROVE P(n)
    <2>1. PICK g \in [0 .. n - 1 -> Seq(Packets)] :
             g[0] = <<>> /\ \A i \in 1 .. n - 1 : g[i] = DataStep(s, g, i)
      BY <1>2
    <2> DEFINE h == [i \in 0 .. n |-> IF i = n THEN DataStep(s, g, n) ELSE g[i]]
    <2>2. s[n] \in Packets /\ g[n - 1] \in Seq(Packets) OBVIOUS
    <2>3. DataStep(s, g, n) \in Seq(Packets) BY <2>2 DEF DataStep
    <2>4. \A i \in 0 .. n : i # n => i \in 0 .. n - 1 OBVIOUS
    <2>5. h \in [0 .. n -> Seq(Packets)] BY <2>3, <2>4
    <2>6. \A i \in 0 .. n - 1 : h[i] = g[i] OBVIOUS
    <2>7. h[0] = <<>> BY <2>1, <2>6
    <2>9. h[n] = DataStep(s, g, n) OBVIOUS
    <2> HIDE DEF h
    <2>8. \A i \in 1 .. n : h[i] = DataStep(s, h, i)
      <3> TAKE i \in 1 .. n
      <3>1. h[i - 1] = g[i - 1] BY <2>6
      <3>4. DataStep(s, h, i) = DataStep(s, g, i) BY <3>1 DEF DataStep
      <3>2. CASE i = n BY <2>9, <3>2, <3>4
      <3>3. CASE i # n
        <4>1. i \in 1 .. n - 1 /\ i \in 0 .. n - 1 BY <3>3
        <4>2. g[i] = DataStep(s, g, i) BY <2>1, <4>1
        <4> QED BY <2>6, <3>4, <4>1, <4>2
      <3> QED BY <3>2, <3>3
    <2> QED BY <2>5, <2>7, <2>8
  <1> HIDE DEF P
  <1>3. ASSUME T # {} PROVE FALSE
    <2>1. T \in SUBSET Nat OBVIOUS
    <2>2. PICK n \in T : \A m \in T : n <= m BY <1>3, <2>1, LeastNat
    <2>3. n # 0 BY <1>1, <2>2
    <2>4. n \in 1 .. Len(s) /\ n - 1 \in 0 .. Len(s) BY <2>2, <2>3
    <2>5. P(n - 1) BY <2>2, <2>4
    <2> QED BY <1>2, <2>2, <2>4, <2>5
  <1> QED BY <1>3 DEF P

LEMMA DataIs ==
  ASSUME NEW s \in Seq(Packets)
  PROVE  /\ DataIn(s) \in [0 .. Len(s) -> Seq(Packets)]
         /\ DataIn(s)[0] = <<>>
         /\ \A i \in 1 .. Len(s) : DataIn(s)[i] = DataStep(s, DataIn(s), i)
  <1> DEFINE F(f) == [i \in 0 .. Len(s) |-> IF i = 0 THEN <<>>
                        ELSE IF s[i].config THEN f[i - 1] ELSE Append(f[i - 1], s[i])]
  <1>0. Len(s) \in Nat /\ Len(s) \in 0 .. Len(s) OBVIOUS
  <1>1. PICK g \in [0 .. Len(s) -> Seq(Packets)] :
           g[0] = <<>> /\ \A i \in 1 .. Len(s) : g[i] = DataStep(s, g, i)
    BY <1>0, DataExists
  <1>2. g = F(g)
    <2>1. \A i \in 0 .. Len(s) : g[i] = F(g)[i]
      <3> TAKE i \in 0 .. Len(s)
      <3>1. CASE i = 0 BY <1>1, <3>1
      <3>2. CASE i # 0
        <4>1. i \in 1 .. Len(s) BY <1>0, <3>2
        <4> QED BY <1>1, <3>2, <4>1 DEF DataStep
      <3> QED BY <3>1, <3>2
    <2>2. g = [i \in 0 .. Len(s) |-> g[i]] OBVIOUS
    <2>3. F(g) = [i \in 0 .. Len(s) |-> F(g)[i]] OBVIOUS
    <2> HIDE DEF F
    <2> QED BY <2>1, <2>2, <2>3
  <1>3. \E f : f = F(f) BY <1>2
  <1>4. DataIn(s) = F(DataIn(s)) BY <1>3 DEF DataIn
  <1> DEFINE D == DataIn(s)
             T == {n \in 0 .. Len(s) : D[n] # g[n]}
  <1>5. D[0] = <<>> /\ \A i \in 1 .. Len(s) : D[i] = DataStep(s, D, i)
    <2>1. D = F(D) BY <1>4
    <2>2. F(D)[0] = <<>> BY <1>0
    <2>3. \A i \in 1 .. Len(s) : F(D)[i] = DataStep(s, D, i) BY <1>0 DEF DataStep
    <2> HIDE DEF D, F
    <2> QED BY <2>1, <2>2, <2>3
  <1>6. DOMAIN D = 0 .. Len(s) BY <1>4
  <1> HIDE DEF D
  <1>7. ASSUME T # {} PROVE FALSE
    <2>1. T \in SUBSET Nat OBVIOUS
    <2>2. PICK n \in T : \A m \in T : n <= m BY <1>7, <2>1, LeastNat
    <2>3. n # 0 BY <1>1, <1>5, <2>2
    <2>4. n \in 1 .. Len(s) /\ n - 1 \in 0 .. Len(s) /\ n - 1 \notin T BY <2>2, <2>3
    <2>5. D[n - 1] = g[n - 1] BY <2>4
    <2> QED BY <1>1, <1>5, <2>2, <2>4, <2>5 DEF DataStep
  <1>8. \A n \in 0 .. Len(s) : D[n] = g[n] BY <1>7
  <1>9. D = [i \in 0 .. Len(s) |-> D[i]] BY <1>4, <1>6 DEF D
  <1> QED BY <1>5, <1>8, <1>9 DEF D

\* A packet at the end changes nothing before it.
LEMMA DataAppends ==
  ASSUME NEW s \in Seq(Packets), NEW p \in Packets
  PROVE  /\ \A i \in 0 .. Len(s) : DataIn(Append(s, p))[i] = DataIn(s)[i]
         /\ DataOf(Append(s, p)) = IF p.config THEN DataOf(s) ELSE Append(DataOf(s), p)
  <1> DEFINE t == Append(s, p)
             T == {n \in 0 .. Len(s) : DataIn(t)[n] # DataIn(s)[n]}
  <1>1. /\ t \in Seq(Packets) /\ Len(t) = Len(s) + 1 /\ t[Len(s) + 1] = p
        /\ \A i \in 1 .. Len(s) : t[i] = s[i]
    OBVIOUS
  <1>2. /\ DataIn(s)[0] = <<>>
        /\ \A i \in 1 .. Len(s) : DataIn(s)[i] = DataStep(s, DataIn(s), i)
    BY DataIs
  <1> HIDE DEF t
  <1>3. /\ DataIn(t)[0] = <<>>
        /\ \A i \in 1 .. Len(t) : DataIn(t)[i] = DataStep(t, DataIn(t), i)
    BY <1>1, DataIs
  <1>4. ASSUME T # {} PROVE FALSE
    <2>1. T \in SUBSET Nat OBVIOUS
    <2>2. PICK n \in T : \A m \in T : n <= m BY <1>4, <2>1, LeastNat
    <2>3. n # 0 BY <1>2, <1>3, <2>2
    <2>4. n \in 1 .. Len(s) /\ n \in 1 .. Len(t) /\ n - 1 \in 0 .. Len(s) /\ n - 1 \notin T
      BY <1>1, <2>2, <2>3
    <2>5. DataIn(t)[n - 1] = DataIn(s)[n - 1] BY <2>4
    <2> QED BY <1>1, <1>2, <1>3, <2>2, <2>4, <2>5 DEF DataStep
  <1>5. \A i \in 0 .. Len(s) : DataIn(t)[i] = DataIn(s)[i] BY <1>4
  <1>6. DataOf(t) = IF p.config THEN DataOf(s) ELSE Append(DataOf(s), p)
    <2>1. Len(s) \in 0 .. Len(s) /\ Len(t) \in 1 .. Len(t) /\ Len(t) - 1 = Len(s) BY <1>1
    <2>2. DataIn(t)[Len(t) - 1] = DataOf(s) BY <1>5, <2>1 DEF DataOf
    <2>3. DataOf(t) = DataStep(t, DataIn(t), Len(t)) BY <1>3, <2>1 DEF DataOf
    <2> QED BY <1>1, <2>2, <2>3 DEF DataStep
  <1> QED BY <1>5, <1>6 DEF t

LEMMA PrefixAppends ==
  ASSUME NEW a \in Seq(Packets), NEW b \in Seq(Packets), NEW p \in Packets, IsPrefix(a, b)
  PROVE  IsPrefix(a, Append(b, p))
  <1>1. Len(a) <= Len(b) /\ SubSeq(a, 1, Len(a)) = SubSeq(b, 1, Len(a)) BY DEF IsPrefix
  <1>2. SubSeq(Append(b, p), 1, Len(a)) = SubSeq(b, 1, Len(a))
    <2>1. \A i \in 1 .. Len(a) : Append(b, p)[i] = b[i] BY <1>1
    <2> QED BY <1>1, <2>1
  <1> QED BY <1>1, <1>2 DEF IsPrefix

\* What is among the first packets is at the beginning of what is in all of them.
LEMMA DataGrows ==
  ASSUME NEW s \in Seq(Packets), NEW n \in 0 .. Len(s)
  PROVE  IsPrefix(DataIn(s)[n], DataOf(s))
  <1> DEFINE D == DataIn(s)
             T == {m \in n .. Len(s) : ~IsPrefix(D[n], D[m])}
  <1>1. /\ D \in [0 .. Len(s) -> Seq(Packets)]
        /\ \A i \in 1 .. Len(s) : D[i] = DataStep(s, D, i)
    BY DataIs
  <1> HIDE DEF D
  <1>2. D[n] \in Seq(Packets) BY <1>1
  <1>3. IsPrefix(D[n], D[n]) BY <1>2 DEF IsPrefix
  <1>4. ASSUME T # {} PROVE FALSE
    <2>1. T \in SUBSET Nat OBVIOUS
    <2>2. PICK m \in T : \A k \in T : m <= k BY <1>4, <2>1, LeastNat
    <2>3. m # n BY <1>3, <2>2
    <2>4. m \in 1 .. Len(s) /\ m - 1 \in n .. Len(s) /\ m - 1 \notin T /\ m - 1 \in 0 .. Len(s)
      BY <2>2, <2>3
    <2>5. IsPrefix(D[n], D[m - 1]) BY <2>4
    <2>6. s[m] \in Packets /\ D[m - 1] \in Seq(Packets) BY <1>1, <2>4
    <2>7. D[m] = IF s[m].config THEN D[m - 1] ELSE Append(D[m - 1], s[m])
      BY <1>1, <2>4 DEF DataStep
    <2>8. IsPrefix(D[n], D[m]) BY <1>2, <2>5, <2>6, <2>7, PrefixAppends
    <2> QED BY <2>2, <2>8
  <1>5. Len(s) \in n .. Len(s) OBVIOUS
  <1> QED BY <1>4, <1>5 DEF D, DataOf

LEMMA NoData ==
  /\ <<>> \in Seq(Packets) /\ DataIn(<<>>)[0] = <<>> /\ DataOf(<<>>) = <<>>
  <1>1. <<>> \in Seq(Packets) /\ Len(<<>>) = 0 OBVIOUS
  <1>2. DataIn(<<>>)[0] = <<>> BY <1>1, DataIs
  <1> QED BY <1>1, <1>2 DEF DataOf

-----------------------------------------------------------------------------
(* The recording.                                                          *)

Recorders == [at : {"idle", "running", "ended", "closed"}, queue : Seq(Packets),
              previous : Packets \cup {NoPacket}, header : BOOLEAN, stopped : BOOLEAN,
              failed : BOOLEAN, file : Seq(Packets), opened : BOOLEAN, warned : BOOLEAN,
              accepted : Seq(Packets)]

\* How many of the packets it took the recorder has written, or had nothing to write for.
Written(r) == Len(r.accepted) - Len(r.queue) - (IF r.previous = NoPacket THEN 0 ELSE 1)

\* A recorder that runs: what it took is what it has written, then the packet in hand, then
\* the queue; and the file waits for its header no longer than for the first packet.
RunSound(r) ==
  /\ ~r.failed /\ ~r.warned
  /\ Written(r) >= 0
  /\ \A i \in 1 .. Len(r.queue) : r.queue[i] = r.accepted[Len(r.accepted) - Len(r.queue) + i]
  /\ r.previous # NoPacket => r.previous = r.accepted[Written(r) + 1]
  /\ r.previous = NoPacket \/ ~r.header => Written(r) = 0 /\ ~r.header
  /\ r.accepted # <<>> => r.accepted[1].config
  /\ DataOf(r.file) = DataIn(r.accepted)[Written(r)]

EndSound(r) ==
  /\ IsPrefix(DataOf(r.file), DataOf(r.accepted))
  /\ ~r.failed => /\ DataOf(r.file) = DataIn(r.accepted)[Len(r.accepted) - InHand(r.warned)]
                  /\ r.stopped

RecorderInv ==
  /\ rec \in Recorders
  /\ stream.at \in {"decoding", "offering", "announcing", "recording"} => stream.packet \in Packets
  /\ rec.stopped => stream.at = "ended"
  /\ rec.at = "idle" => rec = NewRecorder
  /\ rec.at = "running" => RunSound(rec)
  /\ rec.at = "running" /\ rec.accepted = <<>> =>
        \/ stream.at = "receiving" /\ stream.sent = 0
        \/ stream.at = "recording" /\ stream.packet.config
        \/ stream.at = "ended"
  /\ rec.at \in {"ended", "closed"} => EndSound(rec)

LEMMA NoPacketIsNone == NoPacket \notin Packets /\ ~NoPacket.config
  BY DEF NoPacket, Packets

LEMMA NewRecorders ==
  ASSUME NEW opens \in BOOLEAN
  PROVE  LET running == [NewRecorder EXCEPT !.at = "running", !.opened = opens]
         IN  /\ NewRecorder \in Recorders /\ running \in Recorders
             /\ NewRecorder.at = "idle" /\ running.at = "running"
             /\ ~NewRecorder.stopped /\ ~running.stopped /\ running.accepted = <<>>
             /\ RunSound(running)
  <1> DEFINE running == [NewRecorder EXCEPT !.at = "running", !.opened = opens]
  <1>1. <<>> \in Seq(Packets) /\ Len(<<>>) = 0 OBVIOUS
  <1>2. NewRecorder \in Recorders BY <1>1 DEF NewRecorder, Recorders
  <1>3. running \in Recorders BY <1>2 DEF Recorders
  <1>4. /\ running.at = "running" /\ running.accepted = <<>> /\ running.queue = <<>>
        /\ running.previous = NoPacket /\ running.file = <<>> /\ ~running.header /\ ~running.failed
        /\ ~running.warned /\ ~running.stopped
    BY DEF NewRecorder
  <1>5. NewRecorder.at = "idle" /\ ~NewRecorder.stopped BY DEF NewRecorder
  <1> HIDE DEF running
  <1>6. Written(running) = 0 BY <1>1, <1>4 DEF Written
  <1>7. RunSound(running) BY <1>1, <1>4, <1>6, NoData DEF RunSound
  <1> QED BY <1>2, <1>3, <1>4, <1>5, <1>7 DEF running

LEMMA NoRecorder ==
  NewRecorder \in Recorders /\ NewRecorder.at = "idle" /\ ~NewRecorder.stopped
  BY NewRecorders

LEMMA WrittenIs ==
  ASSUME NEW r \in Recorders, RunSound(r)
  PROVE  /\ Len(r.queue) \in Nat /\ Len(r.accepted) \in Nat /\ Written(r) \in Nat
         /\ r.previous = NoPacket => Written(r) + Len(r.queue) = Len(r.accepted)
         /\ r.previous # NoPacket => Written(r) + 1 + Len(r.queue) = Len(r.accepted)
  <1> DEFINE a == Len(r.accepted)
             q == Len(r.queue)
             w == Written(r)
  <1>1. a \in Nat /\ q \in Nat BY DEF Recorders
  <1>2. w >= 0 BY DEF RunSound
  <1>3. r.previous = NoPacket => w = a - q - 0 BY DEF Written
  <1>4. r.previous # NoPacket => w = a - q - 1 BY DEF Written
  <1> HIDE DEF a, q, w
  <1>5. /\ w \in Nat
        /\ r.previous = NoPacket => w + q = a
        /\ r.previous # NoPacket => w + 1 + q = a
    BY <1>1, <1>2, <1>3, <1>4
  <1> QED BY <1>1, <1>5 DEF a, q, w

\* Recorder::push.
LEMMA PushSound ==
  ASSUME NEW r \in Recorders, RunSound(r), NEW p \in Packets, r.accepted = <<>> => p.config
  PROVE  LET t == [r EXCEPT !.queue = Append(@, p), !.accepted = Append(@, p)]
         IN  t \in Recorders /\ RunSound(t) /\ t.accepted # <<>>
  <1> DEFINE t == [r EXCEPT !.queue = Append(@, p), !.accepted = Append(@, p)]
  <1>1. r.queue \in Seq(Packets) /\ r.accepted \in Seq(Packets) BY DEF Recorders
  <1>2. Append(r.queue, p) \in Seq(Packets) /\ Append(r.accepted, p) \in Seq(Packets) BY <1>1
  <1>3. t \in Recorders BY <1>2 DEF Recorders
  <1>4. /\ t.queue = Append(r.queue, p) /\ t.accepted = Append(r.accepted, p)
        /\ t.previous = r.previous /\ t.file = r.file /\ t.header = r.header /\ t.failed = r.failed
        /\ t.warned = r.warned
    BY DEF Recorders
  <1> HIDE DEF t
  <1>5. /\ Len(t.queue) = Len(r.queue) + 1 /\ Len(t.accepted) = Len(r.accepted) + 1
        /\ Len(r.queue) \in Nat /\ Len(r.accepted) \in Nat
    BY <1>1, <1>4
  <1> DEFINE a == Len(r.accepted)
             q == Len(r.queue)
             w == Written(r)
  <1>6. /\ a \in Nat /\ q \in Nat /\ w \in Nat /\ w + q <= a
        /\ r.previous # NoPacket => w + 1 <= a
    <2>1. /\ a \in Nat /\ q \in Nat /\ w \in Nat
          /\ r.previous = NoPacket => w + q = a
          /\ r.previous # NoPacket => w + 1 + q = a
      BY WrittenIs
    <2> HIDE DEF a, q, w
    <2> QED BY <2>1
  <1>12. Len(t.queue) = q + 1 /\ Len(t.accepted) = a + 1 BY <1>5
  <1>13. Written(t) = w
    <2>1. Written(t) = (a + 1) - (q + 1) - (IF r.previous = NoPacket THEN 0 ELSE 1)
      BY <1>4, <1>12 DEF Written
    <2>2. w = a - q - (IF r.previous = NoPacket THEN 0 ELSE 1) BY DEF Written
    <2> HIDE DEF a, q, w
    <2> QED BY <1>6, <2>1, <2>2
  <1>7. \A i \in 1 .. Len(t.queue) : t.queue[i] = t.accepted[Len(t.accepted) - Len(t.queue) + i]
    <2> TAKE i \in 1 .. Len(t.queue)
    <2>1. t.queue[q + 1] = p /\ t.accepted[a + 1] = p
      BY <1>1, <1>4
    <2>2. \A j \in 1 .. q : t.queue[j] = r.queue[j] BY <1>1, <1>4
    <2>3. \A j \in 1 .. a : t.accepted[j] = r.accepted[j] BY <1>1, <1>4
    <2>4. \A j \in 1 .. q : r.queue[j] = r.accepted[a - q + j] BY DEF RunSound
    <2> HIDE DEF a, q, w
    <2>5. i \in 1 .. q + 1 /\ Len(t.accepted) - Len(t.queue) = a - q BY <1>6, <1>12
    <2>6. CASE i = q + 1
      <3>1. a - q + i = a + 1 BY <1>6, <2>6
      <3> QED BY <2>1, <2>5, <2>6, <3>1
    <2>7. CASE i # q + 1
      <3>1. i \in 1 .. q /\ a - q + i \in 1 .. a BY <1>6, <2>5, <2>7
      <3> QED BY <2>2, <2>3, <2>4, <2>5, <3>1
    <2> QED BY <2>6, <2>7
  <1>8. t.previous # NoPacket => t.previous = t.accepted[Written(t) + 1]
    <2> SUFFICES ASSUME r.previous # NoPacket PROVE r.previous = t.accepted[w + 1]
      BY <1>4, <1>13
    <2>1. r.previous = r.accepted[w + 1] BY DEF RunSound
    <2>2. \A j \in 1 .. a : t.accepted[j] = r.accepted[j] BY <1>1, <1>4
    <2> HIDE DEF a, q, w
    <2>3. w + 1 \in 1 .. a BY <1>6
    <2> QED BY <2>1, <2>2, <2>3
  <1>9. t.accepted # <<>> /\ t.accepted[1].config
    <2>1. CASE r.accepted = <<>> BY <1>4, <2>1
    <2>2. CASE r.accepted # <<>>
      <3>1. 1 \in 1 .. Len(r.accepted) BY <1>1, <2>2
      <3>2. t.accepted[1] = r.accepted[1] BY <1>1, <1>4, <3>1
      <3> QED BY <1>5, <2>2, <3>2 DEF RunSound
    <2> QED BY <2>1, <2>2
  <1>10. DataOf(t.file) = DataIn(t.accepted)[Written(t)]
    <2>1. DataIn(r.accepted)[w] = DataOf(r.file) BY DEF RunSound
    <2>2. \A j \in 0 .. a : DataIn(t.accepted)[j] = DataIn(r.accepted)[j]
      BY <1>1, <1>4, DataAppends
    <2> HIDE DEF a, q, w
    <2>3. w \in 0 .. a BY <1>6
    <2> QED BY <1>4, <1>13, <2>1, <2>2, <2>3
  <1>11. RunSound(t) BY <1>4, <1>6, <1>13, <1>7, <1>8, <1>9, <1>10 DEF RunSound
  <1> QED BY <1>3, <1>9, <1>11 DEF t

\* Recorder::write of the packet in hand: what is in the file are the data packets among
\* the ones written, this one included.
LEMMA WriteSound ==
  ASSUME NEW r \in Recorders, RunSound(r), r.previous # NoPacket,
         NEW n \in Recorders, n.header = r.header, n.file = r.file
  PROVE  LET t == Write(n, r.previous)
         IN  /\ t \in Recorders /\ t.header
             /\ t.at = n.at /\ t.queue = n.queue /\ t.previous = n.previous
             /\ t.stopped = n.stopped /\ t.failed = n.failed /\ t.warned = n.warned
             /\ t.accepted = n.accepted
             /\ DataOf(t.file) = DataIn(r.accepted)[Written(r) + 1]
  <1> DEFINE t == Write(n, r.previous)
             a == Len(r.accepted)
             w == Written(r)
             D == DataIn(r.accepted)
  <1>1. a \in Nat /\ w \in Nat /\ w + 1 <= a
    <2> DEFINE q == Len(r.queue)
    <2>1. a \in Nat /\ w \in Nat /\ q \in Nat /\ w + 1 + q = a BY WrittenIs
    <2> HIDE DEF a, w, q
    <2> QED BY <2>1
  <1>2. /\ r.previous = r.accepted[w + 1] /\ r.previous \in Packets /\ DataOf(r.file) = D[w]
        /\ r.accepted \in Seq(Packets) /\ r.file \in Seq(Packets) /\ r.header \in BOOLEAN
    BY DEF RunSound, Recorders
  <1>3. D[w + 1] = IF r.previous.config THEN D[w] ELSE Append(D[w], r.previous)
    <2>1. \A i \in 1 .. a :
             D[i] = IF r.accepted[i].config THEN D[i - 1] ELSE Append(D[i - 1], r.accepted[i])
      BY <1>2, DataIs DEF DataStep
    <2> HIDE DEF a, w, D
    <2>2. w + 1 \in 1 .. a /\ (w + 1) - 1 = w BY <1>1
    <2>3. D[w + 1] = IF r.accepted[w + 1].config THEN D[(w + 1) - 1]
                     ELSE Append(D[(w + 1) - 1], r.accepted[w + 1])
      BY <2>1, <2>2
    <2> QED BY <1>2, <2>2, <2>3
  <1>4. ~r.header => r.previous.config
    <2> SUFFICES ASSUME ~r.header PROVE r.previous.config
      OBVIOUS
    <2>1. w = 0 BY DEF RunSound
    <2>2. a # 0
      <3> HIDE DEF a, w
      <3> QED BY <1>1
    <2>3. r.accepted # <<>> BY <2>2
    <2>4. r.accepted[1].config BY <2>3 DEF RunSound
    <2> HIDE DEF a, w
    <2> QED BY <1>2, <2>1, <2>4
  <1> HIDE DEF a, w, D
  <1>5. CASE ~r.header
    <2>1. t = [n EXCEPT !.header = TRUE] BY <1>4, <1>5 DEF Write
    <2>2. /\ t \in Recorders /\ t.header /\ t.file = n.file
          /\ t.at = n.at /\ t.queue = n.queue /\ t.previous = n.previous
          /\ t.stopped = n.stopped /\ t.failed = n.failed /\ t.warned = n.warned
          /\ t.accepted = n.accepted
      BY <2>1 DEF Recorders
    <2> HIDE DEF t
    <2>3. DataOf(t.file) = D[w + 1] BY <1>2, <1>3, <1>4, <1>5, <2>2
    <2> QED BY <2>2, <2>3 DEF t, D, w
  <1>6. CASE r.header /\ r.previous.config
    <2>1. t = n BY <1>6 DEF Write
    <2> HIDE DEF t
    <2>2. DataOf(t.file) = D[w + 1] BY <1>2, <1>3, <1>6, <2>1
    <2> QED BY <1>6, <2>1, <2>2 DEF t, D, w
  <1>7. CASE r.header /\ ~r.previous.config
    <2>1. t = [n EXCEPT !.file = Append(@, r.previous)] BY <1>7 DEF Write
    <2>2. Append(r.file, r.previous) \in Seq(Packets) BY <1>2
    <2> HIDE DEF t
    <2> DEFINE longer == Append(r.file, r.previous)
    <2>a. t = [n EXCEPT !.file = longer] BY <2>1
    <2>b. longer \in Seq(Packets) BY <2>2
    <2> HIDE DEF longer
    <2>c. t \in Recorders BY <2>a, <2>b DEF Recorders
    <2>d. /\ t.header /\ t.file = longer
          /\ t.at = n.at /\ t.queue = n.queue /\ t.previous = n.previous
          /\ t.stopped = n.stopped /\ t.failed = n.failed /\ t.warned = n.warned
          /\ t.accepted = n.accepted
      BY <1>7, <2>a DEF Recorders
    <2>3. /\ t \in Recorders /\ t.header /\ t.file = Append(r.file, r.previous)
          /\ t.at = n.at /\ t.queue = n.queue /\ t.previous = n.previous
          /\ t.stopped = n.stopped /\ t.failed = n.failed /\ t.warned = n.warned
          /\ t.accepted = n.accepted
      BY <2>c, <2>d DEF longer
    <2>4. DataOf(t.file) = D[w + 1] BY <1>2, <1>3, <1>7, <2>3, DataAppends
    <2> QED BY <2>3, <2>4 DEF t, D, w
  <1> QED BY <1>2, <1>5, <1>6, <1>7

\* A recorder that fails has the beginning of the data in its file.
LEMMA WrittenIsPrefix ==
  ASSUME NEW r \in Recorders, RunSound(r)
  PROVE  IsPrefix(DataOf(r.file), DataOf(r.accepted))
  <1>1. Written(r) \in 0 .. Len(r.accepted)
    <2> DEFINE a == Len(r.accepted)
               q == Len(r.queue)
               w == Written(r)
    <2>1. /\ a \in Nat /\ q \in Nat /\ w \in Nat
          /\ r.previous = NoPacket => w + q = a
          /\ r.previous # NoPacket => w + 1 + q = a
      BY WrittenIs
    <2> HIDE DEF a, q, w
    <2>2. w \in 0 .. a BY <2>1
    <2> QED BY <2>2 DEF a, w
  <1> QED BY <1>1, DataGrows DEF RunSound, Recorders

\* The recorder takes the next packet into its hand, and writes the one it had there.
LEMMA NextSound ==
  ASSUME NEW r \in Recorders, RunSound(r), r.queue # <<>>
  PROVE  LET n == [r EXCEPT !.queue = Tail(@), !.previous = Head(r.queue)]
             t == IF r.previous = NoPacket THEN n ELSE Write(n, r.previous)
         IN  /\ t \in Recorders /\ RunSound(t)
             /\ t.at = r.at /\ t.stopped = r.stopped /\ t.accepted = r.accepted
  <1> DEFINE n == [r EXCEPT !.queue = Tail(@), !.previous = Head(r.queue)]
             t == IF r.previous = NoPacket THEN n ELSE Write(n, r.previous)
             a == Len(r.accepted)
             q == Len(r.queue)
             w == Written(r)
  <1>1. r.queue \in Seq(Packets) /\ r.accepted \in Seq(Packets) BY DEF Recorders
  <1>2. /\ Tail(r.queue) \in Seq(Packets) /\ Head(r.queue) \in Packets
        /\ Head(r.queue) = r.queue[1] /\ Len(Tail(r.queue)) = q - 1
        /\ \A i \in 1 .. q - 1 : Tail(r.queue)[i] = r.queue[i + 1]
    BY <1>1
  <1>3. n \in Recorders BY <1>2 DEF Recorders
  <1>4. /\ n.queue = Tail(r.queue) /\ n.previous = Head(r.queue) /\ n.header = r.header
        /\ n.file = r.file /\ n.at = r.at /\ n.stopped = r.stopped /\ n.failed = r.failed
        /\ n.warned = r.warned /\ n.accepted = r.accepted
    BY DEF Recorders
  <1> HIDE DEF n
  <1>5. /\ t \in Recorders /\ t.at = r.at /\ t.stopped = r.stopped /\ t.accepted = r.accepted
        /\ t.queue = Tail(r.queue) /\ t.previous = r.queue[1] /\ t.previous \in Packets
        /\ t.failed = r.failed /\ t.warned = r.warned
        /\ r.previous = NoPacket => t.header = r.header /\ DataOf(t.file) = DataIn(r.accepted)[w]
        /\ r.previous # NoPacket => t.header /\ DataOf(t.file) = DataIn(r.accepted)[w + 1]
    <2>1. CASE r.previous = NoPacket BY <1>2, <1>3, <1>4, <2>1 DEF RunSound
    <2>2. CASE r.previous # NoPacket BY <1>2, <1>3, <1>4, <2>2, WriteSound
    <2> QED BY <2>1, <2>2
  <1>6. /\ a \in Nat /\ q \in Nat /\ w \in Nat /\ q # 0
        /\ r.previous = NoPacket => w + q = a
        /\ r.previous # NoPacket => w + 1 + q = a
    BY <1>1, WrittenIs
  <1> HIDE DEF t
  <1>7. Written(t) = a - (q - 1) - 1 BY <1>2, <1>5, NoPacketIsNone DEF Written
  <1>8. \A i \in 1 .. q : r.queue[i] = r.accepted[a - q + i] BY DEF RunSound
  <1>9. r.previous = NoPacket => w = 0 /\ ~r.header BY DEF RunSound
  <1>10. ~r.failed /\ ~r.warned /\ (r.accepted # <<>> => r.accepted[1].config) BY DEF RunSound
  <1>11. Len(t.accepted) = a /\ Len(t.queue) = q - 1 BY <1>2, <1>5
  <1> HIDE DEF a, q, w
  <1>12. /\ Written(t) = a - q /\ Written(t) >= 0
         /\ r.previous = NoPacket => Written(t) = w
         /\ r.previous # NoPacket => Written(t) = w + 1
    BY <1>6, <1>7
  <1>13. \A i \in 1 .. Len(t.queue) : t.queue[i] = t.accepted[Len(t.accepted) - Len(t.queue) + i]
    <2> TAKE i \in 1 .. Len(t.queue)
    <2>1. i \in 1 .. q - 1 /\ i + 1 \in 1 .. q /\ a - (q - 1) + i = a - q + (i + 1) BY <1>6, <1>11
    <2> QED BY <1>2, <1>5, <1>8, <1>11, <2>1
  <1>14. t.previous = t.accepted[Written(t) + 1]
    <2>1. 1 \in 1 .. q BY <1>6
    <2> QED BY <1>5, <1>8, <1>12, <2>1
  <1>15. t.previous # NoPacket BY <1>5, NoPacketIsNone
  <1>16. ~t.header => Written(t) = 0 BY <1>5, <1>9, <1>12
  <1>17. DataOf(t.file) = DataIn(t.accepted)[Written(t)] BY <1>5, <1>12
  <1>18. RunSound(t) BY <1>5, <1>10, <1>12, <1>13, <1>14, <1>15, <1>16, <1>17 DEF RunSound
  <1> QED BY <1>5, <1>18 DEF t, n

\* The recorder's thread ends after a stop, and what it has not written it has warned of.
LEMMA EndIsSound ==
  ASSUME NEW r \in Recorders, r.stopped, r.accepted \in Seq(Packets),
         NEW f \in Seq(Packets), NEW w \in BOOLEAN, w => Len(r.accepted) # 0,
         DataOf(f) = DataIn(r.accepted)[Len(r.accepted) - InHand(w)]
  PROVE  LET t == [r EXCEPT !.at = "ended", !.file = f, !.warned = w]
         IN  t \in Recorders /\ t.at = "ended" /\ t.stopped /\ EndSound(t)
  <1> DEFINE t == [r EXCEPT !.at = "ended", !.file = f, !.warned = w]
             n == Len(r.accepted) - InHand(w)
  <1>1. /\ t \in Recorders /\ t.at = "ended" /\ t.stopped /\ t.file = f /\ t.accepted = r.accepted
        /\ t.warned = w
    BY DEF Recorders
  <1>2. n \in 0 .. Len(r.accepted)
    <2>1. Len(r.accepted) \in Nat OBVIOUS
    <2>2. CASE w
      <3>1. InHand(w) = 1 /\ Len(r.accepted) # 0 BY <2>2 DEF InHand
      <3> QED BY <2>1, <3>1
    <2>3. CASE ~w
      <3>1. InHand(w) = 0 BY <2>3 DEF InHand
      <3> QED BY <2>1, <3>1
    <2> QED BY <2>2, <2>3
  <1>3. IsPrefix(DataIn(r.accepted)[n], DataOf(r.accepted)) BY <1>2, DataGrows
  <1> HIDE DEF t
  <1>4. EndSound(t) BY <1>1, <1>3 DEF EndSound
  <1> QED BY <1>1, <1>4 DEF t

LEMMA DrainSound ==
  ASSUME RecorderInv, Drain
  PROVE  rec' \in Recorders /\ rec'.at = "ended" /\ rec'.stopped /\ EndSound(rec')
  <1>1. rec \in Recorders /\ RunSound(rec) /\ rec.stopped /\ rec.queue = <<>>
    BY DEF RecorderInv, Drain
  <1>2. rec.file \in Seq(Packets) /\ rec.accepted \in Seq(Packets) /\ ~rec.warned
    BY <1>1 DEF Recorders, RunSound
  <1> DEFINE Ends(f, w) == [rec EXCEPT !.at = "ended", !.file = f, !.warned = w]
             Owed(w)    == DataIn(rec.accepted)[Len(rec.accepted) - InHand(w)]
  <1>3. Len(rec.queue) = 0 /\ Len(rec.accepted) \in Nat BY <1>1, <1>2
  <1>4. \E f \in Seq(Packets), w \in BOOLEAN :
          DataOf(f) = Owed(w) /\ (w => Len(rec.accepted) # 0) /\ rec' = Ends(f, w)
    <2>1. CASE rec.previous = NoPacket
      <3>1. Written(rec) = Len(rec.accepted) BY <1>1, <1>3, <2>1, WrittenIs
      <3>2. DataOf(rec.file) = Owed(FALSE) BY <1>1, <1>3, <3>1 DEF RunSound, InHand
      <3>3. rec' = [rec EXCEPT !.at = "ended"] BY <2>1 DEF Drain
      <3>4. rec' = Ends(rec.file, FALSE) BY <1>1, <1>2, <3>3 DEF Recorders
      <3> QED BY <1>2, <3>2, <3>4
    <2>2. CASE rec.previous # NoPacket
      <3>1. Written(rec) + 1 = Len(rec.accepted) BY <1>1, <1>3, <2>2, WrittenIs
      <3>2. Written(rec) \in Nat BY <1>1, WrittenIs
      <3>3. CASE rec.header /\ rec' = [rec EXCEPT !.at = "ended", !.file = Append(@, rec.previous)]
        <4> DEFINE f == Append(rec.file, rec.previous)
                   w == Write(rec, rec.previous)
        <4>1. rec.previous \in Packets BY <1>1, <2>2 DEF Recorders
        <4>2. f \in Seq(Packets) BY <1>2, <4>1
        <4>3. DataOf(w.file) = DataIn(rec.accepted)[Written(rec) + 1]
          BY <1>1, <2>2, WriteSound
        <4>4. w.file = IF rec.previous.config THEN rec.file ELSE f
          BY <1>1, <3>3 DEF Write, Recorders
        <4>5. DataOf(f) = IF rec.previous.config THEN DataOf(rec.file) ELSE Append(DataOf(rec.file), rec.previous)
          BY <1>2, <4>1, DataAppends
        <4>6. ~rec.previous.config => DataOf(f) = DataOf(w.file) BY <4>4
        <4>7. rec.previous.config => DataOf(f) = DataOf(w.file) BY <4>4, <4>5
        <4> HIDE DEF w
        <4>8. DataOf(f) = Owed(FALSE)
          BY <3>1, <3>2, <4>3, <4>6, <4>7 DEF InHand
        <4>9. rec' = Ends(f, FALSE) BY <1>1, <1>2, <3>3 DEF Recorders
        <4> QED BY <4>2, <4>8, <4>9
      <3>4. CASE rec' = [rec EXCEPT !.at = "ended", !.warned = TRUE]
        <4>1. Len(rec.accepted) - 1 = Written(rec) /\ Len(rec.accepted) # 0 BY <3>1, <3>2
        <4>2. DataOf(rec.file) = Owed(TRUE) BY <1>1, <4>1 DEF RunSound, InHand
        <4>3. rec' = Ends(rec.file, TRUE) BY <1>1, <3>4 DEF Recorders
        <4> QED BY <1>2, <4>1, <4>2, <4>3
      <3> QED BY <2>2, <3>3, <3>4 DEF Drain
    <2> QED BY <2>1, <2>2
  <1>5. PICK f \in Seq(Packets), w \in BOOLEAN :
          DataOf(f) = Owed(w) /\ (w => Len(rec.accepted) # 0) /\ rec' = Ends(f, w)
    BY <1>4
  <1>6. /\ Ends(f, w) \in Recorders /\ Ends(f, w).at = "ended" /\ Ends(f, w).stopped
        /\ EndSound(Ends(f, w))
    BY <1>1, <1>2, <1>5, EndIsSound
  <1> QED BY <1>5, <1>6

\* Recorder::close marks a recording as failed, or changes nothing of it.
LEMMA CloseSound ==
  ASSUME RecorderInv, CloseFile, rec.at # "running"
  PROVE  /\ rec' \in Recorders /\ rec'.stopped = rec.stopped
         /\ \/ rec'.at = "idle" /\ rec' = rec
            \/ rec'.at = "closed" /\ EndSound(rec')
  <1>1. rec \in Recorders BY DEF RecorderInv
  <1>2. CASE rec.at = "idle" BY <1>1, <1>2 DEF CloseFile
  <1>3. CASE rec.at # "idle"
    <2>1. PICK written \in BOOLEAN :
            rec' = [rec EXCEPT !.at = "closed",
                               !.failed = @ \/ (rec.opened /\ ~(rec.header /\ written))]
      BY <1>3 DEF CloseFile
    <2> DEFINE b == rec.failed \/ (rec.opened /\ ~(rec.header /\ written))
    <2>2. rec' = [rec EXCEPT !.at = "closed", !.failed = b] /\ b \in BOOLEAN /\ (rec.failed => b)
      BY <2>1
    <2> HIDE DEF b
    <2>3. /\ rec' \in Recorders /\ rec'.at = "closed" /\ rec'.stopped = rec.stopped
          /\ rec'.failed = b /\ rec'.file = rec.file /\ rec'.accepted = rec.accepted
          /\ rec'.warned = rec.warned
      BY <1>1, <2>2 DEF Recorders
    <2>4. EndSound(rec) BY <1>1, <1>3 DEF RecorderInv, Recorders
    <2>5. EndSound(rec') BY <1>1, <2>2, <2>3, <2>4 DEF EndSound, Recorders
    <2> QED BY <2>3, <2>5
  <1> QED BY <1>2, <1>3

LEMMA RecorderBegins == VideoInit => RecorderInv
  BY NoRecorder, NewSession DEF VideoInit, RecorderInv

LEMMA RecorderStep ==
  FramesInv /\ RecorderInv /\ [VideoStepOfSession]_videoVars => RecorderInv'
  <1> SUFFICES ASSUME FramesInv, RecorderInv, [VideoStepOfSession]_videoVars PROVE RecorderInv'
    OBVIOUS
  <1>0. stream \in Streams BY DEF FramesInv
  <1>1. CASE Receive
    <2>1. PICK config \in BOOLEAN :
            /\ stream.sent = 0 => config
            /\ stream' = [stream EXCEPT !.sent = @ + 1,
                                        !.packet = [n |-> stream.sent + 1, config |-> config],
                                        !.at = IF config THEN "recording" ELSE "decoding"]
      BY <1>1 DEF Receive
    <2>2. stream.sent + 1 \in 1 .. MaxPackets
      BY <1>0, <1>1, VideoAssumption DEF Receive, Streams
    <2>3. [n |-> stream.sent + 1, config |-> config] \in Packets BY <2>2 DEF Packets
    <2>4. /\ stream'.packet = [n |-> stream.sent + 1, config |-> config]
          /\ stream'.at = IF config THEN "recording" ELSE "decoding"
      BY <1>0, <2>1 DEF Streams
    <2>5. stream'.packet \in Packets /\ stream'.packet.config = config BY <2>3, <2>4
    <2>6. rec' = rec /\ stream.at = "receiving" BY <1>1 DEF Receive
    <2> QED BY <2>1, <2>4, <2>5, <2>6 DEF RecorderInv
  <1>2. CASE Decode \/ Offer \/ Announce
    <2>1. /\ stream.at \in {"decoding", "offering", "announcing"}
          /\ stream'.at \in {"offering", "announcing", "recording"}
          /\ stream'.packet = stream.packet /\ stream'.sent = stream.sent /\ rec' = rec
      BY <1>0, <1>2 DEF Decode, Offer, Announce, Streams
    <2> QED BY <2>1 DEF RecorderInv
  <1>3. CASE Record
    <2>1. /\ stream.at = "recording" /\ stream'.at = "receiving" /\ stream.packet \in Packets
      BY <1>0, <1>3 DEF Record, Streams, RecorderInv
    <2>2. CASE rec.at = "idle" \/ rec.failed
      <3>1. rec' = rec BY <1>3, <2>2 DEF Record
      <3>2. rec.at # "running" BY <2>2 DEF RecorderInv, RunSound
      <3> QED BY <2>1, <3>1, <3>2 DEF RecorderInv
    <2>3. CASE ~(rec.at = "idle" \/ rec.failed)
      <3> DEFINE t == [rec EXCEPT !.queue = Append(@, stream.packet),
                                  !.accepted = Append(@, stream.packet)]
      <3>1. rec' = t BY <1>3, <2>3 DEF Record
      <3>2. rec \in Recorders /\ ~rec.stopped BY <2>1 DEF RecorderInv
      <3>3. rec.at = "running" /\ RunSound(rec)
        BY <2>3, <3>2 DEF RecorderInv, Recorders, EndSound
      <3>4. rec.accepted = <<>> => stream.packet.config BY <2>1, <3>3 DEF RecorderInv
      <3>5. t \in Recorders /\ RunSound(t) /\ t.accepted # <<>>
        BY <2>1, <3>2, <3>3, <3>4, PushSound
      <3>6. t.at = "running" /\ ~t.stopped BY <3>2, <3>3 DEF Recorders
      <3> HIDE DEF t
      <3> QED BY <2>1, <3>1, <3>5, <3>6 DEF RecorderInv
    <2> QED BY <2>2, <2>3
  <1>4. CASE HangUp \/ EndStream
    <2>1. /\ stream'.packet = stream.packet /\ stream'.sent = stream.sent /\ rec' = rec
          /\ \/ stream'.at = stream.at
             \/ stream.at = "receiving" /\ stream'.at = "ended"
      BY <1>0, <1>4 DEF HangUp, EndStream, Streams
    <2> QED BY <2>1 DEF RecorderInv
  <1>5. CASE Drawing \/ StartClosing
    <2>1. stream' = stream /\ rec' = rec
      BY <1>5 DEF Drawing, TakeEvent, StartDrawing, StartReplay, StartSaving, Unlock, Save, Gui,
                  StartClosing
    <2> QED BY <2>1 DEF RecorderInv
  <1>12. CASE FinishClosing
    <2>1. stream' = stream /\ CloseFile /\ rec.at # "running" BY <1>12 DEF FinishClosing
    <2>2. /\ rec' \in Recorders /\ rec'.stopped = rec.stopped
          /\ \/ rec'.at = "idle" /\ rec' = rec
             \/ rec'.at = "closed" /\ EndSound(rec')
      BY <2>1, CloseSound
    <2> QED BY <2>1, <2>2 DEF RecorderInv
  <1>6. CASE StopRecorder
    <2>1. stream' = stream /\ stream.at = "ended" BY <1>6 DEF StopRecorder
    <2> DEFINE s == rec.stopped \/ rec.at = "running"
    <2>2. rec' = [rec EXCEPT !.stopped = s] /\ s \in BOOLEAN BY <1>6 DEF StopRecorder
    <2> HIDE DEF s
    <2>3. rec \in Recorders BY DEF RecorderInv
    <2>4. /\ rec' \in Recorders /\ rec'.stopped = s /\ rec'.at = rec.at /\ rec'.accepted = rec.accepted
          /\ rec'.queue = rec.queue /\ rec'.previous = rec.previous /\ rec'.header = rec.header
          /\ rec'.failed = rec.failed /\ rec'.file = rec.file /\ rec'.warned = rec.warned
      BY <2>2, <2>3 DEF Recorders
    <2>5. rec.at = "idle" => rec' = rec
      <3> SUFFICES ASSUME rec.at = "idle" PROVE rec' = rec
        OBVIOUS
      <3>1. ~s /\ ~rec.stopped BY NoRecorder DEF RecorderInv, s
      <3>2. s = rec.stopped BY <2>2, <2>3, <3>1 DEF Recorders
      <3> QED BY <2>2, <2>3, <3>2 DEF Recorders
    <2>6. Written(rec') = Written(rec) BY <2>4 DEF Written
    <2>7. RunSound(rec) => RunSound(rec') BY <2>4, <2>6 DEF RunSound
    <2>8. rec.at \in {"ended", "closed"} => EndSound(rec')
      <3> SUFFICES ASSUME rec.at \in {"ended", "closed"} PROVE EndSound(rec')
        OBVIOUS
      <3>1. EndSound(rec) BY DEF RecorderInv
      <3>2. rec.stopped => s BY DEF s
      <3> QED BY <2>4, <3>1, <3>2 DEF EndSound
    <2> QED BY <2>1, <2>4, <2>5, <2>7, <2>8 DEF RecorderInv
  <1>7. CASE Drain
    <2>1. stream' = stream /\ rec.stopped BY <1>7 DEF Drain
    <2> QED BY <1>7, <2>1, DrainSound DEF RecorderInv
  <1>8. CASE WriteNext
    <2> DEFINE n == [rec EXCEPT !.queue = Tail(@), !.previous = Head(rec.queue)]
               t == IF rec.previous = NoPacket THEN n ELSE Write(n, rec.previous)
               e == [n EXCEPT !.failed = TRUE, !.queue = <<>>, !.at = "ended"]
    <2>1. /\ stream' = stream /\ rec.at = "running" /\ rec.queue # <<>>
          /\ rec' = t \/ rec' = e
      BY <1>8 DEF WriteNext
    <2>2. rec \in Recorders /\ RunSound(rec) BY <2>1 DEF RecorderInv
    <2>3. CASE rec' = t
      <3>1. /\ t \in Recorders /\ RunSound(t)
            /\ t.at = rec.at /\ t.stopped = rec.stopped /\ t.accepted = rec.accepted
        BY <2>1, <2>2, NextSound
      <3> HIDE DEF t
      <3> QED BY <2>1, <2>3, <3>1 DEF RecorderInv
    <2>4. CASE rec' = e
      <3>1. rec.queue \in Seq(Packets) /\ <<>> \in Seq(Packets) BY <2>2 DEF Recorders
      <3>2. Tail(rec.queue) \in Seq(Packets) /\ Head(rec.queue) \in Packets BY <2>1, <3>1
      <3>3. n \in Recorders /\ n.stopped = rec.stopped /\ n.file = rec.file /\ n.accepted = rec.accepted
        BY <2>2, <3>2 DEF Recorders
      <3> HIDE DEF n
      <3>4. /\ e \in Recorders /\ e.at = "ended" /\ e.failed /\ e.stopped = rec.stopped
            /\ e.file = rec.file /\ e.accepted = rec.accepted
        BY <3>1, <3>3 DEF Recorders
      <3> HIDE DEF e
      <3>5. EndSound(e) BY <2>2, <3>4, WrittenIsPrefix DEF EndSound
      <3> QED BY <2>1, <2>4, <3>4, <3>5 DEF RecorderInv
    <2> QED BY <2>1, <2>3, <2>4
  <1>9. CASE Reset
    BY <1>9, NoRecorder, NewSession DEF Reset, RecorderInv
  <1>10. CASE \E recorded \in {FALSE, Recorded}, opens \in BOOLEAN : OpenSession(recorded, opens)
    <2>1. PICK opens \in BOOLEAN :
            /\ stream' = [NewStream EXCEPT !.at = "receiving", !.open = TRUE]
            /\ rec' \in {NewRecorder, [NewRecorder EXCEPT !.at = "running", !.opened = opens]}
      BY <1>10 DEF OpenSession
    <2>2. stream'.at = "receiving" /\ stream'.sent = 0 BY <2>1 DEF NewStream
    <2>3. CASE rec' = NewRecorder BY <2>2, <2>3, NoRecorder DEF RecorderInv
    <2>4. CASE rec' = [NewRecorder EXCEPT !.at = "running", !.opened = opens]
      <3>1. /\ rec' \in Recorders /\ rec'.at = "running" /\ ~rec'.stopped /\ rec'.accepted = <<>>
            /\ RunSound(rec')
        BY <2>4, NewRecorders
      <3> QED BY <2>2, <3>1 DEF RecorderInv
    <2> QED BY <2>1, <2>3, <2>4
  <1>11. CASE UNCHANGED videoVars
    BY <1>11 DEF videoVars, RecorderInv
  <1> QED
    BY <1>1, <1>2, <1>3, <1>4, <1>5, <1>6, <1>7, <1>8, <1>9, <1>10, <1>11, <1>12
    DEF VideoStepOfSession, VideoNext, Demuxing, Recording, ClosingDown

LEMMA AlwaysRecorderInv == Spec => []RecorderInv
  <1>1. Init => RecorderInv BY RecorderBegins DEF Init
  <1>2. FramesInv /\ RecorderInv /\ [Next]_coreVars => RecorderInv'
    BY RecorderStep, CoreStepsAreVideoSteps
  <1> QED BY <1>1, <1>2, AlwaysFramesInv, PTL DEF Spec

LEMMA RecorderInvSuffices ==
  ASSUME FramesInv, RecorderInv
  PROVE  RecordingIsComplete
  <1>1. VideoTypeOK
    <2>1. rec.queue \in Seq(Packets) /\ rec.at \in {"idle", "running", "ended", "closed"}
      BY DEF RecorderInv, Recorders
    <2>2. Range(rec.queue) \subseteq Packets BY <2>1 DEF Range
    <2>3. /\ stream.at \in ThreadStates /\ stream.packet \in Packets \cup {NoPacket}
          /\ buf.lock \in {"none", "gui"}
      BY DEF FramesInv, Streams, Buffers
    <2> QED BY <2>1, <2>2, <2>3 DEF VideoTypeOK, FramesInv
  <1>2. CASE rec.at = "running"
    BY <1>1, <1>2, WrittenIsPrefix DEF RecordingIsComplete, RecorderInv
  <1>3. CASE rec.at \in {"ended", "closed"}
    BY <1>1, <1>3 DEF RecordingIsComplete, RecorderInv, EndSound
  <1>4. CASE rec.at = "idle"
    <2>1. rec.file = <<>> /\ rec.accepted = <<>> BY <1>4 DEF RecorderInv, NewRecorder
    <2>2. IsPrefix(<<>>, <<>>) BY DEF IsPrefix
    <2> QED BY <1>1, <1>4, <2>1, <2>2, NoData DEF RecordingIsComplete, RecorderInv
  <1> QED BY <1>2, <1>3, <1>4 DEF RecorderInv, Recorders

\* Recorder: what is in the file is always the beginning of the data the stream gave it, in
\* order, and all of it once the recorder's thread has ended after a stop; it is not stopped
\* before the stream has ended.
THEOREM RecordingsAreComplete == Spec => []RecordingIsComplete
  <1>1. FramesInv /\ RecorderInv => RecordingIsComplete BY RecorderInvSuffices
  <1> QED BY <1>1, AlwaysFramesInv, AlwaysRecorderInv, PTL
=============================================================================

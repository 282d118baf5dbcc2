---------------------------- MODULE ServerStart ----------------------------
(***************************************************************************)
(* How the core starts the scrcpy server of one phone: Server              *)
(* (QtScrcpyCore/src/device/server/server.cpp), the part of Device         *)
(* (device.cpp) that reacts to its signals, and DeviceManage's entry.      *)
(*                                                                         *)
(* All of it runs on the GUI thread; what interleaves are the results of   *)
(* two adb processes (m_workProcess: push, reverse, forward;               *)
(* m_serverProcess: the server's shell), sockets, timers, and the owner    *)
(* who may delete the Device at any point.  A handler is a function on the *)
(* record `srv`.                                                           *)
(***************************************************************************)
EXTENDS Integers, FiniteSets

CONSTANTS
  MaxConnects,  \* MAX_CONNECT_COUNT: failed reads of the header in forward mode
  MaxRestarts,  \* MAX_RESTART_COUNT
  MaxStarts     \* bound: connectDevice calls in a behaviour

ASSUME ServerAssumption == MaxConnects \in Nat /\ MaxRestarts \in Nat /\ MaxStarts \in Nat

VARIABLES
  srv,      \* the Device of the serial, its Server, and what the Server drives
  adb,      \* tunnels the adb server keeps, and `--remove` commands under way
  starts    \* connectDevice calls so far

startVars == <<srv, adb, starts>>

Tunnels == {"reverse", "forward"}
Steps   == {"null", "push", "reverse", "forward", "execute", "running"}

Server == [
  entry      : {"absent", "device", "null"},  \* DeviceManage's m_devices
  held       : BOOLEAN,        \* Device::m_server is not null
  up         : BOOLEAN,        \* m_serverStartSuccess
  closing    : BOOLEAN,        \* the GUI thread is inside disconnectDevice of a live session
  useReverse : BOOLEAN,        \* ServerParams
  posted     : BOOLEAN,        \* the zero timer of connectDevice
  step       : Steps,          \* m_serverStartStep
  work       : {"idle", "push", "reverse", "forward"},     \* m_workProcess
  proc       : {"none", "spawning", "up", "dying"},        \* m_serverProcess
  forward    : BOOLEAN,        \* m_tunnelForward
  enabled    : BOOLEAN,        \* m_tunnelEnabled
  listening  : BOOLEAN,        \* m_serverSocket
  accept     : BOOLEAN,        \* m_acceptTimeoutTimer runs
  connect    : BOOLEAN,        \* m_connectTimeoutTimer runs
  connects   : 0 .. MaxConnects,   \* m_connectCount
  restarts   : 0 .. MaxRestarts,   \* m_restartCount
  video      : BOOLEAN,        \* m_videoSocket
  control    : {"none", "open", "closed"},                 \* m_controlSocket
  infoReady  : BOOLEAN,        \* m_infoReady
  infoTimer  : BOOLEAN,        \* the 3 s timer of the device-info header
  stream     : {"idle", "running", "over"},   \* the demuxer thread; over: onStreamStop posted
  crashed    : BOOLEAN ]       \* a null pointer was used

Gone == [
  entry |-> "absent", held |-> FALSE, up |-> FALSE, closing |-> FALSE, useReverse |-> TRUE,
  posted |-> FALSE, step |-> "null", work |-> "idle", proc |-> "none", forward |-> FALSE,
  enabled |-> FALSE, listening |-> FALSE, accept |-> FALSE, connect |-> FALSE,
  connects |-> 0, restarts |-> 0, video |-> FALSE, control |-> "none",
  infoReady |-> FALSE, infoTimer |-> FALSE, stream |-> "idle", crashed |-> FALSE]

\* A handler's outcome: the record, and the tunnels it asks adb to remove.
Out(s, R) == [s |-> s, remove |-> R]

-----------------------------------------------------------------------------
(* Server::stop and the reports.                                           *)

TunnelOf(s) == IF s.forward THEN "forward" ELSE "reverse"

\* Server::stop stops the timer of the mode in use only, and leaves the step, the
\* video socket and the timer of the header as they are.
Stopped(s) ==
  [s EXCEPT !.accept    = @ /\ s.forward,
            !.connect   = @ /\ ~s.forward,
            !.connects  = IF s.forward THEN 0 ELSE @,
            !.control   = IF @ = "open" THEN "closed" ELSE @,
            !.proc      = IF @ = "none" THEN "none" ELSE "dying",
            !.forward   = @ /\ ~s.enabled,
            !.enabled   = FALSE,
            !.listening = FALSE]

RemovedByStop(s) == IF s.enabled THEN {TunnelOf(s)} ELSE {}

\* serverStarted(false): DeviceManage drops the entry and deletes the Device, which then
\* stops the server.  A Device that let go of its server calls through a null pointer.
Failed(s, R) ==
  IF s.held THEN Out(Gone, R \cup RemovedByStop(s)) ELSE Out([s EXCEPT !.crashed = TRUE], R)

\* serverStarted(true): the stream takes the video socket.
Succeeded(s, R) ==
  IF s.held THEN Out([s EXCEPT !.up = TRUE, !.video = FALSE, !.stream = "running"], R)
            ELSE Out([s EXCEPT !.crashed = TRUE], R)

\* Faulty variant: m_serverStartSuccess is reset before it is asked.
DisconnectDeviceSilently(s) ==
  IF ~s.held THEN Out(s, {})
  ELSE Out([Stopped(s) EXCEPT !.held = FALSE, !.up = FALSE], RemovedByStop(s))

\* Device::disconnectDevice.  While it waits for the threads of a live session the
\* GUI thread is inside it; Closed is its end.
DisconnectDevice(s) ==
  IF ~s.held THEN Out(s, {})
  ELSE Out([Stopped(s) EXCEPT !.held = FALSE, !.closing = s.up], RemovedByStop(s))

-----------------------------------------------------------------------------
(* The steps of a start.                                                   *)

Forwarding(s) == [s EXCEPT !.forward = TRUE, !.step = "forward", !.work = "forward"]

\* A process that is still dying refuses to be started again, and says nothing.
Executing(s) == [s EXCEPT !.step = "execute",
                          !.proc = IF @ = "none" THEN "spawning" ELSE "dying"]

StartServer(s) == [s EXCEPT !.step = "push", !.work = "push"]

\* Faulty variant: a socket that cannot listen leaves the tunnel behind.
ListenOrFailLeaking(s, listens) ==
  IF listens THEN Out(Executing([s EXCEPT !.listening = TRUE]), {})
  ELSE Failed([s EXCEPT !.step = "null"], {})

ListenOrFail(s, listens) ==
  IF listens THEN Out(Executing([s EXCEPT !.listening = TRUE]), {})
  ELSE Failed([s EXCEPT !.step = "null"], {"reverse"})

WorkResult(s, ok, listens) ==
  LET idle == [s EXCEPT !.work = "idle"]
  IN  CASE s.step = "push" /\ ok ->
             Out(IF s.useReverse THEN [s EXCEPT !.step = "reverse", !.work = "reverse"]
                                 ELSE Forwarding(s), {})
        [] s.step = "reverse" /\ ok   -> ListenOrFail(idle, listens)
        [] s.step = "reverse" /\ ~ok  -> Out(Forwarding(s), {})
        [] s.step = "forward" /\ ok   -> Out(Executing(idle), {})
        [] s.step \in {"push", "forward"} /\ ~ok ->
             Failed([idle EXCEPT !.step = "null"], {})
        [] OTHER -> Out(idle, {})

\* Faulty variant: nobody waits for a server that connects to us.
ConnectToUnwatched(s) ==
  [s EXCEPT !.step = "running", !.enabled = TRUE, !.connect = s.forward \/ s.video]

ConnectTo(s) ==
  [s EXCEPT !.step = "running", !.enabled = TRUE,
            !.accept = IF ~s.forward /\ ~s.video THEN TRUE ELSE @,
            !.connect = IF s.forward \/ s.video THEN TRUE ELSE @]

\* The server process was killed or ended by itself.
ProcessEnded(s) ==
  LET over == [s EXCEPT !.proc = "none"]
  IN  CASE s.step = "execute" ->
             Failed([over EXCEPT !.step = "null", !.listening = FALSE], {TunnelOf(s)})
        [] s.step = "running" -> DisconnectDevice([over EXCEPT !.step = "null"])
        [] OTHER -> Out(over, {})

FinishReverseStart(s) ==
  Succeeded([s EXCEPT !.listening = FALSE, !.enabled = FALSE, !.accept = FALSE], {"reverse"})

\* A first connection is the video socket, a second the control socket.
NewConnection(s, valid) ==
  CASE ~valid -> Failed(Stopped(s), RemovedByStop(s))
    [] valid /\ ~s.video -> Out([s EXCEPT !.video = TRUE, !.infoReady = FALSE,
                                          !.infoTimer = TRUE], {})
    [] valid /\ s.video ->
         LET t == [s EXCEPT !.control = "open"]
         IN  IF s.infoReady THEN FinishReverseStart(t) ELSE Out(t, {})

HeaderRead(s) ==
  LET t == [s EXCEPT !.infoReady = TRUE]
  IN  IF s.control = "open" THEN FinishReverseStart(t) ELSE Out(t, {})

InfoTimeout(s) ==
  LET t == [s EXCEPT !.infoTimer = FALSE]
  IN  IF ~s.infoReady /\ s.video THEN Failed(Stopped(t), RemovedByStop(t)) ELSE Out(t, {})

\* onConnectTimer: what the two sockets and the read of the header came to.
Attempt(s, outcome) ==
  LET last  == outcome = "refused" \/ s.connects = MaxConnects
      ended == Stopped([s EXCEPT !.connect = FALSE, !.connects = 0])
  IN  CASE outcome = "header" ->
             Succeeded([s EXCEPT !.connect = FALSE, !.connects = 0, !.video = TRUE,
                                 !.control = "open", !.enabled = FALSE, !.restarts = 0],
                       {"forward"})
        [] outcome # "header" /\ ~last -> Out([s EXCEPT !.connects = @ + 1], {})
        [] outcome # "header" /\ last /\ s.restarts < MaxRestarts ->
             Out(StartServer([ended EXCEPT !.restarts = @ + 1]), RemovedByStop(s))
        [] OTHER -> Failed([ended EXCEPT !.restarts = 0], RemovedByStop(s))

-----------------------------------------------------------------------------
(* Events.                                                                 *)

Serving == ~srv.crashed /\ ~srv.closing

\* A tunnel has the session id and the port of its start in its name.
Named(K) == K \X {starts}

\* The handler's outcome, with tunnels T that adb made just before.
Does(out, T) ==
  /\ srv' = out.s
  /\ adb' = [tunnels  |-> adb.tunnels \cup Named(T),
             removing |-> adb.removing \cup Named(out.remove)]
  /\ UNCHANGED starts

Connect ==
  /\ Serving /\ srv.entry = "absent" /\ starts < MaxStarts
  /\ \E reverse \in BOOLEAN :
       srv' = [Gone EXCEPT !.entry = "device", !.held = TRUE, !.posted = TRUE,
                           !.useReverse = reverse]
  /\ starts' = starts + 1
  /\ UNCHANGED adb

Begin == Serving /\ srv.posted /\ Does(Out(StartServer([srv EXCEPT !.posted = FALSE]), {}), {})

WorkDone ==
  /\ Serving /\ srv.work # "idle"
  /\ \E ok, listens \in BOOLEAN :
       Does(WorkResult(srv, ok, listens), IF ok THEN {srv.work} \cap Tunnels ELSE {})

Spawned ==
  /\ Serving /\ srv.proc = "spawning" /\ srv.step = "execute"
  /\ Does(Out(ConnectTo([srv EXCEPT !.proc = "up"]), {}), {})

\* adb cannot be started: AER_ERROR_MISSING_BINARY is not handled in this step.
SpawnFails == /\ Serving /\ srv.proc = "spawning"
              /\ Does(Out([srv EXCEPT !.proc = "none"], {}), {})

ProcEnds == Serving /\ srv.proc \in {"up", "dying"} /\ Does(ProcessEnded(srv), {})

SocketConnects ==
  /\ Serving /\ srv.listening /\ srv.proc = "up" /\ srv.control = "none"
  /\ Named({"reverse"}) \subseteq adb.tunnels
  /\ \E valid \in BOOLEAN : Does(NewConnection(srv, valid), {})

\* The header may still be in the socket after the server process has ended.
HeaderArrives ==
  Serving /\ srv.video /\ ~srv.infoReady /\ Does(HeaderRead(srv), {})

InfoTimerFires == Serving /\ srv.infoTimer /\ Does(InfoTimeout(srv), {})

AcceptTimerFires ==
  Serving /\ srv.accept /\ Does(Failed([srv EXCEPT !.accept = FALSE], {}), {})

ConnectTimerFires ==
  /\ Serving /\ srv.connect
  /\ \E outcome \in {"refused", "silent", "header"} :
       /\ outcome = "header" => srv.proc = "up" /\ Named({"forward"}) \subseteq adb.tunnels
       /\ Does(Attempt(srv, outcome), {})

\* The stream ends by itself: the device closed the video socket.
StreamEnds == /\ ~srv.crashed /\ srv.stream = "running"
              /\ Does(Out([srv EXCEPT !.stream = "over"], {}), {})

StreamStops ==
  /\ Serving /\ srv.stream = "over"
  /\ Does(DisconnectDevice([srv EXCEPT !.stream = "idle"]), {})

\* The end of disconnectDevice, for which the stream thread had to end: deviceDisconnected
\* removes the entry and the Device.
Closed == /\ ~srv.crashed /\ srv.closing /\ srv.stream # "running"
          /\ Does(Out(Gone, {}), {})

\* DeviceManage::disconnectDevice deletes the Device; only a session that was up is reported.
Delete ==
  /\ Serving /\ srv.entry = "device"
  /\ Does(IF srv.up THEN DisconnectDevice(srv)
          ELSE Out([Gone EXCEPT !.entry = "null"],
                   IF srv.held THEN RemovedByStop(srv) ELSE {}), {})

RemovalDone ==
  \E k \in adb.removing :
    /\ adb' = [tunnels |-> adb.tunnels \ {k}, removing |-> adb.removing \ {k}]
    /\ UNCHANGED <<srv, starts>>

\* A thread of a session that is up uses a null pointer.
Crashes == /\ ~srv.crashed /\ srv.up
           /\ srv' = [srv EXCEPT !.crashed = TRUE]
           /\ UNCHANGED <<adb, starts>>

StartInit == /\ srv = Gone
             /\ adb = [tunnels |-> {}, removing |-> {}]
             /\ starts = 0

Handlers ==
  \/ Connect \/ Begin \/ WorkDone \/ Spawned \/ SpawnFails \/ ProcEnds
  \/ SocketConnects \/ HeaderArrives
  \/ InfoTimerFires \/ AcceptTimerFires \/ ConnectTimerFires
  \/ StreamStops \/ Delete

StartNext == Handlers \/ Closed \/ StreamEnds \/ RemovalDone \/ Crashes

-----------------------------------------------------------------------------
(* Properties.                                                             *)

StartTypeOK ==
  /\ srv \in Server
  /\ adb.tunnels \subseteq Tunnels \X (1 .. MaxStarts)
  /\ adb.removing \subseteq Tunnels \X (1 .. MaxStarts)

\* A tunnel in adb's list is being removed, or belongs to the start under way, or to one
\* whose Device was deleted in the middle (the entry stays "null"): no order in which
\* adb's answers, sockets and timers end a start leaves a tunnel behind, and with it a
\* local port adb listens on (finishReverseStart, stop, onWorkProcessResult).
InUse ==
  CASE srv.entry = "null"    -> Named(Tunnels)
    [] srv.step = "execute" -> Named({TunnelOf(srv)})
    [] srv.enabled          -> Named({TunnelOf(srv)})
    [] OTHER -> {}

TunnelsAreTaken ==
  StartTypeOK /\ adb.tunnels \subseteq adb.removing \cup InUse

\* The entry as the farm's service sees it.
EntryOf(s) == CASE s.entry # "device"           -> s.entry
                [] s.entry = "device" /\ s.up   -> "live"
                [] s.entry = "device" /\ ~s.up  -> IF s.held THEN "starting" ELSE "zombie"

Entry == INSTANCE CoreEntry WITH Serial <- {"phone"}, entry <- [d \in {"phone"} |-> EntryOf(srv)]

EntrySpec == Entry!Spec
=============================================================================

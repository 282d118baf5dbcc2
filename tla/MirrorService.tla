--------------------------- MODULE MirrorService ---------------------------
(***************************************************************************)
(* The mirror-session lifecycle of the farm: DeviceService                 *)
(* (farm/devices/deviceservice.cpp) on top of the core's DeviceManage and  *)
(* Device (QtScrcpyCore), the farm state DeviceRegistry keeps for a phone, *)
(* and the discovery callbacks that drive the service.                     *)
(*                                                                         *)
(* Everything here runs on the GUI thread, so a handler is atomic; what    *)
(* interleaves are the handlers: operator commands, adb answers, timers,   *)
(* core signals and `adb devices` listings.  A handler is a function on    *)
(* the record of one device; Settle then does what every handler ends      *)
(* with, pump(), which starts queued devices while start slots are free.   *)
(*                                                                         *)
(* Beside some operators stands a faulty variant, the operator with a bug  *)
(* a programmer could plausibly have written.  No action uses them: with   *)
(* one in place of the operator after it, a property below fails.          *)
(***************************************************************************)
EXTENDS Integers, FiniteSets, SequencesExt

CONSTANTS
  Dev,            \* the devices the registry knows
  Tcp,            \* those reached over WiFi (their id is host:port)
  AutoMirrored,   \* those whose auto-mirror preference (and the global one) is on
  Rows,           \* what `adb devices` may list a device as ("gone": not listed)
  Commands,       \* the operator commands a run enumerates
  Normalize,      \* setting: normalise the resolution before capture
  AutoReconnect,  \* setting: mirror/autoReconnect
  MaxAttempts,    \* setting: mirror/reconnectMaxAttempts, 0 is unlimited
  LimitRange,     \* the values mirror/maxConcurrentStarts takes
  PortsRunOut,    \* whether the allocator may find no port to bind
  CommandBound,   \* bound: operator commands in a behaviour
  FlightBound     \* bound: adb calls or timers of one kind pending for a device

\* "other" is any further state adb knows: recovery, sideload, no permissions.
AllRows == {"device", "unauthorized", "offline", "other", "gone"}

AllCommands == {"mirror", "stop", "restart", "reconnect", "disconnect",
                "connect ip", "reboot", "limit"}

ASSUME DevAssumption == /\ IsFiniteSet(Dev)
                        /\ Tcp \subseteq Dev
                        /\ AutoMirrored \subseteq Dev
ASSUME InputAssumption == /\ Rows \subseteq AllRows
                          /\ Commands \subseteq AllCommands
ASSUME SettingAssumption == /\ Normalize \in BOOLEAN
                            /\ AutoReconnect \in BOOLEAN
                            /\ PortsRunOut \in BOOLEAN
                            /\ MaxAttempts \in Nat
                            /\ LimitRange \subseteq Nat \ {0}
                            /\ LimitRange # {}
ASSUME BoundAssumption == CommandBound \in Nat /\ FlightBound \in Nat \ {0}

VARIABLES
  dev,       \* what the service, the core, the registry and discovery hold per device
  queue,     \* m_queue: devices waiting for a start slot, in order
  limit,     \* maxConcurrentStarts()
  down,      \* m_shuttingDown
  commands,  \* operator commands given so far
  barred     \* history: what became of the operator's last Stop of a device

vars == <<dev, queue, limit, down, commands, barred>>

\* "stop": he stopped it and has not asked for it since; "overruled": the timer of
\* an earlier Restart started it nevertheless; "no": anything else.
Bars == {"no", "stop", "overruled"}

RegStates == {"Unknown", "Discovered", "Connecting", "AdbOnline", "Mirroring",
              "Unauthorized", "Offline", "Error", "Reconnecting"}

\* What DeviceManage holds for a serial: no entry, a Device that is starting its
\* server, one whose server process ended before the start was reported, a live
\* session, or an entry whose Device was deleted without being removed.
CoreStates == {"absent", "starting", "zombie", "live", "null"}

\* m_reconnectAttempts only counts towards MaxAttempts (and sets the delay); the
\* end of a reboot puts it to two.
TriesRange == 0 .. (IF MaxAttempts > 2 THEN MaxAttempts ELSE 2)

Device == [
  reg        : RegStates,       \* DeviceRecord.state
  adbDevice  : BOOLEAN,         \* DeviceRecord.adbState == "device"
  online     : BOOLEAN,         \* discovery's m_onlineIds
  core       : CoreStates,
  lease      : BOOLEAN,         \* ConnectionIdAllocator holds a lease of it
  queued     : BOOLEAN,         \* m_queue.contains
  starting   : BOOLEAN,         \* m_starting
  watchdog   : BOOLEAN,         \* its m_startTimers entry is active
  mirroring  : BOOLEAN,         \* m_mirroring
  wanted     : BOOLEAN,         \* m_wanted
  stopped    : BOOLEAN,         \* m_operatorStopped
  normalized : BOOLEAN,         \* m_normalized
  rebooting  : BOOLEAN,         \* m_rebooting
  retry      : BOOLEAN,         \* its m_reconnectTimers entry is active
  tries      : TriesRange,      \* m_reconnectAttempts
  norm       : Nat,             \* `wm size` calls not answered yet
  dial       : Nat,             \* `adb connect` calls of attemptReconnect
  probe      : Nat,             \* `echo ok` calls of attemptReconnect
  restart    : Nat,             \* 400 ms restart timers
  reboot     : Nat,             \* `adb reboot` calls not answered yet
  rebootWait : Nat,             \* 20 s reboot timers
  connecting : BOOLEAN,         \* discovery's m_connecting
  hangup     : Nat ]            \* `adb disconnect` calls not answered yet

InFlight(r) == {r.norm, r.dial, r.probe, r.restart, r.reboot, r.rebootWait, r.hangup}

NewDevice == [
  reg |-> "Unknown", adbDevice |-> FALSE, online |-> FALSE, core |-> "absent",
  lease |-> FALSE, queued |-> FALSE, starting |-> FALSE, watchdog |-> FALSE,
  mirroring |-> FALSE, wanted |-> FALSE, stopped |-> FALSE, normalized |-> FALSE,
  rebooting |-> FALSE, retry |-> FALSE, tries |-> 0, norm |-> 0, dial |-> 0,
  probe |-> 0, restart |-> 0, reboot |-> 0, rebootWait |-> 0,
  connecting |-> FALSE, hangup |-> 0]

-----------------------------------------------------------------------------
(* Reconnect: scheduleReconnect, cancelReconnect, attemptReconnect.        *)

SetState(r, s) == [r EXCEPT !.reg = s]

Online(r) == r.reg \in {"AdbOnline", "Mirroring"}

CancelReconnect(r) == [r EXCEPT !.retry = FALSE, !.tries = 0]

\* Faulty variant: the attempt limit is not looked at.
GivenUpIgnoringLimit(r) == FALSE

GivenUp(r) == MaxAttempts > 0 /\ r.tries >= MaxAttempts

ScheduleReconnect(r) ==
  CASE r.rebooting                   -> r
    [] ~r.rebooting /\ GivenUp(r)    -> SetState(r, "Offline")
    [] OTHER -> [r EXCEPT !.tries = IF MaxAttempts = 0 THEN @ ELSE @ + 1,
                          !.reg = "Reconnecting", !.retry = TRUE]

Pursued(r) == r.wanted /\ ~r.stopped /\ AutoReconnect

Reschedule(r) == IF Pursued(r) THEN ScheduleReconnect(r) ELSE r

AttemptReconnect(d, r) ==
  CASE ~r.wanted \/ r.stopped -> r
    [] OTHER -> IF d \in Tcp THEN [r EXCEPT !.dial = @ + 1]
                             ELSE [r EXCEPT !.probe = @ + 1]

-----------------------------------------------------------------------------
(* One start: finishStart, launchCore, beginStart.                         *)

\* Faulty variant: the lease is given back by a start that succeeds, too.
FinishStartReleasing(r, success) ==
  CASE success -> [r EXCEPT !.starting = FALSE, !.watchdog = FALSE, !.mirroring = TRUE,
                            !.lease = FALSE, !.tries = 0, !.reg = "Mirroring"]
    [] ~success -> Reschedule([r EXCEPT !.starting = FALSE, !.watchdog = FALSE,
                                        !.lease = FALSE, !.reg = "Error"])

FinishStart(r, success) ==
  CASE success -> [r EXCEPT !.starting = FALSE, !.watchdog = FALSE, !.mirroring = TRUE,
                            !.tries = 0, !.reg = "Mirroring"]
    [] ~success /\ r.starting ->
         Reschedule([r EXCEPT !.starting = FALSE, !.watchdog = FALSE,
                              !.lease = FALSE, !.reg = "Error"])
    [] ~success /\ ~r.starting -> [r EXCEPT !.watchdog = FALSE]

\* Faulty variant: the core replaces an entry it has.
LaunchCoreAgain(r, portFree) ==
  CASE ~r.starting -> r
    [] r.starting /\ ~(r.lease \/ portFree) -> FinishStart(r, FALSE)
    [] r.starting /\ (r.lease \/ portFree) -> [r EXCEPT !.lease = TRUE, !.core = "starting"]

\* portFree: acquire() finds a port; the owner of a lease gets the one it has.
LaunchCore(r, portFree) ==
  CASE ~r.starting -> r
    [] r.starting /\ ~(r.lease \/ portFree) -> FinishStart(r, FALSE)
    [] r.starting /\ (r.lease \/ portFree) ->
         IF r.core = "absent"
           THEN [r EXCEPT !.lease = TRUE, !.core = "starting"]
           ELSE FinishStart([r EXCEPT !.lease = FALSE], FALSE)

\* Faulty variant: no watchdog, and no normalisation, for a start.
BeginStartUnwatched(r, portFree) ==
  LaunchCore([r EXCEPT !.queued = FALSE, !.starting = TRUE, !.reg = "Connecting"], portFree)

BeginStart(r, portFree) ==
  LET begun == [r EXCEPT !.queued = FALSE, !.starting = TRUE, !.watchdog = TRUE,
                         !.reg = "Connecting"]
  IN  IF Normalize /\ ~r.normalized THEN [begun EXCEPT !.norm = @ + 1]
                                    ELSE LaunchCore(begun, portFree)

-----------------------------------------------------------------------------
(* The end of a session: onCoreDisconnected and DeviceManage's deletion of *)
(* a Device, whose destructor reports only a session that had started.     *)

OnCoreDisconnected(r) ==
  LET ended == [r EXCEPT !.mirroring = FALSE]
  IN  CASE r.starting -> FinishStart(ended, FALSE)
        [] ~r.starting /\ ~r.mirroring -> r
        [] ~r.starting /\ r.mirroring ->
             LET free == [ended EXCEPT !.lease = FALSE]
             IN  CASE Pursued(free) -> ScheduleReconnect(free)
                   [] ~Pursued(free) /\ free.reg = "Mirroring" -> SetState(free, "AdbOnline")
                   [] OTHER -> free

CoreDisconnect(r) ==
  CASE r.core = "live" -> [OnCoreDisconnected(r) EXCEPT !.core = "absent"]
    [] r.core \in {"starting", "zombie"} -> [r EXCEPT !.core = "null"]
    [] OTHER -> r

\* Faulty variant: the core is not told to disconnect.
StopMirrorForgettingCore(r, byOperator) ==
  LET wish == IF byOperator
                THEN CancelReconnect([r EXCEPT !.wanted = FALSE, !.stopped = TRUE])
                ELSE r
  IN  SetState([wish EXCEPT !.queued = FALSE, !.starting = FALSE, !.watchdog = FALSE,
                            !.mirroring = FALSE, !.lease = @ /\ ~r.mirroring], "AdbOnline")

StopMirror(r, byOperator) ==
  LET wish == IF byOperator
                THEN CancelReconnect([r EXCEPT !.wanted = FALSE, !.stopped = TRUE])
                ELSE r
      idle == CoreDisconnect([wish EXCEPT !.queued = FALSE, !.starting = FALSE,
                                          !.watchdog = FALSE])
      over == IF idle.mirroring THEN [idle EXCEPT !.mirroring = FALSE, !.lease = FALSE]
                                ELSE idle
  IN  IF over.reg \in {"Mirroring", "Connecting"}
        THEN SetState(over, IF over.adbDevice THEN "AdbOnline" ELSE "Offline")
        ELSE over

-----------------------------------------------------------------------------
(* What an operator, a timer or discovery asks for.                        *)

\* DeviceDiscoveryService::connectEndpoint: markDiscovered, then one `adb connect`.
ConnectEndpoint(r) ==
  LET known == IF r.reg \in {"Unknown", "Offline"} THEN SetState(r, "Discovered") ELSE r
  IN  IF r.connecting THEN known
                      ELSE [known EXCEPT !.connecting = TRUE, !.reg = "Connecting"]

StartMirror(d, r) ==
  LET wish == [r EXCEPT !.stopped = FALSE, !.wanted = TRUE]
  IN  CASE r.mirroring \/ r.starting \/ r.queued -> wish
        [] ~(r.mirroring \/ r.starting \/ r.queued) ->
             CASE r.reg = "Unauthorized" -> wish
               [] Online(r) \/ r.reg = "Connecting" -> [wish EXCEPT !.queued = TRUE]
               [] OTHER -> IF d \in Tcp THEN ConnectEndpoint(wish) ELSE wish

RestartMirror(r) ==
  LET stop == StopMirror(r, FALSE)
  IN  IF r.wanted \/ r.mirroring
        THEN [stop EXCEPT !.wanted = TRUE, !.stopped = FALSE, !.restart = @ + 1]
        ELSE stop

ReconnectDevice(d, r) ==
  LET wish == CancelReconnect([r EXCEPT !.stopped = FALSE, !.wanted = TRUE])
  IN  IF r.mirroring THEN RestartMirror(wish) ELSE AttemptReconnect(d, wish)

DisconnectDevice(d, r) ==
  LET stop == StopMirror(r, TRUE)
  IN  IF d \in Tcp THEN [stop EXCEPT !.hangup = @ + 1] ELSE stop

RebootDevice(r) ==
  LET stop == StopMirror([r EXCEPT !.rebooting = TRUE], FALSE)
  IN  [stop EXCEPT !.wanted = r.wanted \/ r.mirroring, !.reg = "Reconnecting",
                   !.reboot = @ + 1]

\* The 20 s timer after a reboot: start probing at the 5 s cadence (two tries).
RebootOver(r) ==
  LET due == [r EXCEPT !.tries = 2, !.rebooting = FALSE]
  IN  CASE ~r.rebooting -> r
        [] r.rebooting /\ r.wanted -> ScheduleReconnect(due)
        [] r.rebooting /\ ~r.wanted -> due

OnDeviceAppeared(d, r) ==
  LET back == CancelReconnect([r EXCEPT !.rebooting = FALSE])
  IN  IF r.wanted \/ (d \in AutoMirrored /\ ~r.stopped) THEN StartMirror(d, back) ELSE back

OnDeviceDisappeared(r) ==
  IF r.mirroring \/ r.starting THEN CoreDisconnect(r) ELSE Reschedule(r)

\* One row of `adb devices`: the registry's upsert, then the appeared/disappeared signal.
Upsert(r, row) ==
  LET listed == [r EXCEPT !.adbDevice = row = "device"]
  IN  CASE row = "device" -> IF r.reg \in {"Mirroring", "Connecting"} THEN listed
                             ELSE SetState(listed, "AdbOnline")
        [] row = "unauthorized" -> SetState(listed, "Unauthorized")
        [] row = "offline"      -> SetState(listed, "Offline")
        [] row = "other"        -> SetState(listed, "Error")
        [] row = "gone" -> IF r.online /\ r.reg # "Reconnecting" THEN SetState(r, "Offline")
                           ELSE r

Listing(d, r, row) ==
  LET now == [Upsert(r, row) EXCEPT !.online = row = "device"]
  IN  CASE row = "device" /\ ~r.online -> OnDeviceAppeared(d, now)
        [] row # "device" /\ r.online  -> OnDeviceDisappeared(now)
        [] OTHER -> now
-----------------------------------------------------------------------------
(* pump(): dequeue while a start slot is free.  Every handler that frees a *)
(* slot or queues a device ends with it.                                   *)

Starting(dv) == {d \in Dev : dv[d].starting}

\* Faulty variant: a dequeued device is started although nobody wants it any more.
PumpedUnwanted(dv, q, k, ports) ==
  LET out == {q[i] : i \in 1 .. k}
  IN  [d \in Dev |->
        CASE d \notin out -> dv[d]
          [] d \in out /\ ~dv[d].mirroring /\ ~dv[d].starting -> BeginStart(dv[d], d \in ports)
          [] OTHER -> [dv[d] EXCEPT !.queued = FALSE]]

\* The devices after the first k of the queue q were dequeued; a device that
\* became live, is starting already or is no longer wanted is skipped.
Pumped(dv, q, k, ports) ==
  LET out == {q[i] : i \in 1 .. k}
  IN  [d \in Dev |->
        CASE d \notin out -> dv[d]
          [] d \in out /\ ~dv[d].mirroring /\ ~dv[d].starting /\ dv[d].wanted ->
               BeginStart(dv[d], d \in ports)
          [] OTHER -> [dv[d] EXCEPT !.queued = FALSE]]

SlotFree(dv) == Cardinality(Starting(dv)) < limit'

\* The queue without the device its handler took out (at most one, queued once).
Kept(dv) ==
  LET out == {i \in DOMAIN queue : ~dv[queue[i]].queued}
  IN  IF out = {} THEN queue ELSE RemoveAt(queue, CHOOSE i \in out : TRUE)

\* The devices a handler queued, in the order of its loop over a QSet: any.
Arrivals(dv) == SetToSeqs({d \in Dev : dv[d].queued /\ \A i \in DOMAIN queue : queue[i] # d})

\* Faulty variant: newcomers go to the front of the queue.
SettleLastFirst(dv) ==
  \E news \in Arrivals(dv) :
    LET q == news \o Kept(dv)
    IN  \E k \in 0 .. Len(q) :
          /\ \A j \in 0 .. k-1 : SlotFree(Pumped(dv, q, j, Dev))
          /\ k = Len(q) \/ ~SlotFree(Pumped(dv, q, k, Dev))
          /\ dev' = Pumped(dv, q, k, Dev)
          /\ queue' = SubSeq(q, k+1, Len(q))

Settle(dv) ==
  \E news \in Arrivals(dv), ports \in IF PortsRunOut THEN {{}, Dev} ELSE {Dev} :
    LET q == Kept(dv) \o news
    IN  \E k \in 0 .. Len(q) :
          /\ \A j \in 0 .. k-1 : SlotFree(Pumped(dv, q, j, ports))
          /\ k = Len(q) \/ ~SlotFree(Pumped(dv, q, k, ports))
          /\ dev' = Pumped(dv, q, k, ports)
          /\ queue' = SubSeq(q, k+1, Len(q))
          /\ \A d \in Dev : InFlight(dev'[d]) \subseteq 0 .. FlightBound

-----------------------------------------------------------------------------
(* The steps: operator commands, adb answers, timers, core signals,        *)
(* `adb devices` listings, and the shutdown.                               *)

Handle(d, r) == ~down /\ UNCHANGED <<limit, down>> /\ Settle([dev EXCEPT ![d] = r])

Event(d, r) == UNCHANGED <<commands, barred>> /\ Handle(d, r)

Command(name) == /\ name \in Commands
                 /\ commands < CommandBound
                 /\ commands' = commands + 1

\* A command that asks for the device or sends it away, and one that does neither.
Order(name, d, mark) == Command(name) /\ barred' = [barred EXCEPT ![d] = mark]

Plain(name) == Command(name) /\ UNCHANGED barred

Mirror(d)     == Order("mirror", d, "no") /\ Handle(d, StartMirror(d, dev[d]))
Stop(d)       == Order("stop", d, "stop") /\ Handle(d, StopMirror(dev[d], TRUE))
Restart(d)    == Plain("restart") /\ Handle(d, RestartMirror(dev[d]))
Reconnect(d)  == Order("reconnect", d, "no") /\ Handle(d, ReconnectDevice(d, dev[d]))
Disconnect(d) == Order("disconnect", d, "stop") /\ Handle(d, DisconnectDevice(d, dev[d]))
Reboot(d)     == Plain("reboot") /\ Handle(d, RebootDevice(dev[d]))
ConnectIp(d)  == d \in Tcp /\ Plain("connect ip") /\ Handle(d, ConnectEndpoint(dev[d]))

SetLimit(n) == /\ Plain("limit")
               /\ ~down
               /\ limit' = n
               /\ UNCHANGED down
               /\ Settle(dev)

\* The callback of beginStart's `wm size`.
NormalizeAnswer(d, ok, portFree) ==
  LET r == [dev[d] EXCEPT !.norm = @ - 1]
  IN  /\ dev[d].norm > 0
      /\ Event(d, IF r.starting
                    THEN LaunchCore([r EXCEPT !.normalized = @ \/ ok], portFree)
                    ELSE r)

\* The callback of attemptReconnect's `adb connect` (WiFi devices).
DialAnswer(d, ok) ==
  LET r == [dev[d] EXCEPT !.dial = @ - 1]
  IN  /\ dev[d].dial > 0
      /\ Event(d, IF ok THEN [r EXCEPT !.probe = @ + 1]
                        ELSE ScheduleReconnect(SetState(r, "Reconnecting")))

\* The callback of attemptReconnect's `echo ok`.
ProbeAnswer(d, ok) ==
  LET r == [dev[d] EXCEPT !.probe = @ - 1]
  IN  /\ dev[d].probe > 0
      /\ Event(d, IF ok
                    THEN [r EXCEPT !.reg = "AdbOnline",
                                   !.queued = @ \/ ~(r.mirroring \/ r.starting)]
                    ELSE ScheduleReconnect(r))

RebootAnswer(d) ==
  /\ dev[d].reboot > 0
  /\ Event(d, [dev[d] EXCEPT !.reboot = @ - 1, !.rebootWait = @ + 1])

\* The callback of DeviceDiscoveryService's `adb connect`.
ConnectAnswer(d, ok) ==
  /\ dev[d].connecting
  /\ Event(d, [dev[d] EXCEPT !.connecting = FALSE,
                              !.reg = IF ok THEN "Discovered" ELSE "Offline"])

HangupAnswer(d) ==
  /\ dev[d].hangup > 0
  /\ Event(d, [dev[d] EXCEPT !.hangup = @ - 1, !.reg = "Offline"])

\* Faulty variant: the watchdog ends the session and leaves the start open.
WatchdogFiresHalfway(d) ==
  /\ dev[d].watchdog
  /\ Event(d, CoreDisconnect([dev[d] EXCEPT !.watchdog = FALSE]))

WatchdogFires(d) ==
  LET r == [dev[d] EXCEPT !.watchdog = FALSE]
  IN  /\ dev[d].watchdog
      /\ Event(d, IF r.starting THEN FinishStart(CoreDisconnect(r), FALSE) ELSE r)

RetryFires(d) ==
  /\ dev[d].retry
  /\ Event(d, AttemptReconnect(d, [dev[d] EXCEPT !.retry = FALSE]))

\* The timer calls startMirror whatever was asked for in the meantime.
RestartFires(d) ==
  /\ dev[d].restart > 0
  /\ UNCHANGED commands
  /\ barred' = [barred EXCEPT ![d] = IF @ = "stop" THEN "overruled" ELSE @]
  /\ Handle(d, StartMirror(d, [dev[d] EXCEPT !.restart = @ - 1]))

RebootWaitFires(d) ==
  /\ dev[d].rebootWait > 0
  /\ Event(d, RebootOver([dev[d] EXCEPT !.rebootWait = @ - 1]))

\* The server of the core answers: the first frame header came in.
CoreUp(d) ==
  /\ dev[d].core = "starting"
  /\ Event(d, FinishStart([dev[d] EXCEPT !.core = "live"], TRUE))

\* The core reports a failed start and DeviceManage drops the entry.
CoreFails(d) ==
  /\ dev[d].core = "starting"
  /\ Event(d, FinishStart([dev[d] EXCEPT !.core = "absent", !.lease = FALSE], FALSE))

\* The server process ends before the start was reported: nothing is emitted.
CoreExits(d) ==
  /\ dev[d].core = "starting"
  /\ Event(d, [dev[d] EXCEPT !.core = "zombie"])

\* A live stream ends.
CoreDrops(d) ==
  /\ dev[d].core = "live"
  /\ Event(d, CoreDisconnect(dev[d]))

\* One answer of `adb devices`.
Refresh(rows) ==
  /\ ~down
  /\ UNCHANGED <<limit, down, commands, barred>>
  /\ Settle([d \in Dev |-> Listing(d, dev[d], rows[d])])

\* Timers stopped, queue cleared, every Device deleted; nothing runs after it.
ShutdownDevice(r) ==
  [r EXCEPT !.retry = FALSE, !.watchdog = FALSE, !.queued = FALSE, !.mirroring = FALSE,
            !.lease = @ /\ ~r.mirroring,
            !.core = CASE @ = "live" -> "absent"
                       [] @ \in {"starting", "zombie"} -> "null"
                       [] OTHER -> @]

Shutdown ==
  /\ ~down
  /\ down' = TRUE
  /\ queue' = <<>>
  /\ dev' = [d \in Dev |-> ShutdownDevice(dev[d])]
  /\ UNCHANGED <<limit, commands, barred>>

Init ==
  /\ dev = [d \in Dev |-> NewDevice]
  /\ queue = <<>>
  /\ limit \in LimitRange
  /\ down = FALSE
  /\ commands = 0
  /\ barred = [d \in Dev |-> "no"]

Operator ==
  \/ \E d \in Dev : \/ Mirror(d) \/ Stop(d) \/ Restart(d) \/ Reconnect(d)
                    \/ Disconnect(d) \/ Reboot(d) \/ ConnectIp(d)
  \/ \E n \in LimitRange : SetLimit(n)

Adb ==
  \/ \E d \in Dev, ok \in BOOLEAN : \/ DialAnswer(d, ok) \/ ProbeAnswer(d, ok)
                                   \/ ConnectAnswer(d, ok)
                                   \/ \E portFree \in IF PortsRunOut THEN BOOLEAN ELSE {TRUE} :
                                        NormalizeAnswer(d, ok, portFree)
  \/ \E d \in Dev : RebootAnswer(d) \/ HangupAnswer(d)
  \/ \E rows \in [Dev -> Rows] : Refresh(rows)

Timer == \E d \in Dev : \/ WatchdogFires(d) \/ RetryFires(d)
                        \/ RestartFires(d) \/ RebootWaitFires(d)

Core == \E d \in Dev : CoreUp(d) \/ CoreFails(d) \/ CoreExits(d) \/ CoreDrops(d)

Next == Operator \/ Adb \/ Timer \/ Core \/ Shutdown

Spec == Init /\ [][Next]_vars

-----------------------------------------------------------------------------
(* Properties.                                                             *)

TypeOK ==
  /\ dev \in [Dev -> Device]
  /\ queue \in Seq(Dev)
  /\ limit \in LimitRange
  /\ down \in BOOLEAN
  /\ commands \in Nat
  /\ barred \in [Dev -> Bars]

\* A phone holds a start slot only under an armed watchdog, whatever order its
\* callbacks arrive in: no code path leaves it in m_starting with nothing that
\* would take it out (beginStart, finishStart, stopMirror).
StartsAreWatched == \A d \in Dev : dev[d].starting => dev[d].watchdog \/ down

\* m_mirroring is exactly the set of live core sessions and disjoint from
\* m_starting: the service and the core agree, although each learns of what the
\* other did through signals that arrive in the middle of other handlers.
SessionsAgree ==
  \A d \in Dev : /\ dev[d].mirroring <=> dev[d].core = "live"
                 /\ dev[d].mirroring => ~dev[d].starting

\* A start slot or a core session is held for the device.
Runs(r) == r.starting \/ r.core \in {"starting", "zombie", "live"}

\* A device the operator stopped or disconnected does not run until he asks for it
\* again, although a reconnect probe, an `adb connect` or a `wm size` in flight at
\* the Stop still comes back, its retry timer or its reboot may be due and discovery
\* may report it anew: only the timer of an earlier Restart can overrule him.
StopIsKept == \A d \in Dev : Runs(dev[d]) => barred[d] # "stop"

\* "Operator *Stop* marks the device 'operator stopped' (no auto reconnect until
\* *Mirror* again)" (docs/ARCHITECTURE_V3.md:84-85), without that exception. The code
\* breaks it: restartMirror's single-shot timer calls startMirror unconditionally.
StopAlwaysKept == \A d \in Dev : Runs(dev[d]) => barred[d] = "no"

\* The service implements the bounded line of StartSlots: slots are the only way
\* to a session, no slot idles while devices wait, nobody is overtaken.
Phase(r) == CASE r.starting -> "starting"
              [] r.mirroring /\ ~r.starting -> "live"
              [] OTHER -> "idle"

Slots == INSTANCE StartSlots WITH line <- queue, phase <- [d \in Dev |-> Phase(dev[d])]

SlotsSpec == Slots!Spec

\* The service uses the core's entry of a phone only in the way CoreSession is shown
\* to provide it, whichever handlers launch, end and delete sessions.
Entry == INSTANCE CoreEntry WITH Serial <- Dev, entry <- [d \in Dev |-> dev[d].core]

CoreSpec == Entry!Spec

\* "per-start timeout so a hung phone never blocks the queue" (deviceservice.h:31):
\* every start ends, and every queued device leaves the queue.
StartsEnd   == \A d \in Dev : dev[d].starting ~> ~dev[d].starting \/ down
QueueDrains == \A d \in Dev : dev[d].queued ~> ~dev[d].queued \/ down

\* A core session runs on a lease: "unique scid/port lease per session
\* (ConnectionIdAllocator), released on stop" (deviceservice.h:32). The code breaks it
\* when the device's resolution is to be normalised: the answer of a `wm size` asked
\* for an earlier start launches the current one, whose own answer then launches it
\* again; the core refuses, and the lease of the session under way is released.
SessionsAreLeased ==
  \A d \in Dev : dev[d].core \in {"starting", "live"} => dev[d].lease

\* That is the only way a session loses its lease while it goes on: in a step that
\* takes a `wm size` answer for a start the core has begun already.
Unleased(r) == r.core \in {"starting", "live"} /\ ~r.lease

LeasesAreKept ==
  [][\A d \in Dev : ~Unleased(dev[d]) /\ Unleased(dev'[d])
        => dev[d].starting /\ dev[d].core = "starting" /\ dev'[d].norm < dev[d].norm]_vars

\* QTimer fires: the watchdog of a start that stays armed goes off.
FairSpec == Spec /\ \A d \in Dev : WF_vars(WatchdogFires(d))
=============================================================================

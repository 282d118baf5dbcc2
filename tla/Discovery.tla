------------------------------- MODULE Discovery -------------------------------
(***************************************************************************)
(* farm/discovery/devicediscoveryservice.cpp: listings of `adb devices`,    *)
(* sweeps of the network, and the fan-out of `adb connect` they feed.       *)
(*                                                                         *)
(* Everything here runs on the GUI thread; of the scanner it has what Sweep  *)
(* promises.  adb itself is external: phones come, drop and are authorized   *)
(* as they like, so a listing may hold each in any state, and a connect may  *)
(* come to anything.                                                        *)
(* Of the registry the states discovery sets or reads are kept: AdbOnline   *)
(* stands for Mirroring and Busy too, Unauthorized for Error too.  The       *)
(* setting autoConnect is read at each use, so it may be either each time.   *)
(***************************************************************************)
EXTENDS Naturals, FiniteSets, SequencesExt

CONSTANTS
    Hosts,
    FanOuts   \* what "Max simultaneous `adb connect`" may be set to, 1..32

ASSUME FanOutsArePositive == FanOuts \subseteq Nat \ {0} /\ FanOuts # {}

VARIABLES
    svc,         \* the settings autoDiscovery and subnet, m_connectConcurrency,
                 \* m_fullTimer, m_manualScan
    scanning,    \* m_scanning
    left, found, \* the sweep under way
    quick,       \* m_quickInFlight
    online,      \* m_onlineIds
    queue,       \* m_connectQueue
    connecting,  \* m_connecting
    reg          \* state of each device in the registry

sweep == <<scanning, left, found>>
connects == <<queue, connecting, reg>>
vars == <<svc, sweep, quick, online, connects>>

Scanner == INSTANCE Sweep

RegStates == {"Absent", "Discovered", "Connecting", "AdbOnline", "Unauthorized", "Offline"}
AdbStates == {"absent", "device", "unauthorized", "offline"}

\* After start(), which the program calls once; stop() is part of its end.
Init ==
    /\ \E auto \in BOOLEAN, fanOut \in FanOuts :
           svc = [auto |-> auto, subnetOk |-> TRUE, fanOut |-> fanOut,
                  timer |-> auto, manual |-> FALSE]
    /\ quick = TRUE
    /\ online = {}
    /\ queue = <<>>
    /\ connecting = {}
    /\ reg \in [Hosts -> {"Absent", "Offline"}]
    /\ Scanner!Init
-----------------------------------------------------------------------------
(* Helpers *)

\* DeviceRegistry::setState: a device not in the registry has none.
SetState(states, h, s) == IF states[h] = "Absent" THEN states ELSE [states EXCEPT ![h] = s]

\* DeviceRegistry::markDiscovered.
MarkDiscovered(states, h) ==
    IF states[h] \in {"Absent", "Offline"} THEN [states EXCEPT ![h] = "Discovered"] ELSE states

\* DeviceRegistry::upsertFromAdb of each host a listing holds.
Upserted(states, listing) ==
    [h \in Hosts |->
        CASE listing[h] = "device" /\ states[h] # "Connecting" -> "AdbOnline"
          [] listing[h] = "unauthorized" -> "Unauthorized"
          [] listing[h] = "offline" -> "Offline"
          [] OTHER -> states[h]]

\* pumpConnects, over the queue q, the connects c under way and the states st:
\* the first endpoints of the queue are connected while there is room.
PumpConnects(q, c, st) ==
    LET room == IF Cardinality(c) < svc.fanOut THEN svc.fanOut - Cardinality(c) ELSE 0
        n == IF room < Len(q) THEN room ELSE Len(q)
        first == {q[i] : i \in 1..n}
        rest == SubSeq(q, n + 1, Len(q))
    IN  /\ queue' = rest
        /\ connecting' = c \cup first
        /\ reg' = [h \in Hosts |-> IF h \in first THEN SetState(st, h, "Connecting")[h] ELSE st[h]]

\* enqueueConnect.  An endpoint that failed less than two minutes ago is
\* skipped: `recent` says whether it was.
Enqueue(h, byHand, recent, st) ==
    IF \/ h \in connecting \cup ToSet(queue)
       \/ ~byHand /\ recent /\ st[h] = "Unauthorized"
    THEN reg' = st /\ UNCHANGED <<queue, connecting>>
    ELSE PumpConnects(Append(queue, h), connecting, st)

\* applySettings.  It does not look at the queue: a fan-out that is raised is used at the
\* next answer or the next endpoint.
Applied(s) ==
    [s EXCEPT !.timer = s.auto /\ (@ \/ ~scanning)]
-----------------------------------------------------------------------------
(* The settings *)

SettingChanges ==
    /\ \/ svc' = Applied([svc EXCEPT !.auto = ~@])
       \/ svc' = Applied([svc EXCEPT !.subnetOk = ~@])
       \/ \E fanOut \in FanOuts \ {svc.fanOut} : svc' = Applied([svc EXCEPT !.fanOut = fanOut])
    /\ UNCHANGED <<quick, online, sweep, connects>>
-----------------------------------------------------------------------------
(* Listings *)

\* The quick timer, F5: nothing when a listing is under way.
QuickRefresh ==
    /\ quick' = TRUE
    /\ UNCHANGED <<svc, online, sweep, connects>>

ListingFails ==
    /\ quick
    /\ quick' = FALSE
    /\ UNCHANGED <<svc, online, sweep, connects>>

\* onQuickRefreshResult, of what adb listed some time ago.
ListingHandled(listing) ==
    /\ quick
    /\ LET now == {h \in Hosts : listing[h] = "device"}
           upserted == Upserted(reg, listing)
       IN  /\ online' = now
           /\ reg' = [h \in Hosts |-> IF h \in online \ now /\ listing[h] = "absent"
                                      THEN SetState(upserted, h, "Offline")[h] ELSE upserted[h]]
    /\ quick' = FALSE
    /\ UNCHANGED <<svc, sweep, queue, connecting>>

\* The answer of `adb mdns services` names h.
MdnsFound(h, recent, autoConnect) ==
    LET marked == MarkDiscovered(reg, h) IN
    /\ IF h \in online \/ ~autoConnect THEN reg' = marked /\ UNCHANGED <<queue, connecting>>
       ELSE Enqueue(h, FALSE, recent, marked)
    /\ UNCHANGED <<svc, quick, online, sweep>>
-----------------------------------------------------------------------------
(* Sweeps *)

\* fullScan and connectRange from here on: the sweep begins.
BeginSweep(s, byHand) ==
    /\ svc' = [s EXCEPT !.manual = byHand]
    /\ Scanner!Begin
    /\ UNCHANGED <<quick, online, connects>>

\* The timer of the full scan.  It is single-shot: the sweep's end arms it again,
\* and after a subnet that does not parse the next change of a setting.
FullScanTimer ==
    /\ svc.timer
    /\ LET fired == [svc EXCEPT !.timer = FALSE] IN
       IF scanning \/ ~svc.subnetOk
       THEN svc' = fired /\ UNCHANGED <<quick, online, sweep, connects>>
       ELSE BeginSweep(fired, FALSE)

ScanNow ==
    /\ ~scanning /\ svc.subnetOk
    /\ BeginSweep(svc, FALSE)

ConnectRange ==
    /\ ~scanning
    /\ BeginSweep(svc, TRUE)

\* onScannerHost.
OnScannerHost(h, recent, autoConnect) ==
    /\ Scanner!Report(h)
    /\ LET marked == MarkDiscovered(reg, h) IN
       IF h \in online \/ ~(svc.manual \/ autoConnect) THEN reg' = marked /\ UNCHANGED <<queue, connecting>>
       ELSE Enqueue(h, svc.manual, recent, marked)
    /\ UNCHANGED <<svc, quick, online>>

\* Hosts that do not answer.
NoAnswer ==
    /\ left # {}
    /\ Scanner!Miss(left)
    /\ UNCHANGED <<svc, quick, online, connects>>

\* onScannerFinished.  After a whole sweep of the subnet, one that was not cancelled, the
\* hosts that did not answer are offline, unless adb lists them.
OnScannerFinished(cancelled) ==
    /\ Scanner!End
    /\ LET silent == IF svc.manual \/ cancelled THEN {}
                     ELSE {h \in Hosts \ (found \cup online) : reg[h] = "Discovered"}
       IN  reg' = [h \in Hosts |-> IF h \in silent THEN "Offline" ELSE reg[h]]
    /\ svc' = [svc EXCEPT !.timer = @ \/ svc.auto]
    /\ UNCHANGED <<quick, online, queue, connecting>>
-----------------------------------------------------------------------------
(* adb connect and disconnect *)

\* The operator, or the reconnect loop of DeviceService.
ConnectEndpoint(h) ==
    /\ Enqueue(h, TRUE, FALSE, MarkDiscovered(reg, h))
    /\ UNCHANGED <<svc, quick, online, sweep>>

\* Faulty: the queue is looked at only after a connect that came up.
ConnectAnswerHalting(h, ok) ==
    /\ h \in connecting
    /\ IF ok
       THEN PumpConnects(queue, connecting \ {h}, SetState(reg, h, "Discovered"))
       ELSE /\ connecting' = connecting \ {h}
            /\ reg' = SetState(reg, h, "Offline")
            /\ UNCHANGED queue
    /\ quick' = (quick \/ ok)
    /\ UNCHANGED <<svc, sweep, online>>

\* The answer.
ConnectAnswer(h, ok) ==
    /\ h \in connecting
    /\ PumpConnects(queue, connecting \ {h}, SetState(reg, h, IF ok THEN "Discovered" ELSE "Offline"))
    /\ quick' = (quick \/ ok)
    /\ UNCHANGED <<svc, sweep, online>>

\* The answer of disconnectEndpoint.
Disconnected(h) ==
    /\ reg' = SetState(reg, h, "Offline")
    /\ quick' = TRUE
    /\ UNCHANGED <<svc, online, sweep, queue, connecting>>
-----------------------------------------------------------------------------
Next ==
    \/ SettingChanges
    \/ QuickRefresh \/ ListingFails
    \/ \E listing \in [Hosts -> AdbStates] : ListingHandled(listing)
    \/ \E h \in Hosts, recent, autoConnect \in BOOLEAN : MdnsFound(h, recent, autoConnect)
    \/ FullScanTimer \/ ScanNow \/ ConnectRange
    \/ \E h \in Hosts, recent, autoConnect \in BOOLEAN : OnScannerHost(h, recent, autoConnect)
    \/ NoAnswer
    \/ \E cancelled \in BOOLEAN : OnScannerFinished(cancelled)
    \/ \E h \in Hosts : ConnectEndpoint(h)
    \/ \E h \in Hosts, ok \in BOOLEAN : ConnectAnswer(h, ok)
    \/ \E h \in Hosts : Disconnected(h)

Spec == Init /\ [][Next]_vars
-----------------------------------------------------------------------------
(* Properties *)

\* Nothing waits for something nobody will do.  An endpoint waits in the queue
\* only while an answer is due that looks at the queue again, however the fan-out
\* was changed meanwhile, and a device discovery parked in Connecting, which no
\* listing promotes, waits for its own.
FanOutIsServed ==
    /\ queue # <<>> => connecting # {}
    /\ \A h \in Hosts : reg[h] = "Connecting" => h \in connecting

\* While discovery is automatic the next sweep of the subnet is always to come:
\* one is on, whose end arms the timer, or the timer is armed.  The operator's
\* sweeps, the timer going off during one of them, and the settings being changed
\* and changed back in between all leave it so.
SweepsKeepComing == svc.auto /\ svc.subnetOk => svc.timer \/ scanning

DiscoveryNeverStalls == FanOutIsServed /\ SweepsKeepComing
=============================================================================

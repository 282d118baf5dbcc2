------------------------ MODULE MirrorServiceProofs ------------------------
(***************************************************************************)
(* Proofs about MirrorService: type correctness, what a session needs, and *)
(* then the start slots, the queue, the leases and what the service        *)
(* implements.                                                             *)
(* A handler is a function on the record of one device, so the lemmas say  *)
(* for each what it does to the fields the invariant speaks of; the steps  *)
(* then follow from them and from what the pump may do to a record.        *)
(***************************************************************************)
EXTENDS MirrorService, FiniteSetTheorems, SequenceTheorems, TLAPS

\* The handlers that only touch the registry state, timers and calls in flight.
SameSession(r, s) ==
  /\ s \in Device
  /\ s.starting = r.starting /\ s.watchdog = r.watchdog /\ s.mirroring = r.mirroring
  /\ s.core = r.core /\ s.wanted = r.wanted /\ s.stopped = r.stopped

LEMMA TriesValues == 0 \in TriesRange /\ 2 \in TriesRange
  BY SettingAssumption DEF TriesRange

LEMMA OneMoreTry ==
  ASSUME NEW r \in Device, ~GivenUp(r)
  PROVE  (IF MaxAttempts = 0 THEN r.tries ELSE r.tries + 1) \in TriesRange
  <1>1. r.tries \in TriesRange BY DEF Device
  <1> QED BY <1>1, SettingAssumption DEF TriesRange, GivenUp

\* Counting a call or a timer in or out.
LEMMA CountersSame ==
  ASSUME NEW r \in Device, NEW n \in Nat
  PROVE  /\ SameSession(r, [r EXCEPT !.norm = n]) /\ SameSession(r, [r EXCEPT !.dial = n])
         /\ SameSession(r, [r EXCEPT !.probe = n]) /\ SameSession(r, [r EXCEPT !.restart = n])
         /\ SameSession(r, [r EXCEPT !.reboot = n]) /\ SameSession(r, [r EXCEPT !.hangup = n])
         /\ SameSession(r, [r EXCEPT !.rebootWait = n])
  <1>1. SameSession(r, [r EXCEPT !.norm = n]) BY DEF SameSession, Device
  <1>2. SameSession(r, [r EXCEPT !.dial = n]) BY DEF SameSession, Device
  <1>3. SameSession(r, [r EXCEPT !.probe = n]) BY DEF SameSession, Device
  <1>4. SameSession(r, [r EXCEPT !.restart = n]) BY DEF SameSession, Device
  <1>5. SameSession(r, [r EXCEPT !.reboot = n]) BY DEF SameSession, Device
  <1>6. SameSession(r, [r EXCEPT !.hangup = n]) BY DEF SameSession, Device
  <1>7. SameSession(r, [r EXCEPT !.rebootWait = n]) BY DEF SameSession, Device
  <1> QED BY <1>1, <1>2, <1>3, <1>4, <1>5, <1>6, <1>7

LEMMA SetStateSame ==
  ASSUME NEW r \in Device, NEW s \in RegStates
  PROVE  SameSession(r, SetState(r, s))
  BY DEF SetState, SameSession, Device

LEMMA CancelReconnectSame ==
  ASSUME NEW r \in Device
  PROVE  SameSession(r, CancelReconnect(r))
  BY TriesValues DEF CancelReconnect, SameSession, Device

LEMMA ScheduleReconnectSame ==
  ASSUME NEW r \in Device
  PROVE  SameSession(r, ScheduleReconnect(r))
  <1>1. CASE r.rebooting
    BY <1>1 DEF ScheduleReconnect, SameSession
  <1>2. CASE ~r.rebooting /\ GivenUp(r)
    <2>1. "Offline" \in RegStates BY DEF RegStates
    <2> QED BY <1>2, <2>1, SetStateSame DEF ScheduleReconnect
  <1>3. CASE ~r.rebooting /\ ~GivenUp(r)
    <2> DEFINE n == IF MaxAttempts = 0 THEN r.tries ELSE r.tries + 1
               s == [r EXCEPT !.tries = n, !.reg = "Reconnecting", !.retry = TRUE]
    <2>1. n \in TriesRange BY <1>3, OneMoreTry
    <2>2. ScheduleReconnect(r) = s BY <1>3 DEF ScheduleReconnect
    <2> HIDE DEF n
    <2>3. SameSession(r, s) BY <2>1 DEF SameSession, Device, RegStates
    <2> QED BY <2>2, <2>3
  <1> QED BY <1>1, <1>2, <1>3

LEMMA RescheduleSame ==
  ASSUME NEW r \in Device
  PROVE  SameSession(r, Reschedule(r))
  BY ScheduleReconnectSame DEF Reschedule, SameSession

LEMMA AttemptReconnectSame ==
  ASSUME NEW r \in Device, NEW d
  PROVE  SameSession(r, AttemptReconnect(d, r))
  BY DEF AttemptReconnect, SameSession, Device

LEMMA ConnectEndpointSame ==
  ASSUME NEW r \in Device
  PROVE  SameSession(r, ConnectEndpoint(r))
  <1> DEFINE known == IF r.reg \in {"Unknown", "Offline"} THEN SetState(r, "Discovered") ELSE r
  <1>1. SameSession(r, known)
    <2>1. "Discovered" \in RegStates BY DEF RegStates
    <2> QED BY <2>1, SetStateSame DEF SameSession
  <1> HIDE DEF known
  <1>2. known \in Device BY <1>1 DEF SameSession
  <1>3. SameSession(known, [known EXCEPT !.connecting = TRUE, !.reg = "Connecting"])
    BY <1>2 DEF SameSession, Device, RegStates
  <1> QED BY <1>1, <1>3 DEF known, ConnectEndpoint, SameSession

LEMMA UpsertSame ==
  ASSUME NEW r \in Device, NEW row \in AllRows
  PROVE  SameSession(r, Upsert(r, row))
  <1> DEFINE listed == [r EXCEPT !.adbDevice = row = "device"]
  <1>1. SameSession(r, listed) BY DEF SameSession, Device
  <1>2. \A s \in {"AdbOnline", "Unauthorized", "Offline", "Error"} :
          SameSession(r, SetState(listed, s)) /\ SameSession(r, SetState(r, s))
    <2>1. \A s \in {"AdbOnline", "Unauthorized", "Offline", "Error"} : s \in RegStates BY DEF RegStates
    <2>2. listed \in Device BY <1>1 DEF SameSession
    <2> HIDE DEF listed
    <2> QED BY <1>1, <2>1, <2>2, SetStateSame DEF SameSession
  <1>3. SameSession(r, r) BY DEF SameSession
  <1>4. Upsert(r, row) \in {listed, r} \cup
          {SetState(listed, s) : s \in {"AdbOnline", "Unauthorized", "Offline", "Error"}} \cup
          {SetState(r, "Offline")}
    <2> HIDE DEF listed
    <2>1. CASE row = "device" BY <2>1 DEF Upsert, listed
    <2>2. CASE row = "unauthorized" BY <2>2 DEF Upsert, listed
    <2>3. CASE row = "offline" BY <2>3 DEF Upsert, listed
    <2>4. CASE row = "gone" BY <2>4 DEF Upsert, listed
    <2>5. CASE row = "other" BY <2>5 DEF Upsert, listed
    <2> QED BY <2>1, <2>2, <2>3, <2>4, <2>5 DEF AllRows
  <1> HIDE DEF listed
  <1> QED BY <1>1, <1>2, <1>3, <1>4

-----------------------------------------------------------------------------
(* What one start does to the session fields.                              *)

LEMMA FinishStartFails ==
  ASSUME NEW r \in Device
  PROVE  LET s == FinishStart(r, FALSE)
         IN  /\ s \in Device /\ ~s.starting
             /\ s.mirroring = r.mirroring /\ s.core = r.core
             /\ s.wanted = r.wanted /\ s.stopped = r.stopped
  <1>1. CASE r.starting
    <2> DEFINE f == [r EXCEPT !.starting = FALSE, !.watchdog = FALSE,
                              !.lease = FALSE, !.reg = "Error"]
    <2>1. /\ f \in Device /\ ~f.starting
          /\ f.mirroring = r.mirroring /\ f.core = r.core
          /\ f.wanted = r.wanted /\ f.stopped = r.stopped
      BY DEF Device, RegStates
    <2>2. FinishStart(r, FALSE) = Reschedule(f) BY <1>1 DEF FinishStart
    <2> HIDE DEF f
    <2> QED BY <2>1, <2>2, RescheduleSame, ZenonT(60) DEF SameSession
  <1>2. CASE ~r.starting
    <2> DEFINE f == [r EXCEPT !.watchdog = FALSE]
    <2>1. FinishStart(r, FALSE) = f BY <1>2 DEF FinishStart
    <2>2. /\ f \in Device /\ f.starting = r.starting
          /\ f.mirroring = r.mirroring /\ f.core = r.core
          /\ f.wanted = r.wanted /\ f.stopped = r.stopped
      BY DEF Device
    <2> HIDE DEF f
    <2> QED BY <1>2, <2>1, <2>2
  <1> QED BY <1>1, <1>2

LEMMA FinishStartSucceeds ==
  ASSUME NEW r \in Device
  PROVE  LET s == FinishStart(r, TRUE)
         IN  /\ s \in Device /\ ~s.starting /\ s.mirroring
             /\ s.core = r.core /\ s.wanted = r.wanted /\ s.stopped = r.stopped
  <1> DEFINE f == [r EXCEPT !.starting = FALSE, !.watchdog = FALSE,
                            !.mirroring = TRUE, !.tries = 0, !.reg = "Mirroring"]
  <1>1. FinishStart(r, TRUE) = f BY DEF FinishStart
  <1>2. f \in Device BY TriesValues DEF Device, RegStates
  <1>3. ~f.starting /\ f.mirroring BY DEF Device
  <1>4. f.core = r.core /\ f.wanted = r.wanted /\ f.stopped = r.stopped BY DEF Device
  <1> HIDE DEF f
  <1> QED BY <1>1, <1>2, <1>3, <1>4

-----------------------------------------------------------------------------
(* The part of the invariant that speaks of one device.                    *)

Sound(r) ==
  /\ r.mirroring <=> r.core = "live"
  /\ r.mirroring => ~r.starting
  /\ r.starting \/ r.core \in {"starting", "zombie", "live"} => r.wanted /\ ~r.stopped
  /\ r.wanted => ~r.stopped

Watched(r) == r.starting => r.watchdog

\* What every handler keeps of a device.
Kind(r) == r \in Device /\ Sound(r) /\ Watched(r)

LEMMA SameSessionKeeps ==
  ASSUME NEW r, Kind(r), NEW s, SameSession(r, s)
  PROVE  Kind(s)
  BY DEF Kind, Sound, Watched, SameSession

LEMMA FinishStartFailsKeeps ==
  ASSUME NEW r, Kind(r)
  PROVE  Kind(FinishStart(r, FALSE))
  BY FinishStartFails DEF Kind, Sound, Watched

\* Launching: the slot is held and nothing else has changed since it was taken.
LEMMA LaunchCoreKeeps ==
  ASSUME NEW r, Kind(r), NEW portFree \in BOOLEAN
  PROVE  Kind(LaunchCore(r, portFree))
  <1> DEFINE up   == [r EXCEPT !.lease = TRUE, !.core = "starting"]
             back == [r EXCEPT !.lease = FALSE]
  <1>1. Kind(FinishStart(r, FALSE)) BY FinishStartFailsKeeps
  <1>2. Kind(FinishStart(back, FALSE))
    <2>1. SameSession(r, back) BY DEF Kind, SameSession, Device
    <2> HIDE DEF back
    <2> QED BY <2>1, SameSessionKeeps, FinishStartFailsKeeps
  <1>3. ASSUME r.starting, r.core = "absent" PROVE Kind(up)
    <2>1. /\ up \in Device /\ up.core = "starting"
          /\ up.starting = r.starting /\ up.watchdog = r.watchdog
          /\ up.mirroring = r.mirroring /\ up.wanted = r.wanted /\ up.stopped = r.stopped
      BY DEF Kind, Device, CoreStates
    <2> HIDE DEF up
    <2> QED BY <2>1, <1>3 DEF Kind, Sound, Watched
  <1>4. LaunchCore(r, portFree) \in {r, FinishStart(r, FALSE), FinishStart(back, FALSE)}
          \/ (r.starting /\ r.core = "absent" /\ LaunchCore(r, portFree) = up)
    <2> HIDE DEF up, back
    <2>1. CASE ~r.starting BY <2>1 DEF LaunchCore
    <2>2. CASE r.starting /\ ~(r.lease \/ portFree) BY <2>2 DEF LaunchCore
    <2>3. CASE r.starting /\ (r.lease \/ portFree) BY <2>3 DEF LaunchCore, up, back
    <2> QED BY <2>1, <2>2, <2>3
  <1> HIDE DEF up, back
  <1> QED BY <1>1, <1>2, <1>3, <1>4

LEMMA BeginStartKeeps ==
  ASSUME NEW r, Kind(r), ~r.mirroring, ~r.starting, r.wanted, NEW portFree \in BOOLEAN
  PROVE  Kind(BeginStart(r, portFree))
  <1> DEFINE begun == [r EXCEPT !.queued = FALSE, !.starting = TRUE, !.watchdog = TRUE,
                                !.reg = "Connecting"]
             slow  == [begun EXCEPT !.norm = @ + 1]
  <1>1. /\ begun \in Device /\ begun.starting /\ begun.watchdog
        /\ begun.mirroring = r.mirroring /\ begun.core = r.core
        /\ begun.wanted = r.wanted /\ begun.stopped = r.stopped
    BY DEF Kind, Device, RegStates
  <1>2. BeginStart(r, portFree) = IF Normalize /\ ~r.normalized THEN slow
                                  ELSE LaunchCore(begun, portFree)
    BY DEF BeginStart
  <1> HIDE DEF begun
  <1>3. Kind(begun) BY <1>1 DEF Kind, Sound, Watched
  <1>4. Kind(slow)
    <2>1. begun.norm + 1 \in Nat BY <1>1 DEF Device
    <2>2. SameSession(begun, slow) BY <1>1, <2>1, CountersSame
    <2> HIDE DEF slow
    <2> QED BY <2>2, <1>3, SameSessionKeeps
  <1> HIDE DEF slow
  <1> QED BY <1>2, <1>3, <1>4, LaunchCoreKeeps

-----------------------------------------------------------------------------
(* The end of a session.                                                   *)

\* Whoever wants what, a core disconnect leaves neither a slot nor a session.
LEMMA OnCoreDisconnectedEnds ==
  ASSUME NEW r \in Device
  PROVE  LET s == OnCoreDisconnected(r)
         IN  /\ s \in Device /\ ~s.starting /\ ~s.mirroring /\ s.core = r.core
             /\ s.wanted = r.wanted /\ s.stopped = r.stopped
  <1> DEFINE ended == [r EXCEPT !.mirroring = FALSE]
             free  == [ended EXCEPT !.lease = FALSE]
  <1>1. /\ ended \in Device /\ ~ended.mirroring /\ ended.starting = r.starting
        /\ ended.core = r.core /\ ended.wanted = r.wanted /\ ended.stopped = r.stopped
    BY DEF Device
  <1>2. CASE r.starting
    <2>1. OnCoreDisconnected(r) = FinishStart(ended, FALSE) BY <1>2 DEF OnCoreDisconnected
    <2> HIDE DEF ended
    <2> QED BY <1>1, <2>1, FinishStartFails
  <1>3. CASE ~r.starting /\ ~r.mirroring
    <2>1. OnCoreDisconnected(r) = r BY <1>3 DEF OnCoreDisconnected
    <2> QED BY <1>3, <2>1
  <1>4. CASE ~r.starting /\ r.mirroring
    <2>1. OnCoreDisconnected(r) \in {ScheduleReconnect(free), SetState(free, "AdbOnline"), free}
      <3> HIDE DEF free, ended
      <3>1. OnCoreDisconnected(r) =
              CASE Pursued(free) -> ScheduleReconnect(free)
                [] ~Pursued(free) /\ free.reg = "Mirroring" -> SetState(free, "AdbOnline")
                [] OTHER -> free
        BY <1>4 DEF OnCoreDisconnected, free, ended
      <3> QED BY <3>1
    <2> HIDE DEF ended
    <2>2. SameSession(ended, free) BY <1>1 DEF SameSession, Device
    <2> HIDE DEF free
    <2>3. SameSession(ended, ScheduleReconnect(free)) BY <2>2, ScheduleReconnectSame DEF SameSession
    <2>4. SameSession(ended, SetState(free, "AdbOnline"))
      <3>1. "AdbOnline" \in RegStates BY DEF RegStates
      <3> QED BY <3>1, <2>2, SetStateSame DEF SameSession
    <2>5. SameSession(ended, OnCoreDisconnected(r)) BY <2>1, <2>2, <2>3, <2>4
    <2> QED BY <1>1, <1>4, <2>5 DEF SameSession
  <1> QED BY <1>2, <1>3, <1>4

\* Deleting a Device: a session that had started is over, a start is cut short.
LEMMA CoreDisconnectEnds ==
  ASSUME NEW r \in Device
  PROVE  LET s == CoreDisconnect(r)
         IN  /\ s \in Device
             /\ s.core \notin {"starting", "zombie", "live"}
             /\ s.wanted = r.wanted /\ s.stopped = r.stopped
             /\ r.core = "live" => ~s.starting /\ ~s.mirroring
             /\ r.core # "live" => /\ s.starting = r.starting /\ s.watchdog = r.watchdog
                                   /\ s.mirroring = r.mirroring
  <1>0. r.core \in CoreStates BY DEF Device
  <1>1. CASE r.core = "live"
    <2> DEFINE e == OnCoreDisconnected(r)
               s == [e EXCEPT !.core = "absent"]
    <2>1. /\ e \in Device /\ ~e.starting /\ ~e.mirroring
          /\ e.wanted = r.wanted /\ e.stopped = r.stopped
      BY OnCoreDisconnectedEnds
    <2>2. CoreDisconnect(r) = s BY <1>1 DEF CoreDisconnect
    <2> HIDE DEF e
    <2>3. /\ s \in Device /\ s.core = "absent" /\ s.starting = e.starting
          /\ s.mirroring = e.mirroring /\ s.wanted = e.wanted /\ s.stopped = e.stopped
      BY <2>1 DEF Device, CoreStates
    <2> HIDE DEF s
    <2> QED BY <1>1, <2>1, <2>2, <2>3
  <1>2. CASE r.core \in {"starting", "zombie"}
    <2> DEFINE s == [r EXCEPT !.core = "null"]
    <2>1. CoreDisconnect(r) = s BY <1>2 DEF CoreDisconnect
    <2>2. /\ s \in Device /\ s.core = "null" /\ s.starting = r.starting
          /\ s.watchdog = r.watchdog /\ s.mirroring = r.mirroring
          /\ s.wanted = r.wanted /\ s.stopped = r.stopped
      BY DEF Device, CoreStates
    <2> HIDE DEF s
    <2> QED BY <1>2, <2>1, <2>2
  <1>3. CASE r.core \in {"absent", "null"}
    <2>1. CoreDisconnect(r) = r BY <1>3 DEF CoreDisconnect
    <2> QED BY <1>3, <2>1
  <1> QED BY <1>0, <1>1, <1>2, <1>3 DEF CoreStates

\* stopMirror leaves the device without slot and without session, and drops the
\* wish when the operator asked for it.
Stopped(r, s) == /\ s \in Device /\ ~s.starting /\ ~s.mirroring
                 /\ s.core \notin {"starting", "zombie", "live"}

LEMMA StopMirrorStops ==
  ASSUME NEW r, Kind(r), NEW byOperator \in BOOLEAN
  PROVE  LET s == StopMirror(r, byOperator)
         IN  /\ Stopped(r, s)
             /\ s.wanted  = (r.wanted /\ ~byOperator)
             /\ s.stopped = (r.stopped \/ byOperator)
  <1> DEFINE mark == [r EXCEPT !.wanted = FALSE, !.stopped = TRUE]
             wish == IF byOperator THEN CancelReconnect(mark) ELSE r
             bare == [wish EXCEPT !.queued = FALSE, !.starting = FALSE, !.watchdog = FALSE]
             idle == CoreDisconnect(bare)
             lost == [idle EXCEPT !.mirroring = FALSE, !.lease = FALSE]
             over == IF idle.mirroring THEN lost ELSE idle
  <1>1. /\ wish \in Device /\ wish.mirroring = r.mirroring /\ wish.core = r.core
        /\ wish.wanted = (r.wanted /\ ~byOperator) /\ wish.stopped = (r.stopped \/ byOperator)
    <2>1. /\ mark \in Device /\ mark.mirroring = r.mirroring /\ mark.core = r.core
          /\ ~mark.wanted /\ mark.stopped
      BY DEF Kind, Device
    <2> HIDE DEF mark
    <2>2. SameSession(mark, CancelReconnect(mark)) BY <2>1, CancelReconnectSame
    <2>3. r.wanted \in BOOLEAN /\ r.stopped \in BOOLEAN /\ r \in Device BY DEF Kind, Device
    <2>4. CASE byOperator
      <3>1. wish = CancelReconnect(mark) BY <2>4
      <3>2. wish.wanted = FALSE /\ wish.stopped = TRUE
        BY <2>1, <2>2, <3>1 DEF SameSession, Device
      <3> QED BY <2>1, <2>2, <2>4, <3>1, <3>2 DEF SameSession
    <2>5. CASE ~byOperator BY <2>3, <2>5
    <2> QED BY <2>4, <2>5
  <1> HIDE DEF wish
  <1>2. /\ bare \in Device /\ ~bare.starting /\ bare.mirroring = r.mirroring
        /\ bare.core = r.core /\ bare.wanted = wish.wanted /\ bare.stopped = wish.stopped
    BY <1>1 DEF Device
  <1> HIDE DEF bare
  <1>3. /\ idle \in Device /\ ~idle.starting /\ ~idle.mirroring
        /\ idle.core \notin {"starting", "zombie", "live"}
        /\ idle.wanted = wish.wanted /\ idle.stopped = wish.stopped
    <2>1. bare.mirroring <=> bare.core = "live" BY <1>2 DEF Kind, Sound
    <2> QED BY <1>2, <2>1, CoreDisconnectEnds
  <1>4. over = idle BY <1>3
  <1>5. StopMirror(r, byOperator) \in
          {over, SetState(over, "AdbOnline"), SetState(over, "Offline")}
    <2>1. StopMirror(r, byOperator) =
            IF over.reg \in {"Mirroring", "Connecting"}
              THEN SetState(over, IF over.adbDevice THEN "AdbOnline" ELSE "Offline")
              ELSE over
      BY DEF StopMirror, wish, bare
    <2> HIDE DEF over
    <2> QED BY <2>1
  <1> HIDE DEF idle, over
  <1>6. \A s \in {"AdbOnline", "Offline"} : SameSession(over, SetState(over, s))
    <2>1. \A s \in {"AdbOnline", "Offline"} : s \in RegStates BY DEF RegStates
    <2> QED BY <1>3, <1>4, <2>1, SetStateSame
  <1>7. SameSession(over, over) BY <1>3, <1>4 DEF SameSession
  <1>8. SameSession(over, StopMirror(r, byOperator)) BY <1>5, <1>6, <1>7
  <1> QED BY <1>1, <1>3, <1>4, <1>8 DEF SameSession, Stopped

LEMMA StopMirrorKeeps ==
  ASSUME NEW r, Kind(r), NEW byOperator \in BOOLEAN
  PROVE  Kind(StopMirror(r, byOperator))
  BY StopMirrorStops DEF Kind, Sound, Watched, Stopped

\* A stopped device that is wanted again: what restartMirror and rebootDevice leave.
LEMMA WantedAgainKeeps ==
  ASSUME NEW s \in Device, Stopped(s, s), NEW t, t \in Device,
         t.starting = s.starting, t.mirroring = s.mirroring, t.core = s.core,
         t.wanted => ~t.stopped
  PROVE  Kind(t)
  BY DEF Kind, Sound, Watched, Stopped

LEMMA RestartMirrorKeeps ==
  ASSUME NEW r, Kind(r)
  PROVE  Kind(RestartMirror(r))
  <1> DEFINE stop  == StopMirror(r, FALSE)
             again == [stop EXCEPT !.wanted = TRUE, !.stopped = FALSE, !.restart = @ + 1]
  <1>1. stop \in Device /\ Stopped(stop, stop) BY StopMirrorStops DEF Stopped
  <1>2. Kind(stop) BY StopMirrorKeeps
  <1>3. RestartMirror(r) \in {stop, again} BY DEF RestartMirror
  <1> HIDE DEF stop
  <1>4. /\ again \in Device /\ again.starting = stop.starting /\ again.mirroring = stop.mirroring
        /\ again.core = stop.core /\ ~again.stopped
    <2> DEFINE n == stop.restart + 1
    <2>1. n \in Nat BY <1>1 DEF Device
    <2> HIDE DEF n
    <2>2. /\ [stop EXCEPT !.wanted = TRUE, !.stopped = FALSE, !.restart = n] \in Device
          /\ [stop EXCEPT !.wanted = TRUE, !.stopped = FALSE, !.restart = n].starting = stop.starting
          /\ [stop EXCEPT !.wanted = TRUE, !.stopped = FALSE, !.restart = n].mirroring = stop.mirroring
          /\ [stop EXCEPT !.wanted = TRUE, !.stopped = FALSE, !.restart = n].core = stop.core
          /\ ~[stop EXCEPT !.wanted = TRUE, !.stopped = FALSE, !.restart = n].stopped
      BY <1>1, <2>1 DEF Device
    <2> QED BY <2>2 DEF n
  <1> HIDE DEF again
  <1>5. Kind(again) BY <1>1, <1>4, WantedAgainKeeps
  <1> QED BY <1>2, <1>3, <1>5

-----------------------------------------------------------------------------
(* What an operator, a timer or discovery asks for.                        *)

LEMMA CoreDisconnectKeeps ==
  ASSUME NEW r, Kind(r)
  PROVE  Kind(CoreDisconnect(r))
  BY CoreDisconnectEnds DEF Kind, Sound, Watched

LEMMA WishKeeps ==
  ASSUME NEW r, Kind(r)
  PROVE  Kind([r EXCEPT !.stopped = FALSE, !.wanted = TRUE])
  <1> DEFINE wish == [r EXCEPT !.stopped = FALSE, !.wanted = TRUE]
  <1>1. /\ wish \in Device /\ wish.starting = r.starting /\ wish.watchdog = r.watchdog
        /\ wish.mirroring = r.mirroring /\ wish.core = r.core /\ ~wish.stopped /\ wish.wanted
    BY DEF Kind, Device
  <1> HIDE DEF wish
  <1>2. Kind(wish) BY <1>1 DEF Kind, Sound, Watched
  <1> QED BY <1>2 DEF wish

LEMMA StartMirrorKeeps ==
  ASSUME NEW r, Kind(r), NEW d
  PROVE  Kind(StartMirror(d, r))
  <1> DEFINE wish == [r EXCEPT !.stopped = FALSE, !.wanted = TRUE]
             wait == [wish EXCEPT !.queued = TRUE]
  <1>1. Kind(wish) BY WishKeeps
  <1>2. StartMirror(d, r) \in {wish, wait, ConnectEndpoint(wish)}
    <2> HIDE DEF wish, wait
    <2>1. CASE r.mirroring \/ r.starting \/ r.queued BY <2>1 DEF StartMirror, wish
    <2>2. CASE ~(r.mirroring \/ r.starting \/ r.queued) BY <2>2 DEF StartMirror, wish, wait
    <2> QED BY <2>1, <2>2
  <1> HIDE DEF wish
  <1>3. SameSession(wish, wait) BY <1>1 DEF Kind, SameSession, Device
  <1>4. SameSession(wish, ConnectEndpoint(wish)) BY <1>1, ConnectEndpointSame DEF Kind
  <1> HIDE DEF wait
  <1> QED BY <1>1, <1>2, <1>3, <1>4, SameSessionKeeps

LEMMA ReconnectDeviceKeeps ==
  ASSUME NEW r, Kind(r), NEW d
  PROVE  Kind(ReconnectDevice(d, r))
  <1> DEFINE mark == [r EXCEPT !.stopped = FALSE, !.wanted = TRUE]
             wish == CancelReconnect(mark)
  <1>1. Kind(mark) BY WishKeeps
  <1>2. ReconnectDevice(d, r) \in {RestartMirror(wish), AttemptReconnect(d, wish)}
    BY DEF ReconnectDevice
  <1> HIDE DEF mark
  <1>3. Kind(wish) BY <1>1, CancelReconnectSame, SameSessionKeeps DEF Kind
  <1> HIDE DEF wish
  <1>4. Kind(RestartMirror(wish)) BY <1>3, RestartMirrorKeeps
  <1>5. Kind(AttemptReconnect(d, wish)) BY <1>3, AttemptReconnectSame, SameSessionKeeps DEF Kind
  <1> QED BY <1>2, <1>4, <1>5

LEMMA DisconnectDeviceKeeps ==
  ASSUME NEW r, Kind(r), NEW d
  PROVE  Kind(DisconnectDevice(d, r))
  <1> DEFINE stop == StopMirror(r, TRUE)
             n    == stop.hangup + 1
  <1>1. Kind(stop) BY StopMirrorKeeps
  <1>2. DisconnectDevice(d, r) \in {stop, [stop EXCEPT !.hangup = n]} BY DEF DisconnectDevice
  <1> HIDE DEF stop
  <1>3. n \in Nat BY <1>1 DEF Kind, Device
  <1> HIDE DEF n
  <1>4. Kind([stop EXCEPT !.hangup = n]) BY <1>1, <1>3, CountersSame, SameSessionKeeps DEF Kind
  <1> QED BY <1>1, <1>2, <1>4

LEMMA RebootDeviceKeeps ==
  ASSUME NEW r, Kind(r)
  PROVE  Kind(RebootDevice(r))
  <1> DEFINE away == [r EXCEPT !.rebooting = TRUE]
             stop == StopMirror(away, FALSE)
             n    == stop.reboot + 1
             boot == [stop EXCEPT !.wanted = r.wanted \/ r.mirroring,
                                  !.reg = "Reconnecting", !.reboot = n]
  <1>1. SameSession(r, away) BY DEF Kind, SameSession, Device
  <1>2. RebootDevice(r) = boot BY DEF RebootDevice
  <1> HIDE DEF away
  <1>3. Kind(away) BY <1>1, SameSessionKeeps
  <1>4. Stopped(stop, stop) /\ stop \in Device /\ stop.stopped = r.stopped
    <2>1. stop.stopped = (r.stopped \/ FALSE) BY <1>1, <1>3, StopMirrorStops DEF SameSession
    <2>2. r.stopped \in BOOLEAN BY DEF Kind, Device
    <2> QED BY <1>3, <2>1, <2>2, StopMirrorStops DEF Stopped
  <1>5. r.wanted \/ r.mirroring => ~r.stopped BY DEF Kind, Sound
  <1> HIDE DEF stop
  <1>6. n \in Nat BY <1>4 DEF Device
  <1> HIDE DEF n
  <1>7. (r.wanted \/ r.mirroring) \in BOOLEAN OBVIOUS
  <1>8. /\ boot \in Device /\ boot.starting = stop.starting /\ boot.mirroring = stop.mirroring
        /\ boot.core = stop.core /\ boot.stopped = stop.stopped
        /\ boot.wanted = (r.wanted \/ r.mirroring)
    BY <1>4, <1>6, <1>7 DEF Device, RegStates
  <1> HIDE DEF boot
  <1>9. Kind(boot) BY <1>4, <1>5, <1>8, WantedAgainKeeps
  <1> QED BY <1>2, <1>9

LEMMA RebootOverKeeps ==
  ASSUME NEW r, Kind(r)
  PROVE  Kind(RebootOver(r))
  <1> DEFINE due == [r EXCEPT !.tries = 2, !.rebooting = FALSE]
  <1>1. SameSession(r, due) BY TriesValues DEF Kind, SameSession, Device
  <1>2. RebootOver(r) \in {r, due, ScheduleReconnect(due)}
    <2> HIDE DEF due
    <2>1. CASE ~r.rebooting BY <2>1 DEF RebootOver
    <2>2. CASE r.rebooting /\ r.wanted BY <2>2 DEF RebootOver, due
    <2>3. CASE r.rebooting /\ ~r.wanted BY <2>3 DEF RebootOver, due
    <2> QED BY <2>1, <2>2, <2>3
  <1> HIDE DEF due
  <1>3. Kind(due) BY <1>1, SameSessionKeeps
  <1>4. Kind(ScheduleReconnect(due)) BY <1>3, ScheduleReconnectSame, SameSessionKeeps DEF Kind
  <1> QED BY <1>2, <1>3, <1>4

LEMMA OnDeviceAppearedKeeps ==
  ASSUME NEW r, Kind(r), NEW d
  PROVE  Kind(OnDeviceAppeared(d, r))
  <1> DEFINE here == [r EXCEPT !.rebooting = FALSE]
             back == CancelReconnect(here)
  <1>1. SameSession(r, here) BY DEF Kind, SameSession, Device
  <1>2. OnDeviceAppeared(d, r) \in {StartMirror(d, back), back} BY DEF OnDeviceAppeared
  <1> HIDE DEF here
  <1>3. Kind(here) BY <1>1, SameSessionKeeps
  <1>4. Kind(back) BY <1>3, CancelReconnectSame, SameSessionKeeps DEF Kind
  <1> HIDE DEF back
  <1> QED BY <1>2, <1>4, StartMirrorKeeps

LEMMA OnDeviceDisappearedKeeps ==
  ASSUME NEW r, Kind(r)
  PROVE  Kind(OnDeviceDisappeared(r))
  <1>1. Kind(Reschedule(r)) BY RescheduleSame, SameSessionKeeps DEF Kind
  <1> QED BY <1>1, CoreDisconnectKeeps DEF OnDeviceDisappeared

LEMMA ListingKeeps ==
  ASSUME NEW r, Kind(r), NEW d, NEW row \in AllRows
  PROVE  Kind(Listing(d, r, row))
  <1> DEFINE up  == Upsert(r, row)
             now == [up EXCEPT !.online = row = "device"]
  <1>1. Kind(up) BY UpsertSame, SameSessionKeeps DEF Kind
  <1>2. Listing(d, r, row) \in {OnDeviceAppeared(d, now), OnDeviceDisappeared(now), now}
    <2>1. Listing(d, r, row) =
            CASE row = "device" /\ ~r.online -> OnDeviceAppeared(d, now)
              [] row # "device" /\ r.online  -> OnDeviceDisappeared(now)
              [] OTHER -> now
      BY DEF Listing
    <2> HIDE DEF now
    <2> QED BY <2>1
  <1> HIDE DEF up
  <1>3. SameSession(up, now) BY <1>1 DEF Kind, SameSession, Device
  <1> HIDE DEF now
  <1>4. Kind(now) BY <1>1, <1>3, SameSessionKeeps
  <1> QED BY <1>2, <1>4, OnDeviceAppearedKeeps, OnDeviceDisappearedKeeps

-----------------------------------------------------------------------------
(* The answers, timers and core signals.                                   *)

LEMMA NormalizeAnswerKeeps ==
  ASSUME NEW r, Kind(r), r.norm > 0, NEW ok \in BOOLEAN, NEW portFree \in BOOLEAN
  PROVE  LET s == [r EXCEPT !.norm = @ - 1]
         IN  Kind(IF s.starting THEN LaunchCore([s EXCEPT !.normalized = @ \/ ok], portFree)
                                ELSE s)
  <1> DEFINE n == r.norm - 1
             s == [r EXCEPT !.norm = n]
             b == s.normalized \/ ok
             t == [s EXCEPT !.normalized = b]
  <1>1. n \in Nat BY DEF Kind, Device
  <1> HIDE DEF n
  <1>2. Kind(s) BY <1>1, CountersSame, SameSessionKeeps DEF Kind
  <1> HIDE DEF s
  <1>3. b \in BOOLEAN OBVIOUS
  <1> HIDE DEF b
  <1>4. SameSession(s, t) BY <1>2, <1>3 DEF Kind, SameSession, Device
  <1> HIDE DEF t
  <1>5. Kind(LaunchCore(t, portFree)) BY <1>2, <1>4, SameSessionKeeps, LaunchCoreKeeps
  <1> QED BY <1>2, <1>5 DEF n, s, b, t

LEMMA DialAnswerKeeps ==
  ASSUME NEW r, Kind(r), r.dial > 0, NEW ok \in BOOLEAN
  PROVE  LET s == [r EXCEPT !.dial = @ - 1]
         IN  Kind(IF ok THEN [s EXCEPT !.probe = @ + 1]
                        ELSE ScheduleReconnect(SetState(s, "Reconnecting")))
  <1> DEFINE n == r.dial - 1
             s == [r EXCEPT !.dial = n]
             p == s.probe + 1
             t == SetState(s, "Reconnecting")
  <1>1. n \in Nat BY DEF Kind, Device
  <1> HIDE DEF n
  <1>2. Kind(s) BY <1>1, CountersSame, SameSessionKeeps DEF Kind
  <1> HIDE DEF s
  <1>3. p \in Nat BY <1>2 DEF Kind, Device
  <1> HIDE DEF p
  <1>4. Kind([s EXCEPT !.probe = p]) BY <1>2, <1>3, CountersSame, SameSessionKeeps DEF Kind
  <1>5. "Reconnecting" \in RegStates BY DEF RegStates
  <1>6. Kind(t) BY <1>2, <1>5, SetStateSame, SameSessionKeeps DEF Kind
  <1> HIDE DEF t
  <1>7. Kind(ScheduleReconnect(t)) BY <1>6, ScheduleReconnectSame, SameSessionKeeps DEF Kind
  <1> QED BY <1>4, <1>7 DEF n, s, p, t

LEMMA ProbeAnswerKeeps ==
  ASSUME NEW r, Kind(r), r.probe > 0, NEW ok \in BOOLEAN
  PROVE  LET s == [r EXCEPT !.probe = @ - 1]
         IN  Kind(IF ok THEN [s EXCEPT !.reg = "AdbOnline",
                                       !.queued = @ \/ ~(s.mirroring \/ s.starting)]
                        ELSE ScheduleReconnect(s))
  <1> DEFINE n == r.probe - 1
             s == [r EXCEPT !.probe = n]
             b == s.queued \/ ~(s.mirroring \/ s.starting)
             t == [s EXCEPT !.reg = "AdbOnline", !.queued = b]
  <1>1. n \in Nat BY DEF Kind, Device
  <1> HIDE DEF n
  <1>2. Kind(s) BY <1>1, CountersSame, SameSessionKeeps DEF Kind
  <1> HIDE DEF s
  <1>3. b \in BOOLEAN OBVIOUS
  <1> HIDE DEF b
  <1>4. SameSession(s, t) BY <1>2, <1>3 DEF Kind, SameSession, Device, RegStates
  <1> HIDE DEF t
  <1>5. Kind(t) BY <1>2, <1>4, SameSessionKeeps
  <1>6. Kind(ScheduleReconnect(s)) BY <1>2, ScheduleReconnectSame, SameSessionKeeps DEF Kind
  <1> QED BY <1>5, <1>6 DEF n, s, b, t

LEMMA RebootAnswerKeeps ==
  ASSUME NEW r, Kind(r), r.reboot > 0
  PROVE  Kind([r EXCEPT !.reboot = @ - 1, !.rebootWait = @ + 1])
  <1> DEFINE n == r.reboot - 1
             m == r.rebootWait + 1
             s == [r EXCEPT !.reboot = n, !.rebootWait = m]
  <1>1. n \in Nat /\ m \in Nat BY DEF Kind, Device
  <1> HIDE DEF n, m
  <1>2. SameSession(r, s) BY <1>1 DEF Kind, SameSession, Device
  <1> HIDE DEF s
  <1> QED BY <1>2, SameSessionKeeps DEF n, m, s

LEMMA ConnectAnswerKeeps ==
  ASSUME NEW r, Kind(r), NEW ok \in BOOLEAN
  PROVE  Kind([r EXCEPT !.connecting = FALSE,
                        !.reg = IF ok THEN "Discovered" ELSE "Offline"])
  <1> DEFINE g == IF ok THEN "Discovered" ELSE "Offline"
             s == [r EXCEPT !.connecting = FALSE, !.reg = g]
  <1>1. g \in RegStates BY DEF RegStates
  <1> HIDE DEF g
  <1>2. SameSession(r, s) BY <1>1 DEF Kind, SameSession, Device
  <1> HIDE DEF s
  <1> QED BY <1>2, SameSessionKeeps DEF g, s

LEMMA HangupAnswerKeeps ==
  ASSUME NEW r, Kind(r), r.hangup > 0
  PROVE  Kind([r EXCEPT !.hangup = @ - 1, !.reg = "Offline"])
  <1> DEFINE n == r.hangup - 1
             s == [r EXCEPT !.hangup = n, !.reg = "Offline"]
  <1>1. n \in Nat BY DEF Kind, Device
  <1> HIDE DEF n
  <1>2. SameSession(r, s) BY <1>1 DEF Kind, SameSession, Device, RegStates
  <1> HIDE DEF s
  <1> QED BY <1>2, SameSessionKeeps DEF n, s

\* The watchdog that goes off gives up the slot it watched.
LEMMA WatchdogFiresKeeps ==
  ASSUME NEW r, Kind(r)
  PROVE  LET s == [r EXCEPT !.watchdog = FALSE]
         IN  Kind(IF s.starting THEN FinishStart(CoreDisconnect(s), FALSE) ELSE s)
  <1> DEFINE s == [r EXCEPT !.watchdog = FALSE]
             t == CoreDisconnect(s)
             u == FinishStart(t, FALSE)
  <1>1. /\ s \in Device /\ s.starting = r.starting /\ s.mirroring = r.mirroring
        /\ s.core = r.core /\ s.wanted = r.wanted /\ s.stopped = r.stopped
    BY DEF Kind, Device
  <1> HIDE DEF s
  <1>2. Sound(s) BY <1>1 DEF Kind, Sound
  <1>3. /\ t \in Device /\ ~t.mirroring /\ t.core \notin {"starting", "zombie", "live"}
        /\ t.wanted => ~t.stopped
    BY <1>1, <1>2, CoreDisconnectEnds DEF Sound
  <1> HIDE DEF t
  <1>4. /\ u \in Device /\ ~u.starting /\ ~u.mirroring
        /\ u.core \notin {"starting", "zombie", "live"} /\ (u.wanted => ~u.stopped)
    BY <1>3, FinishStartFails
  <1> HIDE DEF u
  <1>5. Kind(u) BY <1>4 DEF Kind, Sound, Watched
  <1>6. ~s.starting => Kind(s) BY <1>1, <1>2 DEF Kind, Watched
  <1> QED BY <1>5, <1>6 DEF s, t, u

LEMMA RetryFiresKeeps ==
  ASSUME NEW r, Kind(r), NEW d
  PROVE  Kind(AttemptReconnect(d, [r EXCEPT !.retry = FALSE]))
  <1> DEFINE s == [r EXCEPT !.retry = FALSE]
  <1>1. SameSession(r, s) BY DEF Kind, SameSession, Device
  <1> HIDE DEF s
  <1>2. Kind(s) BY <1>1, SameSessionKeeps
  <1>3. Kind(AttemptReconnect(d, s)) BY <1>2, AttemptReconnectSame, SameSessionKeeps DEF Kind
  <1> QED BY <1>3 DEF s

LEMMA RestartFiresKeeps ==
  ASSUME NEW r, Kind(r), r.restart > 0, NEW d
  PROVE  Kind(StartMirror(d, [r EXCEPT !.restart = @ - 1]))
  <1> DEFINE n == r.restart - 1
  <1>1. n \in Nat BY DEF Kind, Device
  <1> HIDE DEF n
  <1>2. Kind([r EXCEPT !.restart = n]) BY <1>1, CountersSame, SameSessionKeeps DEF Kind
  <1>3. Kind(StartMirror(d, [r EXCEPT !.restart = n])) BY <1>2, StartMirrorKeeps
  <1> QED BY <1>3 DEF n

LEMMA RebootWaitFiresKeeps ==
  ASSUME NEW r, Kind(r), r.rebootWait > 0
  PROVE  Kind(RebootOver([r EXCEPT !.rebootWait = @ - 1]))
  <1> DEFINE n == r.rebootWait - 1
  <1>1. n \in Nat BY DEF Kind, Device
  <1> HIDE DEF n
  <1>2. Kind([r EXCEPT !.rebootWait = n]) BY <1>1, CountersSame, SameSessionKeeps DEF Kind
  <1>3. Kind(RebootOver([r EXCEPT !.rebootWait = n])) BY <1>2, RebootOverKeeps
  <1> QED BY <1>3 DEF n

\* A server that answers makes a session of a wanted device only: the entry of an
\* unwanted one was deleted with its wish.
LEMMA CoreUpKeeps ==
  ASSUME NEW r, Kind(r), r.core = "starting"
  PROVE  Kind(FinishStart([r EXCEPT !.core = "live"], TRUE))
  <1> DEFINE s == [r EXCEPT !.core = "live"]
             t == FinishStart(s, TRUE)
  <1>1. s \in Device /\ s.core = "live" /\ s.wanted = r.wanted /\ s.stopped = r.stopped
    BY DEF Kind, Device, CoreStates
  <1> HIDE DEF s
  <1>2. /\ t \in Device /\ ~t.starting /\ t.mirroring /\ t.core = "live"
        /\ t.wanted = r.wanted /\ t.stopped = r.stopped
    BY <1>1, FinishStartSucceeds
  <1> HIDE DEF t
  <1>3. Kind(t) BY <1>2 DEF Kind, Sound, Watched
  <1> QED BY <1>3 DEF s, t

LEMMA CoreFailsKeeps ==
  ASSUME NEW r, Kind(r), r.core = "starting"
  PROVE  Kind(FinishStart([r EXCEPT !.core = "absent", !.lease = FALSE], FALSE))
  <1> DEFINE s == [r EXCEPT !.core = "absent", !.lease = FALSE]
  <1>1. /\ s \in Device /\ s.core = "absent" /\ s.wanted = r.wanted /\ s.stopped = r.stopped
        /\ s.starting = r.starting /\ s.watchdog = r.watchdog /\ s.mirroring = r.mirroring
    BY DEF Kind, Device, CoreStates
  <1> HIDE DEF s
  <1>2. Kind(s) BY <1>1 DEF Kind, Sound, Watched
  <1>3. Kind(FinishStart(s, FALSE)) BY <1>2, FinishStartFailsKeeps
  <1> QED BY <1>3 DEF s

LEMMA CoreExitsKeeps ==
  ASSUME NEW r, Kind(r), r.core = "starting"
  PROVE  Kind([r EXCEPT !.core = "zombie"])
  <1> DEFINE s == [r EXCEPT !.core = "zombie"]
  <1>1. /\ s \in Device /\ s.core = "zombie" /\ s.wanted = r.wanted /\ s.stopped = r.stopped
        /\ s.starting = r.starting /\ s.watchdog = r.watchdog /\ s.mirroring = r.mirroring
    BY DEF Kind, Device, CoreStates
  <1> HIDE DEF s
  <1>2. Kind(s) BY <1>1 DEF Kind, Sound, Watched
  <1> QED BY <1>2 DEF s

-----------------------------------------------------------------------------
(* The pump, and the step every handler ends with.                         *)

LEMMA SetToSeqsAreSeqs ==
  ASSUME NEW S, IsFiniteSet(S), NEW s \in SetToSeqs(S)
  PROVE  s \in Seq(S)
  BY FS_CardinalityType DEF SetToSeqs

LEMMA RemoveAtIsSeq ==
  ASSUME NEW S, NEW s \in Seq(S), NEW i \in DOMAIN s
  PROVE  RemoveAt(s, i) \in Seq(S)
  <1>1. Len(s) \in Nat /\ DOMAIN s = 1 .. Len(s) BY LenProperties
  <1>2. \A m \in DOMAIN s : s[m] \in S BY <1>1, ElementOfSeq
  <1>3. SubSeq(s, 1, i-1) \in Seq(S) BY <1>1, <1>2, SubSeqProperties
  <1>4. SubSeq(s, i+1, Len(s)) \in Seq(S) BY <1>1, <1>2, SubSeqProperties
  <1> QED BY <1>3, <1>4, ConcatProperties DEF RemoveAt

\* What the pump does to one device: nothing, a start it is due, or to skip it.
LEMMA PumpedKeeps ==
  ASSUME NEW dv \in [Dev -> Device], \A d \in Dev : Kind(dv[d]),
         NEW q, NEW k, NEW ports
  PROVE  /\ Pumped(dv, q, k, ports) \in [Dev -> Device]
         /\ \A d \in Dev : Kind(Pumped(dv, q, k, ports)[d])
  <1> DEFINE out == {q[i] : i \in 1 .. k}
             P == Pumped(dv, q, k, ports)
  <1>1. ASSUME NEW d \in Dev PROVE Kind(P[d])
    <2> DEFINE skip == [dv[d] EXCEPT !.queued = FALSE]
               go == BeginStart(dv[d], d \in ports)
    <2>1. P[d] = CASE d \notin out -> dv[d]
                   [] d \in out /\ ~dv[d].mirroring /\ ~dv[d].starting /\ dv[d].wanted -> go
                   [] OTHER -> skip
      BY DEF Pumped
    <2>2. Kind(dv[d]) OBVIOUS
    <2>3. SameSession(dv[d], skip) BY <2>2 DEF Kind, SameSession, Device
    <2>4. (d \in ports) \in BOOLEAN OBVIOUS
    <2>5. ~dv[d].mirroring /\ ~dv[d].starting /\ dv[d].wanted => Kind(go)
      BY <2>2, <2>4, BeginStartKeeps
    <2>6. Kind(skip) BY <2>2, <2>3, SameSessionKeeps
    <2> HIDE DEF skip, go, P, out
    <2> QED BY <2>1, <2>2, <2>5, <2>6
  <1>2. P = [d \in Dev |-> P[d]] BY DEF Pumped
  <1> HIDE DEF P
  <1>3. P \in [Dev -> Device] BY <1>1, <1>2 DEF Kind
  <1> QED BY <1>1, <1>3 DEF P

LEMMA SettleKeeps ==
  ASSUME NEW dv \in [Dev -> Device], \A d \in Dev : Kind(dv[d]),
         queue \in Seq(Dev), Settle(dv)
  PROVE  /\ dev' \in [Dev -> Device] /\ \A d \in Dev : Kind(dev'[d])
         /\ queue' \in Seq(Dev)
  <1>1. PICK news \in Arrivals(dv), ports \in IF PortsRunOut THEN {{}, Dev} ELSE {Dev} :
          LET q == Kept(dv) \o news
          IN  \E k \in 0 .. Len(q) : /\ dev' = Pumped(dv, q, k, ports)
                                     /\ queue' = SubSeq(q, k+1, Len(q))
    BY DEF Settle
  <1> DEFINE q == Kept(dv) \o news
  <1>2. PICK k \in 0 .. Len(q) : /\ dev' = Pumped(dv, q, k, ports)
                                 /\ queue' = SubSeq(q, k+1, Len(q))
    BY <1>1
  <1>3. Kept(dv) \in Seq(Dev)
    <2> DEFINE out == {i \in DOMAIN queue : ~dv[queue[i]].queued}
    <2>1. CASE out = {} BY <2>1 DEF Kept
    <2>2. CASE out # {}
      <3>1. (CHOOSE i \in out : TRUE) \in DOMAIN queue BY <2>2
      <3>2. Kept(dv) = RemoveAt(queue, CHOOSE i \in out : TRUE) BY <2>2 DEF Kept
      <3> QED BY <3>1, <3>2, RemoveAtIsSeq
    <2> QED BY <2>1, <2>2
  <1>4. news \in Seq(Dev)
    <2> DEFINE S == {d \in Dev : dv[d].queued /\ \A i \in DOMAIN queue : queue[i] # d}
    <2>1. IsFiniteSet(S) BY DevAssumption, FS_Subset
    <2>2. news \in Seq(S) BY <2>1, SetToSeqsAreSeqs DEF Arrivals
    <2> QED BY <2>2, SeqMonotonic
  <1>5. q \in Seq(Dev) BY <1>3, <1>4, ConcatProperties
  <1> HIDE DEF q
  <1>6. queue' \in Seq(Dev)
    <2>1. Len(q) \in Nat BY <1>5, LenProperties
    <2>2. \A i \in k+1 .. Len(q) : q[i] \in Dev BY <1>5, <2>1, ElementOfSeq
    <2> QED BY <1>2, <2>1, <2>2, SubSeqProperties
  <1> QED BY <1>2, <1>6, PumpedKeeps

\* The invariant.  Sound and Watched speak of one device; after the shutdown, which
\* stops the watchdogs and after which nothing runs, Watched is not claimed.
IInv == /\ TypeOK
        /\ \A d \in Dev : Sound(dev[d]) /\ (Watched(dev[d]) \/ down)

LEMMA HandleKeeps ==
  ASSUME IInv, NEW d \in Dev, NEW r, Kind(r), Handle(d, r)
  PROVE  /\ ~down /\ down' = down /\ limit' = limit
         /\ dev' \in [Dev -> Device] /\ queue' \in Seq(Dev)
         /\ \A e \in Dev : Kind(dev'[e])
  <1> DEFINE dv == [dev EXCEPT ![d] = r]
  <1>1. ~down /\ down' = down /\ limit' = limit /\ Settle(dv) BY DEF Handle
  <1>2. \A e \in Dev : dv[e] = IF e = d THEN r ELSE dev[e] BY DEF IInv, TypeOK
  <1>3. dv \in [Dev -> Device] BY DEF IInv, TypeOK, Kind
  <1>4. \A e \in Dev : Kind(dv[e])
    <2>1. \A e \in Dev : Kind(dev[e]) BY <1>1 DEF IInv, TypeOK, Kind
    <2> QED BY <1>2, <2>1
  <1>5. queue \in Seq(Dev) BY DEF IInv, TypeOK
  <1> HIDE DEF dv
  <1> QED BY <1>1, <1>3, <1>4, <1>5, SettleKeeps

\* A step that leaves every device kind keeps the invariant.
LEMMA KindStepKeeps ==
  ASSUME IInv, ~down, down' = down, limit' \in LimitRange, commands' \in Nat,
         barred' \in [Dev -> Bars],
         dev' \in [Dev -> Device], queue' \in Seq(Dev), \A e \in Dev : Kind(dev'[e])
  PROVE  IInv'
  <1>1. down' \in BOOLEAN BY DEF IInv, TypeOK
  <1>2. TypeOK' BY <1>1 DEF TypeOK
  <1>3. \A e \in Dev : (Sound(dev[e]) /\ (Watched(dev[e]) \/ down))' BY DEF Kind, Sound, Watched
  <1> QED BY <1>2, <1>3 DEF IInv

LEMMA EventKeeps ==
  ASSUME IInv, NEW d \in Dev, NEW r, Kind(r), Event(d, r)
  PROVE  IInv'
  <1>1. Handle(d, r) /\ commands' = commands /\ barred' = barred BY DEF Event
  <1>2. commands \in Nat /\ limit \in LimitRange /\ barred \in [Dev -> Bars]
    BY DEF IInv, TypeOK
  <1> QED BY <1>1, <1>2, HandleKeeps, KindStepKeeps

LEMMA PlainKeeps ==
  ASSUME IInv, NEW d \in Dev, NEW r, Kind(r), NEW name, Plain(name), Handle(d, r)
  PROVE  IInv'
  <1>1. commands' \in Nat /\ barred' = barred BY DEF Plain, Command, IInv, TypeOK
  <1>2. limit \in LimitRange /\ barred \in [Dev -> Bars] BY DEF IInv, TypeOK
  <1> QED BY <1>1, <1>2, HandleKeeps, KindStepKeeps

LEMMA OrderKeeps ==
  ASSUME IInv, NEW d \in Dev, NEW r, Kind(r), NEW name, NEW mark \in Bars,
         Order(name, d, mark), Handle(d, r)
  PROVE  IInv'
  <1>1. commands' \in Nat BY DEF Order, Command, IInv, TypeOK
  <1>2. limit \in LimitRange /\ barred' \in [Dev -> Bars] BY DEF Order, IInv, TypeOK
  <1> QED BY <1>1, <1>2, HandleKeeps, KindStepKeeps

LEMMA ShutdownDeviceKeeps ==
  ASSUME NEW r, Kind(r)
  PROVE  ShutdownDevice(r) \in Device /\ Sound(ShutdownDevice(r))
  <1> DEFINE l == r.lease /\ ~r.mirroring
             c == CASE r.core = "live" -> "absent"
                    [] r.core \in {"starting", "zombie"} -> "null"
                    [] OTHER -> r.core
             s == [r EXCEPT !.retry = FALSE, !.watchdog = FALSE, !.queued = FALSE,
                            !.mirroring = FALSE, !.lease = l, !.core = c]
  <1>1. l \in BOOLEAN /\ r \in Device BY DEF Kind
  <1>2. c \in CoreStates /\ c \notin {"starting", "zombie", "live"}
    <2>1. r.core \in CoreStates BY <1>1 DEF Device
    <2> QED BY <2>1 DEF CoreStates
  <1>3. ShutdownDevice(r) = s BY DEF ShutdownDevice
  <1> HIDE DEF l, c
  <1>4. /\ s \in Device /\ ~s.mirroring /\ s.core = c /\ s.starting = r.starting
        /\ s.wanted = r.wanted /\ s.stopped = r.stopped
    BY <1>1, <1>2, ZenonT(60) DEF Device
  <1> HIDE DEF s
  <1> QED BY <1>2, <1>3, <1>4 DEF Kind, Sound

-----------------------------------------------------------------------------
(* The invariant is inductive, one step per kind of step of Next.          *)

LEMMA InitIInv == Init => IInv
  <1> SUFFICES ASSUME Init PROVE IInv OBVIOUS
  <1>1. NewDevice \in Device BY TriesValues DEF NewDevice, Device, RegStates, CoreStates
  <1>2. Sound(NewDevice) /\ Watched(NewDevice) BY DEF NewDevice, Sound, Watched
  <1>3. TypeOK
    <2>1. [d \in Dev |-> NewDevice] \in [Dev -> Device] BY <1>1
    <2>2. <<>> \in Seq(Dev) BY EmptySeq
    <2> QED BY <2>1, <2>2 DEF Init, TypeOK, Bars
  <1>4. \A d \in Dev : dev[d] = NewDevice BY DEF Init
  <1> QED BY <1>2, <1>3, <1>4 DEF IInv

LEMMA OperatorIInv == IInv /\ Operator => IInv'
  <1> SUFFICES ASSUME IInv, Operator PROVE IInv' OBVIOUS
  <1>1. ASSUME ~down PROVE \A d \in Dev : Kind(dev[d]) BY <1>1 DEF IInv, TypeOK, Kind
  <1>2. ASSUME NEW d \in Dev, Mirror(d) PROVE IInv'
    <2>1. Kind(StartMirror(d, dev[d])) BY <1>1, <1>2, StartMirrorKeeps DEF Mirror, Handle
    <2> QED BY <1>2, <2>1, OrderKeeps DEF Mirror, Bars
  <1>3. ASSUME NEW d \in Dev, Stop(d) PROVE IInv'
    <2>1. Kind(StopMirror(dev[d], TRUE)) BY <1>1, <1>3, StopMirrorKeeps DEF Stop, Handle
    <2> QED BY <1>3, <2>1, OrderKeeps DEF Stop, Bars
  <1>4. ASSUME NEW d \in Dev, Restart(d) PROVE IInv'
    <2>1. Kind(RestartMirror(dev[d])) BY <1>1, <1>4, RestartMirrorKeeps DEF Restart, Handle
    <2> QED BY <1>4, <2>1, PlainKeeps DEF Restart
  <1>5. ASSUME NEW d \in Dev, Reconnect(d) PROVE IInv'
    <2>1. Kind(ReconnectDevice(d, dev[d])) BY <1>1, <1>5, ReconnectDeviceKeeps DEF Reconnect, Handle
    <2> QED BY <1>5, <2>1, OrderKeeps DEF Reconnect, Bars
  <1>6. ASSUME NEW d \in Dev, Disconnect(d) PROVE IInv'
    <2>1. Kind(DisconnectDevice(d, dev[d]))
      BY <1>1, <1>6, DisconnectDeviceKeeps DEF Disconnect, Handle
    <2> QED BY <1>6, <2>1, OrderKeeps DEF Disconnect, Bars
  <1>7. ASSUME NEW d \in Dev, Reboot(d) PROVE IInv'
    <2>1. Kind(RebootDevice(dev[d])) BY <1>1, <1>7, RebootDeviceKeeps DEF Reboot, Handle
    <2> QED BY <1>7, <2>1, PlainKeeps DEF Reboot
  <1>8. ASSUME NEW d \in Dev, ConnectIp(d) PROVE IInv'
    <2>1. Kind(dev[d]) BY <1>1, <1>8 DEF ConnectIp, Handle
    <2>2. Kind(ConnectEndpoint(dev[d])) BY <2>1, ConnectEndpointSame, SameSessionKeeps DEF Kind
    <2> QED BY <1>8, <2>2, PlainKeeps DEF ConnectIp
  <1>9. ASSUME NEW n \in LimitRange, SetLimit(n) PROVE IInv'
    <2>1. /\ ~down /\ down' = down /\ limit' \in LimitRange /\ Settle(dev)
          /\ commands' = commands + 1 /\ barred' = barred
      BY <1>9 DEF SetLimit, Plain, Command
    <2>2. commands' \in Nat /\ barred' \in [Dev -> Bars] BY <2>1 DEF IInv, TypeOK
    <2>3. \A d \in Dev : Kind(dev[d]) BY <1>1, <2>1
    <2>4. dev \in [Dev -> Device] /\ queue \in Seq(Dev) BY DEF IInv, TypeOK
    <2>5. /\ dev' \in [Dev -> Device] /\ \A d \in Dev : Kind(dev'[d])
          /\ queue' \in Seq(Dev)
      BY <2>1, <2>3, <2>4, SettleKeeps
    <2> QED BY <2>1, <2>2, <2>5, KindStepKeeps
  <1> QED BY <1>2, <1>3, <1>4, <1>5, <1>6, <1>7, <1>8, <1>9 DEF Operator

LEMMA RefreshIInv ==
  ASSUME IInv, NEW rows \in [Dev -> Rows], Refresh(rows)
  PROVE  IInv'
  <1> DEFINE dv == [d \in Dev |-> Listing(d, dev[d], rows[d])]
  <1>1. /\ ~down /\ down' = down /\ limit' = limit /\ commands' = commands /\ barred' = barred
        /\ Settle(dv)
    BY DEF Refresh
  <1>2. \A d \in Dev : Kind(dev[d]) BY <1>1 DEF IInv, TypeOK, Kind
  <1>3. \A d \in Dev : Kind(Listing(d, dev[d], rows[d]))
    <2>1. \A d \in Dev : rows[d] \in AllRows BY InputAssumption
    <2> QED BY <1>2, <2>1, ListingKeeps
  <1>4. dv \in [Dev -> Device] /\ \A d \in Dev : Kind(dv[d]) BY <1>3 DEF Kind
  <1> HIDE DEF dv
  <1>5. /\ queue \in Seq(Dev) /\ limit \in LimitRange /\ commands \in Nat
        /\ barred \in [Dev -> Bars]
    BY DEF IInv, TypeOK
  <1>6. /\ dev' \in [Dev -> Device] /\ \A d \in Dev : Kind(dev'[d])
        /\ queue' \in Seq(Dev)
    BY <1>1, <1>4, <1>5, SettleKeeps
  <1> QED BY <1>1, <1>5, <1>6, KindStepKeeps

LEMMA AdbIInv == IInv /\ Adb => IInv'
  <1> SUFFICES ASSUME IInv, Adb PROVE IInv' OBVIOUS
  <1>1. ASSUME ~down PROVE \A d \in Dev : Kind(dev[d]) BY <1>1 DEF IInv, TypeOK, Kind
  <1>2. ASSUME NEW d \in Dev, NEW ok \in BOOLEAN, DialAnswer(d, ok) PROVE IInv'
    <2>1. dev[d].dial > 0 /\ Kind(dev[d]) BY <1>1, <1>2 DEF DialAnswer, Event, Handle
    <2> QED BY <1>2, <2>1, DialAnswerKeeps, EventKeeps DEF DialAnswer
  <1>3. ASSUME NEW d \in Dev, NEW ok \in BOOLEAN, ProbeAnswer(d, ok) PROVE IInv'
    <2>1. dev[d].probe > 0 /\ Kind(dev[d]) BY <1>1, <1>3 DEF ProbeAnswer, Event, Handle
    <2> QED BY <1>3, <2>1, ProbeAnswerKeeps, EventKeeps DEF ProbeAnswer
  <1>4. ASSUME NEW d \in Dev, NEW ok \in BOOLEAN, ConnectAnswer(d, ok) PROVE IInv'
    <2>1. Kind(dev[d]) BY <1>1, <1>4 DEF ConnectAnswer, Event, Handle
    <2> QED BY <1>4, <2>1, ConnectAnswerKeeps, EventKeeps DEF ConnectAnswer
  <1>5. ASSUME NEW d \in Dev, NEW ok \in BOOLEAN, NEW portFree \in BOOLEAN,
               NormalizeAnswer(d, ok, portFree)
        PROVE  IInv'
    <2>1. dev[d].norm > 0 /\ Kind(dev[d]) BY <1>1, <1>5 DEF NormalizeAnswer, Event, Handle
    <2> QED BY <1>5, <2>1, NormalizeAnswerKeeps, EventKeeps DEF NormalizeAnswer
  <1>6. ASSUME NEW d \in Dev, RebootAnswer(d) PROVE IInv'
    <2>1. dev[d].reboot > 0 /\ Kind(dev[d]) BY <1>1, <1>6 DEF RebootAnswer, Event, Handle
    <2> QED BY <1>6, <2>1, RebootAnswerKeeps, EventKeeps DEF RebootAnswer
  <1>7. ASSUME NEW d \in Dev, HangupAnswer(d) PROVE IInv'
    <2>1. dev[d].hangup > 0 /\ Kind(dev[d]) BY <1>1, <1>7 DEF HangupAnswer, Event, Handle
    <2> QED BY <1>7, <2>1, HangupAnswerKeeps, EventKeeps DEF HangupAnswer
  <1>8. ASSUME NEW rows \in [Dev -> Rows], Refresh(rows) PROVE IInv'
    BY <1>8, RefreshIInv
  <1>9. (IF PortsRunOut THEN BOOLEAN ELSE {TRUE}) \subseteq BOOLEAN OBVIOUS
  <1> QED BY <1>2, <1>3, <1>4, <1>5, <1>6, <1>7, <1>8, <1>9 DEF Adb

LEMMA TimerIInv == IInv /\ Timer => IInv'
  <1> SUFFICES ASSUME IInv, Timer PROVE IInv' OBVIOUS
  <1>1. ASSUME ~down PROVE \A d \in Dev : Kind(dev[d]) BY <1>1 DEF IInv, TypeOK, Kind
  <1>2. ASSUME NEW d \in Dev, WatchdogFires(d) PROVE IInv'
    <2>1. Kind(dev[d]) BY <1>1, <1>2 DEF WatchdogFires, Event, Handle
    <2> QED BY <1>2, <2>1, WatchdogFiresKeeps, EventKeeps DEF WatchdogFires
  <1>3. ASSUME NEW d \in Dev, RetryFires(d) PROVE IInv'
    <2>1. Kind(dev[d]) BY <1>1, <1>3 DEF RetryFires, Event, Handle
    <2> QED BY <1>3, <2>1, RetryFiresKeeps, EventKeeps DEF RetryFires
  <1>4. ASSUME NEW d \in Dev, RestartFires(d) PROVE IInv'
    <2> DEFINE r == StartMirror(d, [dev[d] EXCEPT !.restart = @ - 1])
    <2>1. dev[d].restart > 0 /\ Kind(dev[d]) BY <1>1, <1>4 DEF RestartFires, Handle
    <2>2. commands' \in Nat /\ limit \in LimitRange /\ Handle(d, r)
      BY <1>4 DEF RestartFires, IInv, TypeOK
    <2>3. barred' \in [Dev -> Bars]
      <3> DEFINE mark == IF barred[d] = "stop" THEN "overruled" ELSE barred[d]
      <3>1. barred' = [barred EXCEPT ![d] = mark] BY <1>4 DEF RestartFires
      <3>2. barred \in [Dev -> Bars] BY DEF IInv, TypeOK
      <3>3. mark \in Bars BY <3>2 DEF Bars
      <3> HIDE DEF mark
      <3> QED BY <3>1, <3>2, <3>3
    <2>4. Kind(r) BY <2>1, RestartFiresKeeps
    <2> HIDE DEF r
    <2> QED BY <2>2, <2>3, <2>4, HandleKeeps, KindStepKeeps
  <1>5. ASSUME NEW d \in Dev, RebootWaitFires(d) PROVE IInv'
    <2>1. dev[d].rebootWait > 0 /\ Kind(dev[d]) BY <1>1, <1>5 DEF RebootWaitFires, Event, Handle
    <2> QED BY <1>5, <2>1, RebootWaitFiresKeeps, EventKeeps DEF RebootWaitFires
  <1> QED BY <1>2, <1>3, <1>4, <1>5 DEF Timer

LEMMA CoreIInv == IInv /\ Core => IInv'
  <1> SUFFICES ASSUME IInv, Core PROVE IInv' OBVIOUS
  <1>1. ASSUME ~down PROVE \A d \in Dev : Kind(dev[d]) BY <1>1 DEF IInv, TypeOK, Kind
  <1>2. ASSUME NEW d \in Dev, CoreUp(d) PROVE IInv'
    <2>1. dev[d].core = "starting" /\ Kind(dev[d]) BY <1>1, <1>2 DEF CoreUp, Event, Handle
    <2> QED BY <1>2, <2>1, CoreUpKeeps, EventKeeps DEF CoreUp
  <1>3. ASSUME NEW d \in Dev, CoreFails(d) PROVE IInv'
    <2>1. dev[d].core = "starting" /\ Kind(dev[d]) BY <1>1, <1>3 DEF CoreFails, Event, Handle
    <2> QED BY <1>3, <2>1, CoreFailsKeeps, EventKeeps DEF CoreFails
  <1>4. ASSUME NEW d \in Dev, CoreExits(d) PROVE IInv'
    <2>1. dev[d].core = "starting" /\ Kind(dev[d]) BY <1>1, <1>4 DEF CoreExits, Event, Handle
    <2> QED BY <1>4, <2>1, CoreExitsKeeps, EventKeeps DEF CoreExits
  <1>5. ASSUME NEW d \in Dev, CoreDrops(d) PROVE IInv'
    <2>1. Kind(dev[d]) BY <1>1, <1>5 DEF CoreDrops, Event, Handle
    <2> QED BY <1>5, <2>1, CoreDisconnectKeeps, EventKeeps DEF CoreDrops
  <1> QED BY <1>2, <1>3, <1>4, <1>5 DEF Core

LEMMA ShutdownIInv == IInv /\ Shutdown => IInv'
  <1> SUFFICES ASSUME IInv, Shutdown PROVE IInv' OBVIOUS
  <1>1. ~down BY DEF Shutdown
  <1>2. \A d \in Dev : Kind(dev[d]) BY <1>1 DEF IInv, TypeOK, Kind
  <1>3. \A d \in Dev : ShutdownDevice(dev[d]) \in Device /\ Sound(ShutdownDevice(dev[d]))
    BY <1>2, ShutdownDeviceKeeps
  <1>4. /\ down' = TRUE /\ queue' = <<>> /\ limit' = limit /\ commands' = commands
        /\ barred' = barred
        /\ dev' = [d \in Dev |-> ShutdownDevice(dev[d])]
    BY DEF Shutdown
  <1>5. TypeOK' BY <1>3, <1>4 DEF IInv, TypeOK
  <1>6. \A d \in Dev : Sound(dev'[d]) BY <1>3, <1>4
  <1> QED BY <1>4, <1>5, <1>6 DEF IInv

LEMMA NextIInv == IInv /\ [Next]_vars => IInv'
  <1> SUFFICES ASSUME IInv, [Next]_vars PROVE IInv' OBVIOUS
  <1>1. CASE Next BY <1>1, OperatorIInv, AdbIInv, TimerIInv, CoreIInv, ShutdownIInv DEF Next
  <1>2. CASE UNCHANGED vars BY <1>2 DEF vars, IInv, TypeOK
  <1> QED BY <1>1, <1>2

LEMMA AlwaysIInv == Spec => []IInv
  BY InitIInv, NextIInv, PTL DEF Spec

-----------------------------------------------------------------------------
(* The theorems.                                                           *)

\* Every record stays in its type, for any set of phones and any settings.
THEOREM MirrorTypeOK == Spec => []TypeOK
  <1>1. IInv => TypeOK BY DEF IInv
  <1> QED BY <1>1, AlwaysIInv, PTL

\* deviceservice.cpp never leaves a device in m_starting without its armed
\* m_startTimers entry.
THEOREM MirrorStartsAreWatched == Spec => []StartsAreWatched
  <1>1. IInv => StartsAreWatched BY DEF IInv, StartsAreWatched, Watched
  <1> QED BY <1>1, AlwaysIInv, PTL

\* m_mirroring is the set of live core sessions, and disjoint from m_starting.
THEOREM MirrorSessionsAgree == Spec => []SessionsAgree
  <1>1. IInv => SessionsAgree BY DEF IInv, SessionsAgree, Sound
  <1> QED BY <1>1, AlwaysIInv, PTL

-----------------------------------------------------------------------------
(* A stopped device.  Nothing but the operator's own Mirror or Reconnect   *)
(* and the timer of a Restart takes his mark from it or wants it again.    *)

SameWish(r, s) == s.wanted = r.wanted /\ s.stopped = r.stopped

Withdrawn(r) == ~r.wanted /\ r.stopped

\* What a handler keeps of a stopped device.
StaysWithdrawn(r, s) == Withdrawn(r) => Withdrawn(s)

LEMMA SameSessionSameWish ==
  ASSUME NEW r, NEW s, SameSession(r, s)
  PROVE  SameWish(r, s) /\ StaysWithdrawn(r, s)
  BY DEF SameSession, SameWish, StaysWithdrawn, Withdrawn

LEMMA FinishStartSameWish ==
  ASSUME NEW r \in Device, NEW success \in BOOLEAN
  PROVE  SameWish(r, FinishStart(r, success))
  BY FinishStartFails, FinishStartSucceeds DEF SameWish

LEMMA LaunchCoreSameWish ==
  ASSUME NEW r \in Device, NEW portFree \in BOOLEAN
  PROVE  SameWish(r, LaunchCore(r, portFree))
  <1> DEFINE up   == [r EXCEPT !.lease = TRUE, !.core = "starting"]
             back == [r EXCEPT !.lease = FALSE]
  <1>1. back \in Device /\ SameWish(r, back) /\ SameWish(r, up) /\ SameWish(r, r)
    BY DEF Device, SameWish
  <1>2. LaunchCore(r, portFree) \in {r, up, FinishStart(r, FALSE), FinishStart(back, FALSE)}
    <2> HIDE DEF up, back
    <2>1. CASE ~r.starting BY <2>1 DEF LaunchCore
    <2>2. CASE r.starting /\ ~(r.lease \/ portFree) BY <2>2 DEF LaunchCore
    <2>3. CASE r.starting /\ (r.lease \/ portFree) BY <2>3 DEF LaunchCore, up, back
    <2> QED BY <2>1, <2>2, <2>3
  <1> HIDE DEF up, back
  <1>3. SameWish(r, FinishStart(r, FALSE)) BY FinishStartSameWish
  <1>4. SameWish(r, FinishStart(back, FALSE)) BY <1>1, FinishStartSameWish DEF SameWish
  <1> QED BY <1>1, <1>2, <1>3, <1>4

LEMMA BeginStartSameWish ==
  ASSUME NEW r \in Device, NEW portFree \in BOOLEAN
  PROVE  SameWish(r, BeginStart(r, portFree))
  <1> DEFINE begun == [r EXCEPT !.queued = FALSE, !.starting = TRUE, !.watchdog = TRUE,
                                !.reg = "Connecting"]
             slow  == [begun EXCEPT !.norm = @ + 1]
  <1>1. begun \in Device /\ SameWish(r, begun) BY DEF Device, RegStates, SameWish
  <1>2. BeginStart(r, portFree) = IF Normalize /\ ~r.normalized THEN slow
                                  ELSE LaunchCore(begun, portFree)
    BY DEF BeginStart
  <1> HIDE DEF begun
  <1>3. SameWish(begun, slow) BY <1>1 DEF Device, SameWish
  <1> HIDE DEF slow
  <1>4. SameWish(begun, LaunchCore(begun, portFree)) BY <1>1, LaunchCoreSameWish
  <1> QED BY <1>1, <1>2, <1>3, <1>4 DEF SameWish

LEMMA SettleSameWish ==
  ASSUME NEW dv \in [Dev -> Device], Settle(dv)
  PROVE  \A d \in Dev : SameWish(dv[d], dev'[d])
  <1>1. PICK q, k, ports : dev' = Pumped(dv, q, k, ports) BY DEF Settle
  <1>2. SUFFICES ASSUME NEW d \in Dev PROVE SameWish(dv[d], dev'[d]) OBVIOUS
  <1> DEFINE skip == [dv[d] EXCEPT !.queued = FALSE]
             go == BeginStart(dv[d], d \in ports)
  <1>3. dev'[d] \in {dv[d], skip, go} BY <1>1 DEF Pumped
  <1>4. dv[d] \in Device /\ (d \in ports) \in BOOLEAN OBVIOUS
  <1>5. SameWish(dv[d], skip) /\ SameWish(dv[d], dv[d]) BY <1>4 DEF Device, SameWish
  <1>6. SameWish(dv[d], go) BY <1>4, BeginStartSameWish
  <1> HIDE DEF skip, go
  <1> QED BY <1>3, <1>5, <1>6

-----------------------------------------------------------------------------
(* The handlers that leave a stopped device stopped.                       *)

LEMMA StopMirrorWithdraws ==
  ASSUME NEW r, Kind(r)
  PROVE  /\ Withdrawn(StopMirror(r, TRUE))
         /\ SameWish(r, StopMirror(r, FALSE))
  <1>1. r.wanted \in BOOLEAN /\ r.stopped \in BOOLEAN BY DEF Kind, Device
  <1> QED BY <1>1, StopMirrorStops DEF Withdrawn, SameWish

LEMMA DisconnectDeviceWithdraws ==
  ASSUME NEW r, Kind(r), NEW d
  PROVE  Withdrawn(DisconnectDevice(d, r))
  <1> DEFINE stop == StopMirror(r, TRUE)
  <1>1. stop \in Device /\ Withdrawn(stop) BY StopMirrorWithdraws, StopMirrorKeeps DEF Kind
  <1>2. DisconnectDevice(d, r) \in {stop, [stop EXCEPT !.hangup = @ + 1]} BY DEF DisconnectDevice
  <1> HIDE DEF stop
  <1> QED BY <1>1, <1>2 DEF Withdrawn, Device

\* Neither Restart nor Reboot takes a device that is not wanted for one that is.
LEMMA RestartMirrorStays ==
  ASSUME NEW r, Kind(r)
  PROVE  StaysWithdrawn(r, RestartMirror(r))
  <1> SUFFICES ASSUME Withdrawn(r) PROVE Withdrawn(RestartMirror(r)) BY DEF StaysWithdrawn
  <1>1. ~(r.wanted \/ r.mirroring) BY DEF Withdrawn, Kind, Sound
  <1>2. RestartMirror(r) = StopMirror(r, FALSE) BY <1>1 DEF RestartMirror
  <1> QED BY <1>2, StopMirrorWithdraws DEF Withdrawn, SameWish

LEMMA RebootDeviceStays ==
  ASSUME NEW r, Kind(r)
  PROVE  StaysWithdrawn(r, RebootDevice(r))
  <1> SUFFICES ASSUME Withdrawn(r) PROVE Withdrawn(RebootDevice(r)) BY DEF StaysWithdrawn
  <1> DEFINE away == [r EXCEPT !.rebooting = TRUE]
             stop == StopMirror(away, FALSE)
             boot == [stop EXCEPT !.wanted = r.wanted \/ r.mirroring,
                                  !.reg = "Reconnecting", !.reboot = @ + 1]
  <1>1. ~(r.wanted \/ r.mirroring) BY DEF Withdrawn, Kind, Sound
  <1>2. SameSession(r, away) BY DEF Kind, SameSession, Device
  <1>3. RebootDevice(r) = boot BY DEF RebootDevice
  <1> HIDE DEF away
  <1>4. Kind(away) /\ away.stopped = r.stopped BY <1>2, SameSessionKeeps DEF SameSession
  <1>5. stop \in Device /\ stop.stopped
    BY <1>4, StopMirrorWithdraws, StopMirrorKeeps DEF Withdrawn, SameWish, Kind
  <1> HIDE DEF stop
  <1> QED BY <1>1, <1>3, <1>5 DEF Withdrawn, Device

LEMMA RebootOverStays ==
  ASSUME NEW r, Kind(r)
  PROVE  StaysWithdrawn(r, RebootOver(r))
  <1> DEFINE due == [r EXCEPT !.tries = 2, !.rebooting = FALSE]
  <1>1. SameSession(r, due) BY TriesValues DEF Kind, SameSession, Device
  <1>2. Withdrawn(r) => RebootOver(r) \in {r, due}
    <2> HIDE DEF due
    <2> QED BY DEF RebootOver, due, Withdrawn
  <1> HIDE DEF due
  <1>3. StaysWithdrawn(r, due) BY <1>1, SameSessionSameWish
  <1> QED BY <1>2, <1>3 DEF StaysWithdrawn

LEMMA ListingStays ==
  ASSUME NEW r, Kind(r), NEW d, NEW row \in AllRows
  PROVE  StaysWithdrawn(r, Listing(d, r, row))
  <1> SUFFICES ASSUME Withdrawn(r) PROVE Withdrawn(Listing(d, r, row)) BY DEF StaysWithdrawn
  <1> DEFINE up  == Upsert(r, row)
             now == [up EXCEPT !.online = row = "device"]
  <1>1. SameSession(r, up) BY UpsertSame DEF Kind
  <1>2. Listing(d, r, row) \in {OnDeviceAppeared(d, now), OnDeviceDisappeared(now), now}
    <2>1. Listing(d, r, row) =
            CASE row = "device" /\ ~r.online -> OnDeviceAppeared(d, now)
              [] row # "device" /\ r.online  -> OnDeviceDisappeared(now)
              [] OTHER -> now
      BY DEF Listing
    <2> HIDE DEF now
    <2> QED BY <2>1
  <1> HIDE DEF up
  <1>3. SameSession(up, now) BY <1>1 DEF SameSession, Device
  <1> HIDE DEF now
  <1>4. now \in Device /\ Withdrawn(now) BY <1>1, <1>3 DEF SameSession, Withdrawn
  <1>5. Withdrawn(OnDeviceAppeared(d, now))
    <2> DEFINE here == [now EXCEPT !.rebooting = FALSE]
               back == CancelReconnect(here)
    <2>1. here \in Device /\ Withdrawn(here) BY <1>4 DEF Device, Withdrawn
    <2> HIDE DEF here
    <2>2. back \in Device /\ Withdrawn(back)
      BY <2>1, CancelReconnectSame DEF SameSession, Withdrawn
    <2> HIDE DEF back
    <2>3. OnDeviceAppeared(d, now) = back BY <1>4 DEF OnDeviceAppeared, Withdrawn, back, here
    <2> QED BY <2>2, <2>3
  <1>6. Withdrawn(OnDeviceDisappeared(now))
    <2>1. SameSession(now, Reschedule(now)) BY <1>4, RescheduleSame
    <2>2. SameWish(now, CoreDisconnect(now)) BY <1>4, CoreDisconnectEnds DEF SameWish
    <2> QED BY <1>4, <2>1, <2>2 DEF OnDeviceDisappeared, SameSession, SameWish, Withdrawn
  <1> QED BY <1>2, <1>4, <1>5, <1>6

LEMMA NormalizeAnswerStays ==
  ASSUME NEW r, Kind(r), NEW ok \in BOOLEAN, NEW portFree \in BOOLEAN, r.norm > 0
  PROVE  LET s == [r EXCEPT !.norm = @ - 1]
         IN  StaysWithdrawn(r, IF s.starting
                                 THEN LaunchCore([s EXCEPT !.normalized = @ \/ ok], portFree)
                                 ELSE s)
  <1> DEFINE s == [r EXCEPT !.norm = @ - 1]
             t == [s EXCEPT !.normalized = @ \/ ok]
  <1>1. s \in Device /\ SameWish(r, s) BY DEF Kind, Device, SameWish
  <1> HIDE DEF s
  <1>2. t \in Device /\ SameWish(s, t) BY <1>1 DEF Device, SameWish
  <1> HIDE DEF t
  <1>3. SameWish(t, LaunchCore(t, portFree)) BY <1>2, LaunchCoreSameWish
  <1> QED BY <1>1, <1>2, <1>3 DEF s, t, SameWish, StaysWithdrawn, Withdrawn

LEMMA DialAnswerStays ==
  ASSUME NEW r, Kind(r), r.dial > 0, NEW ok \in BOOLEAN
  PROVE  LET s == [r EXCEPT !.dial = @ - 1]
         IN  StaysWithdrawn(r, IF ok THEN [s EXCEPT !.probe = @ + 1]
                                     ELSE ScheduleReconnect(SetState(s, "Reconnecting")))
  <1> DEFINE s == [r EXCEPT !.dial = @ - 1]
             t == SetState(s, "Reconnecting")
             p == [s EXCEPT !.probe = @ + 1]
  <1>1. s \in Device /\ SameWish(r, s) BY DEF Kind, Device, SameWish
  <1> HIDE DEF s
  <1>2. SameWish(s, p) BY <1>1 DEF Device, SameWish
  <1>3. "Reconnecting" \in RegStates BY DEF RegStates
  <1>4. t \in Device /\ SameSession(s, t) BY <1>1, <1>3, SetStateSame DEF SameSession
  <1> HIDE DEF t, p
  <1>5. SameWish(t, ScheduleReconnect(t)) BY <1>4, ScheduleReconnectSame, SameSessionSameWish
  <1>6. SameWish(s, t) BY <1>4, SameSessionSameWish
  <1> QED BY <1>1, <1>2, <1>5, <1>6 DEF s, t, p, SameWish, StaysWithdrawn, Withdrawn

LEMMA ProbeAnswerStays ==
  ASSUME NEW r, Kind(r), r.probe > 0, NEW ok \in BOOLEAN
  PROVE  LET s == [r EXCEPT !.probe = @ - 1]
         IN  StaysWithdrawn(r, IF ok THEN [s EXCEPT !.reg = "AdbOnline",
                                                    !.queued = @ \/ ~(s.mirroring \/ s.starting)]
                                     ELSE ScheduleReconnect(s))
  <1> DEFINE s == [r EXCEPT !.probe = @ - 1]
             t == [s EXCEPT !.reg = "AdbOnline", !.queued = @ \/ ~(s.mirroring \/ s.starting)]
  <1>1. s \in Device /\ SameWish(r, s) BY DEF Kind, Device, SameWish
  <1> HIDE DEF s
  <1>2. SameWish(s, t) BY <1>1 DEF Device, SameWish
  <1> HIDE DEF t
  <1>3. SameWish(s, ScheduleReconnect(s)) BY <1>1, ScheduleReconnectSame, SameSessionSameWish
  <1> QED BY <1>1, <1>2, <1>3 DEF s, t, SameWish, StaysWithdrawn, Withdrawn

LEMMA WatchdogStays ==
  ASSUME NEW r, Kind(r)
  PROVE  LET s == [r EXCEPT !.watchdog = FALSE]
         IN  StaysWithdrawn(r, IF s.starting THEN FinishStart(CoreDisconnect(s), FALSE) ELSE s)
  <1> DEFINE s == [r EXCEPT !.watchdog = FALSE]
             t == CoreDisconnect(s)
  <1>1. s \in Device /\ SameWish(r, s) BY DEF Kind, Device, SameWish
  <1> HIDE DEF s
  <1>2. t \in Device /\ SameWish(s, t) BY <1>1, CoreDisconnectEnds DEF SameWish
  <1> HIDE DEF t
  <1>3. SameWish(t, FinishStart(t, FALSE)) BY <1>2, FinishStartSameWish
  <1> QED BY <1>1, <1>2, <1>3 DEF s, t, SameWish, StaysWithdrawn, Withdrawn

LEMMA RetryStays ==
  ASSUME NEW r, Kind(r), NEW d
  PROVE  StaysWithdrawn(r, AttemptReconnect(d, [r EXCEPT !.retry = FALSE]))
  <1> DEFINE s == [r EXCEPT !.retry = FALSE]
  <1>1. s \in Device /\ SameWish(r, s) BY DEF Kind, Device, SameWish
  <1> HIDE DEF s
  <1>2. SameWish(s, AttemptReconnect(d, s)) BY <1>1, AttemptReconnectSame, SameSessionSameWish
  <1> QED BY <1>1, <1>2 DEF s, SameWish, StaysWithdrawn, Withdrawn

LEMMA CoreSignalsStay ==
  ASSUME NEW r, Kind(r)
  PROVE  /\ StaysWithdrawn(r, FinishStart([r EXCEPT !.core = "live"], TRUE))
         /\ StaysWithdrawn(r, FinishStart([r EXCEPT !.core = "absent", !.lease = FALSE], FALSE))
         /\ StaysWithdrawn(r, [r EXCEPT !.core = "zombie"])
         /\ StaysWithdrawn(r, CoreDisconnect(r))
  <1> DEFINE u == [r EXCEPT !.core = "live"]
             f == [r EXCEPT !.core = "absent", !.lease = FALSE]
             z == [r EXCEPT !.core = "zombie"]
  <1>1. /\ u \in Device /\ SameWish(r, u) /\ f \in Device /\ SameWish(r, f) /\ SameWish(r, z)
    BY DEF Kind, Device, CoreStates, SameWish
  <1>2. SameWish(r, CoreDisconnect(r)) BY CoreDisconnectEnds DEF Kind, SameWish
  <1> HIDE DEF u, f, z
  <1>3. SameWish(u, FinishStart(u, TRUE)) /\ SameWish(f, FinishStart(f, FALSE))
    BY <1>1, FinishStartSameWish
  <1> QED BY <1>1, <1>2, <1>3 DEF u, f, z, SameWish, StaysWithdrawn, Withdrawn

-----------------------------------------------------------------------------
(* The steps.                                                              *)

WInv == /\ IInv
        /\ \A d \in Dev : barred[d] = "stop" => Withdrawn(dev[d])

LEMMA HandleWInv ==
  ASSUME WInv, IInv', NEW d \in Dev, NEW r \in Device, Handle(d, r),
         \A e \in Dev \ {d} : barred'[e] = barred[e],
         barred'[d] = "stop" => Withdrawn(r)
  PROVE  WInv'
  <1> DEFINE dv == [dev EXCEPT ![d] = r]
  <1>1. dv \in [Dev -> Device] /\ \A e \in Dev : dv[e] = IF e = d THEN r ELSE dev[e]
    BY DEF WInv, IInv, TypeOK
  <1>2. Settle(dv) BY DEF Handle
  <1> HIDE DEF dv
  <1>3. \A e \in Dev : SameWish(dv[e], dev'[e]) BY <1>1, <1>2, SettleSameWish
  <1>4. \A e \in Dev : barred'[e] = "stop" => Withdrawn(dv[e])
    BY <1>1 DEF WInv
  <1> QED BY <1>3, <1>4 DEF WInv, SameWish, Withdrawn

LEMMA QuietWInv ==
  ASSUME WInv, IInv', barred' = barred, NEW d \in Dev, NEW r, Kind(r), Handle(d, r),
         StaysWithdrawn(dev[d], r)
  PROVE  WInv'
  <1>1. barred'[d] = "stop" => Withdrawn(r) BY DEF WInv, StaysWithdrawn
  <1>2. r \in Device BY DEF Kind
  <1> QED BY <1>1, <1>2, HandleWInv

LEMMA OrderedWInv ==
  ASSUME WInv, IInv', NEW d \in Dev, NEW r, Kind(r), NEW name, NEW mark,
         Order(name, d, mark), Handle(d, r), mark = "stop" => Withdrawn(r)
  PROVE  WInv'
  <1>1. barred' = [barred EXCEPT ![d] = mark] /\ barred \in [Dev -> Bars]
    BY DEF Order, WInv, IInv, TypeOK
  <1>2. barred'[d] = mark /\ \A e \in Dev \ {d} : barred'[e] = barred[e] BY <1>1
  <1>3. r \in Device BY DEF Kind
  <1> QED BY <1>2, <1>3, HandleWInv

LEMMA OperatorWInv == WInv /\ IInv' /\ Operator => WInv'
  <1> SUFFICES ASSUME WInv, IInv', Operator PROVE WInv' OBVIOUS
  <1>1. ASSUME ~down PROVE \A d \in Dev : Kind(dev[d]) BY <1>1 DEF WInv, IInv, TypeOK, Kind
  <1>2. ASSUME NEW d \in Dev, Mirror(d) PROVE WInv'
    <2>1. Kind(StartMirror(d, dev[d])) BY <1>1, <1>2, StartMirrorKeeps DEF Mirror, Handle
    <2> QED BY <1>2, <2>1, OrderedWInv DEF Mirror
  <1>3. ASSUME NEW d \in Dev, Stop(d) PROVE WInv'
    <2>1. Kind(StopMirror(dev[d], TRUE)) /\ Withdrawn(StopMirror(dev[d], TRUE))
      BY <1>1, <1>3, StopMirrorKeeps, StopMirrorWithdraws DEF Stop, Handle
    <2> QED BY <1>3, <2>1, OrderedWInv DEF Stop
  <1>4. ASSUME NEW d \in Dev, Restart(d) PROVE WInv'
    <2>1. Kind(RestartMirror(dev[d])) /\ StaysWithdrawn(dev[d], RestartMirror(dev[d]))
      BY <1>1, <1>4, RestartMirrorKeeps, RestartMirrorStays DEF Restart, Handle
    <2> QED BY <1>4, <2>1, QuietWInv DEF Restart, Plain
  <1>5. ASSUME NEW d \in Dev, Reconnect(d) PROVE WInv'
    <2>1. Kind(ReconnectDevice(d, dev[d])) BY <1>1, <1>5, ReconnectDeviceKeeps DEF Reconnect, Handle
    <2> QED BY <1>5, <2>1, OrderedWInv DEF Reconnect
  <1>6. ASSUME NEW d \in Dev, Disconnect(d) PROVE WInv'
    <2>1. Kind(DisconnectDevice(d, dev[d])) /\ Withdrawn(DisconnectDevice(d, dev[d]))
      BY <1>1, <1>6, DisconnectDeviceKeeps, DisconnectDeviceWithdraws DEF Disconnect, Handle
    <2> QED BY <1>6, <2>1, OrderedWInv DEF Disconnect
  <1>7. ASSUME NEW d \in Dev, Reboot(d) PROVE WInv'
    <2>1. Kind(RebootDevice(dev[d])) /\ StaysWithdrawn(dev[d], RebootDevice(dev[d]))
      BY <1>1, <1>7, RebootDeviceKeeps, RebootDeviceStays DEF Reboot, Handle
    <2> QED BY <1>7, <2>1, QuietWInv DEF Reboot, Plain
  <1>8. ASSUME NEW d \in Dev, ConnectIp(d) PROVE WInv'
    <2>1. Kind(dev[d]) BY <1>1, <1>8 DEF ConnectIp, Handle
    <2>2. SameSession(dev[d], ConnectEndpoint(dev[d])) BY <2>1, ConnectEndpointSame DEF Kind
    <2>3. Kind(ConnectEndpoint(dev[d])) /\ StaysWithdrawn(dev[d], ConnectEndpoint(dev[d]))
      BY <2>1, <2>2, SameSessionKeeps, SameSessionSameWish
    <2> QED BY <1>8, <2>3, QuietWInv DEF ConnectIp, Plain
  <1>9. ASSUME NEW n \in LimitRange, SetLimit(n) PROVE WInv'
    <2>1. dev \in [Dev -> Device] /\ Settle(dev) /\ barred' = barred
      BY <1>9 DEF SetLimit, Plain, WInv, IInv, TypeOK
    <2>2. \A d \in Dev : SameWish(dev[d], dev'[d]) BY <2>1, SettleSameWish
    <2> QED BY <2>1, <2>2 DEF WInv, SameWish, Withdrawn
  <1> QED BY <1>2, <1>3, <1>4, <1>5, <1>6, <1>7, <1>8, <1>9 DEF Operator

LEMMA AdbWInv == WInv /\ IInv' /\ Adb => WInv'
  <1> SUFFICES ASSUME WInv, IInv', Adb PROVE WInv' OBVIOUS
  <1>1. ASSUME ~down PROVE \A d \in Dev : Kind(dev[d]) BY <1>1 DEF WInv, IInv, TypeOK, Kind
  <1>2. ASSUME NEW d \in Dev, NEW ok \in BOOLEAN, DialAnswer(d, ok) PROVE WInv'
    <2>1. dev[d].dial > 0 /\ Kind(dev[d]) BY <1>1, <1>2 DEF DialAnswer, Event, Handle
    <2> QED BY <1>2, <2>1, DialAnswerKeeps, DialAnswerStays, QuietWInv DEF DialAnswer, Event
  <1>3. ASSUME NEW d \in Dev, NEW ok \in BOOLEAN, ProbeAnswer(d, ok) PROVE WInv'
    <2>1. dev[d].probe > 0 /\ Kind(dev[d]) BY <1>1, <1>3 DEF ProbeAnswer, Event, Handle
    <2> QED BY <1>3, <2>1, ProbeAnswerKeeps, ProbeAnswerStays, QuietWInv DEF ProbeAnswer, Event
  <1>4. ASSUME NEW d \in Dev, NEW ok \in BOOLEAN, ConnectAnswer(d, ok) PROVE WInv'
    <2> DEFINE s == [dev[d] EXCEPT !.connecting = FALSE,
                                   !.reg = IF ok THEN "Discovered" ELSE "Offline"]
    <2>1. Kind(dev[d]) BY <1>1, <1>4 DEF ConnectAnswer, Event, Handle
    <2>2. StaysWithdrawn(dev[d], s) BY <2>1 DEF StaysWithdrawn, Withdrawn, Kind, Device
    <2> QED BY <1>4, <2>1, <2>2, ConnectAnswerKeeps, QuietWInv DEF ConnectAnswer, Event
  <1>5. ASSUME NEW d \in Dev, NEW ok \in BOOLEAN, NEW portFree \in BOOLEAN,
               NormalizeAnswer(d, ok, portFree)
        PROVE  WInv'
    <2>1. dev[d].norm > 0 /\ Kind(dev[d]) BY <1>1, <1>5 DEF NormalizeAnswer, Event, Handle
    <2> QED BY <1>5, <2>1, NormalizeAnswerKeeps, NormalizeAnswerStays, QuietWInv
         DEF NormalizeAnswer, Event
  <1>6. ASSUME NEW d \in Dev, RebootAnswer(d) PROVE WInv'
    <2> DEFINE s == [dev[d] EXCEPT !.reboot = @ - 1, !.rebootWait = @ + 1]
    <2>1. dev[d].reboot > 0 /\ Kind(dev[d]) BY <1>1, <1>6 DEF RebootAnswer, Event, Handle
    <2>2. StaysWithdrawn(dev[d], s) BY <2>1 DEF StaysWithdrawn, Withdrawn, Kind, Device
    <2> QED BY <1>6, <2>1, <2>2, RebootAnswerKeeps, QuietWInv DEF RebootAnswer, Event
  <1>7. ASSUME NEW d \in Dev, HangupAnswer(d) PROVE WInv'
    <2> DEFINE s == [dev[d] EXCEPT !.hangup = @ - 1, !.reg = "Offline"]
    <2>1. dev[d].hangup > 0 /\ Kind(dev[d]) BY <1>1, <1>7 DEF HangupAnswer, Event, Handle
    <2>2. StaysWithdrawn(dev[d], s) BY <2>1 DEF StaysWithdrawn, Withdrawn, Kind, Device
    <2> QED BY <1>7, <2>1, <2>2, HangupAnswerKeeps, QuietWInv DEF HangupAnswer, Event
  <1>8. ASSUME NEW rows \in [Dev -> Rows], Refresh(rows) PROVE WInv'
    <2> DEFINE dv == [d \in Dev |-> Listing(d, dev[d], rows[d])]
    <2>1. ~down /\ barred' = barred /\ Settle(dv) BY <1>8 DEF Refresh
    <2>2. \A d \in Dev : rows[d] \in AllRows /\ Kind(dev[d]) BY <1>1, <2>1, InputAssumption
    <2>3. \A d \in Dev : Kind(dv[d]) /\ StaysWithdrawn(dev[d], dv[d])
      BY <2>2, ListingKeeps, ListingStays
    <2>4. dv \in [Dev -> Device] BY <2>3 DEF Kind
    <2> HIDE DEF dv
    <2>5. \A d \in Dev : SameWish(dv[d], dev'[d]) BY <2>1, <2>4, SettleSameWish
    <2> QED BY <2>1, <2>3, <2>5 DEF WInv, SameWish, StaysWithdrawn, Withdrawn
  <1>9. (IF PortsRunOut THEN BOOLEAN ELSE {TRUE}) \subseteq BOOLEAN OBVIOUS
  <1> QED BY <1>2, <1>3, <1>4, <1>5, <1>6, <1>7, <1>8, <1>9 DEF Adb

LEMMA TimerWInv == WInv /\ IInv' /\ Timer => WInv'
  <1> SUFFICES ASSUME WInv, IInv', Timer PROVE WInv' OBVIOUS
  <1>1. ASSUME ~down PROVE \A d \in Dev : Kind(dev[d]) BY <1>1 DEF WInv, IInv, TypeOK, Kind
  <1>2. ASSUME NEW d \in Dev, WatchdogFires(d) PROVE WInv'
    <2>1. Kind(dev[d]) BY <1>1, <1>2 DEF WatchdogFires, Event, Handle
    <2> QED BY <1>2, <2>1, WatchdogFiresKeeps, WatchdogStays, QuietWInv DEF WatchdogFires, Event
  <1>3. ASSUME NEW d \in Dev, RetryFires(d) PROVE WInv'
    <2>1. Kind(dev[d]) BY <1>1, <1>3 DEF RetryFires, Event, Handle
    <2> QED BY <1>3, <2>1, RetryFiresKeeps, RetryStays, QuietWInv DEF RetryFires, Event
  <1>4. ASSUME NEW d \in Dev, RestartFires(d) PROVE WInv'
    <2> DEFINE r == StartMirror(d, [dev[d] EXCEPT !.restart = @ - 1])
    <2>1. dev[d].restart > 0 /\ Kind(dev[d]) BY <1>1, <1>4 DEF RestartFires, Handle
    <2>2. Handle(d, r) BY <1>4 DEF RestartFires
    <2>3. Kind(r) BY <2>1, RestartFiresKeeps
    <2>4. barred \in [Dev -> Bars] BY DEF WInv, IInv, TypeOK
    <2>5. barred'[d] # "stop" /\ \A e \in Dev \ {d} : barred'[e] = barred[e]
      BY <1>4, <2>4 DEF RestartFires
    <2> HIDE DEF r
    <2> QED BY <2>2, <2>3, <2>5, HandleWInv DEF Kind
  <1>5. ASSUME NEW d \in Dev, RebootWaitFires(d) PROVE WInv'
    <2> DEFINE s == [dev[d] EXCEPT !.rebootWait = @ - 1]
    <2>1. dev[d].rebootWait > 0 /\ Kind(dev[d]) BY <1>1, <1>5 DEF RebootWaitFires, Event, Handle
    <2>2. Kind(RebootOver(s)) BY <2>1, RebootWaitFiresKeeps
    <2>3. s \in Device /\ SameSession(dev[d], s) BY <2>1 DEF Kind, Device, SameSession
    <2>4. Event(d, RebootOver(s)) BY <1>5 DEF RebootWaitFires
    <2> HIDE DEF s
    <2>5. StaysWithdrawn(dev[d], RebootOver(s))
      BY <2>1, <2>3, SameSessionKeeps, SameSessionSameWish, RebootOverStays DEF StaysWithdrawn
    <2> QED BY <2>2, <2>4, <2>5, QuietWInv DEF Event
  <1> QED BY <1>2, <1>3, <1>4, <1>5 DEF Timer

LEMMA CoreWInv == WInv /\ IInv' /\ Core => WInv'
  <1> SUFFICES ASSUME WInv, IInv', Core PROVE WInv' OBVIOUS
  <1>1. ASSUME ~down PROVE \A d \in Dev : Kind(dev[d]) BY <1>1 DEF WInv, IInv, TypeOK, Kind
  <1>2. ASSUME NEW d \in Dev, CoreUp(d) PROVE WInv'
    <2>1. dev[d].core = "starting" /\ Kind(dev[d]) BY <1>1, <1>2 DEF CoreUp, Event, Handle
    <2> QED BY <1>2, <2>1, CoreUpKeeps, CoreSignalsStay, QuietWInv DEF CoreUp, Event
  <1>3. ASSUME NEW d \in Dev, CoreFails(d) PROVE WInv'
    <2>1. dev[d].core = "starting" /\ Kind(dev[d]) BY <1>1, <1>3 DEF CoreFails, Event, Handle
    <2> QED BY <1>3, <2>1, CoreFailsKeeps, CoreSignalsStay, QuietWInv DEF CoreFails, Event
  <1>4. ASSUME NEW d \in Dev, CoreExits(d) PROVE WInv'
    <2>1. dev[d].core = "starting" /\ Kind(dev[d]) BY <1>1, <1>4 DEF CoreExits, Event, Handle
    <2> QED BY <1>4, <2>1, CoreExitsKeeps, CoreSignalsStay, QuietWInv DEF CoreExits, Event
  <1>5. ASSUME NEW d \in Dev, CoreDrops(d) PROVE WInv'
    <2>1. Kind(dev[d]) BY <1>1, <1>5 DEF CoreDrops, Event, Handle
    <2> QED BY <1>5, <2>1, CoreDisconnectKeeps, CoreSignalsStay, QuietWInv DEF CoreDrops, Event
  <1> QED BY <1>2, <1>3, <1>4, <1>5 DEF Core

LEMMA NextWInv == WInv /\ [Next]_vars => WInv'
  <1> SUFFICES ASSUME WInv, [Next]_vars PROVE WInv' OBVIOUS
  <1>1. IInv' BY NextIInv DEF WInv
  <1>2. CASE Shutdown
    <2>1. \A d \in Dev : dev[d] \in Device BY DEF WInv, IInv, TypeOK
    <2>2. barred' = barred /\ \A d \in Dev : dev'[d] = ShutdownDevice(dev[d]) BY <1>2 DEF Shutdown
    <2>3. \A r \in Device : SameWish(r, ShutdownDevice(r)) BY DEF ShutdownDevice, SameWish, Device
    <2> QED BY <1>1, <2>1, <2>2, <2>3 DEF WInv, SameWish, Withdrawn
  <1>3. CASE UNCHANGED vars
    <2>1. dev' = dev /\ barred' = barred BY <1>3 DEF vars
    <2> QED BY <1>1, <2>1 DEF WInv
  <1> QED BY <1>1, <1>2, <1>3, OperatorWInv, AdbWInv, TimerWInv, CoreWInv DEF Next

\* The operator's Stop keeps a device down until he asks for it again or the timer of
\* an earlier Restart overrules him (deviceservice.cpp:452), whatever comes back late.
THEOREM MirrorStopIsKept == Spec => []StopIsKept
  <1>1. Init => WInv
    <2> SUFFICES ASSUME Init PROVE WInv OBVIOUS
    <2>1. \A d \in Dev : barred[d] # "stop" BY DEF Init
    <2> QED BY <2>1, InitIInv DEF WInv
  <1>2. WInv => StopIsKept BY DEF WInv, IInv, Sound, Withdrawn, Runs, StopIsKept
  <1> QED BY <1>1, <1>2, NextWInv, PTL DEF Spec

-----------------------------------------------------------------------------
(* The start slots, the queue, the leases and the core's entries.  First what *)
(* each handler does to the fields that matter here, before the pump; then   *)
(* what the pump makes of the queue; then the steps, and what they implement. *)

\* A handler that touches nothing of the slot, the session and the queue.
Untouched(r, s) ==
  /\ s.starting = r.starting /\ s.mirroring = r.mirroring /\ s.queued = r.queued
  /\ s.core = r.core /\ s.lease = r.lease /\ s.norm = r.norm

\* A device whose sessions and starts all stand on a lease and hold a slot.
Leased(r) ==
  /\ r.norm = 0
  /\ r.core = "starting" => r.starting
  /\ r.core \in {"starting", "live"} => r.lease

\* What a handler may do to a device before the pump.
Handled(r, s) ==
  /\ s.starting => r.starting
  /\ s.mirroring => r.mirroring \/ r.core = "starting"
  /\ s.queued => r.queued \/ ~(r.mirroring \/ r.starting)
  /\ Entry!Moves(r.core, s.core)
  /\ Leased(r) => Leased(s)

LEMMA UntouchedIsHandled ==
  ASSUME NEW r, NEW s, Untouched(r, s)
  PROVE  Handled(r, s)
  BY DEF Untouched, Handled, Leased, Entry!Moves

LEMMA UntouchedThenHandled ==
  ASSUME NEW r, NEW t, NEW s, Untouched(r, t), Handled(t, s)
  PROVE  Handled(r, s)
  BY DEF Untouched, Handled, Leased

LEMMA HandledThenUntouched ==
  ASSUME NEW r, NEW t, NEW s, Handled(r, t), Untouched(t, s)
  PROVE  Handled(r, s)
  BY DEF Untouched, Handled, Leased

LEMMA UntouchedTwice ==
  ASSUME NEW r, NEW t, NEW s, Untouched(r, t), Untouched(t, s)
  PROVE  Untouched(r, s)
  BY DEF Untouched

-----------------------------------------------------------------------------
(* The handlers that touch nothing of it.                                  *)

LEMMA CountersUntouched ==
  ASSUME NEW r \in Device, NEW n
  PROVE  /\ Untouched(r, [r EXCEPT !.dial = n])    /\ Untouched(r, [r EXCEPT !.probe = n])
         /\ Untouched(r, [r EXCEPT !.restart = n]) /\ Untouched(r, [r EXCEPT !.reboot = n])
         /\ Untouched(r, [r EXCEPT !.hangup = n])  /\ Untouched(r, [r EXCEPT !.rebootWait = n])
  BY DEF Untouched, Device

LEMMA SetStateUntouched ==
  ASSUME NEW r \in Device, NEW s
  PROVE  Untouched(r, SetState(r, s))
  BY DEF SetState, Untouched, Device

LEMMA CancelReconnectUntouched ==
  ASSUME NEW r \in Device
  PROVE  Untouched(r, CancelReconnect(r))
  BY DEF CancelReconnect, Untouched, Device

LEMMA ScheduleReconnectUntouched ==
  ASSUME NEW r \in Device
  PROVE  Untouched(r, ScheduleReconnect(r))
  <1>1. CASE r.rebooting BY <1>1 DEF ScheduleReconnect, Untouched
  <1>2. CASE ~r.rebooting /\ GivenUp(r) BY <1>2, SetStateUntouched DEF ScheduleReconnect
  <1>3. CASE ~r.rebooting /\ ~GivenUp(r)
    <2> DEFINE n == IF MaxAttempts = 0 THEN r.tries ELSE r.tries + 1
               s == [r EXCEPT !.tries = n, !.reg = "Reconnecting", !.retry = TRUE]
    <2>1. ScheduleReconnect(r) = s BY <1>3 DEF ScheduleReconnect
    <2> HIDE DEF n
    <2>2. Untouched(r, s) BY DEF Untouched, Device
    <2> QED BY <2>1, <2>2
  <1> QED BY <1>1, <1>2, <1>3

LEMMA RescheduleUntouched ==
  ASSUME NEW r \in Device
  PROVE  Untouched(r, Reschedule(r))
  BY ScheduleReconnectUntouched DEF Reschedule, Untouched

LEMMA AttemptReconnectUntouched ==
  ASSUME NEW r \in Device, NEW d
  PROVE  Untouched(r, AttemptReconnect(d, r))
  <1> DEFINE n == r.dial + 1
             m == r.probe + 1
  <1>1. AttemptReconnect(d, r) \in {r, [r EXCEPT !.dial = n], [r EXCEPT !.probe = m]}
    BY DEF AttemptReconnect
  <1> HIDE DEF n, m
  <1>2. Untouched(r, r) BY DEF Untouched
  <1> QED BY <1>1, <1>2, CountersUntouched

LEMMA ConnectEndpointUntouched ==
  ASSUME NEW r \in Device
  PROVE  Untouched(r, ConnectEndpoint(r))
  <1> DEFINE known == IF r.reg \in {"Unknown", "Offline"} THEN SetState(r, "Discovered") ELSE r
             asked == [known EXCEPT !.connecting = TRUE, !.reg = "Connecting"]
  <1>1. known \in Device /\ Untouched(r, known)
    <2>1. "Discovered" \in RegStates BY DEF RegStates
    <2>2. Untouched(r, r) BY DEF Untouched
    <2> QED BY <2>1, <2>2, SetStateSame, SetStateUntouched DEF SameSession
  <1> HIDE DEF known
  <1>2. Untouched(known, asked) BY <1>1 DEF Untouched, Device
  <1>3. Untouched(r, asked) BY <1>1, <1>2, UntouchedTwice
  <1>4. ConnectEndpoint(r) \in {known, asked} BY DEF ConnectEndpoint, known
  <1> HIDE DEF asked
  <1> QED BY <1>1, <1>3, <1>4

LEMMA UpsertUntouched ==
  ASSUME NEW r \in Device, NEW row \in AllRows
  PROVE  Untouched(r, Upsert(r, row))
  <1> DEFINE listed == [r EXCEPT !.adbDevice = row = "device"]
  <1>1. listed \in Device /\ Untouched(r, listed) BY DEF Untouched, Device
  <1>2. Upsert(r, row) \in {listed, r} \cup
          {SetState(listed, s) : s \in {"AdbOnline", "Unauthorized", "Offline", "Error"}} \cup
          {SetState(r, "Offline")}
    <2> HIDE DEF listed
    <2>1. CASE row = "device" BY <2>1 DEF Upsert, listed
    <2>2. CASE row = "unauthorized" BY <2>2 DEF Upsert, listed
    <2>3. CASE row = "offline" BY <2>3 DEF Upsert, listed
    <2>4. CASE row = "gone" BY <2>4 DEF Upsert, listed
    <2>5. CASE row = "other" BY <2>5 DEF Upsert, listed
    <2> QED BY <2>1, <2>2, <2>3, <2>4, <2>5 DEF AllRows
  <1> HIDE DEF listed
  <1>3. Untouched(r, r) BY DEF Untouched
  <1>4. ASSUME NEW s PROVE Untouched(r, SetState(listed, s)) /\ Untouched(r, SetState(r, s))
    BY <1>1, SetStateUntouched, UntouchedTwice
  <1> QED BY <1>1, <1>2, <1>3, <1>4

-----------------------------------------------------------------------------
(* One start, and the end of a session.                                    *)

LEMMA FinishStartSlot ==
  ASSUME NEW r \in Device
  PROVE  /\ FinishStart(r, FALSE).queued = r.queued /\ FinishStart(r, FALSE).norm = r.norm
         /\ LET s == FinishStart(r, TRUE)
            IN  s.queued = r.queued /\ s.norm = r.norm /\ s.lease = r.lease
  <1>1. FinishStart(r, FALSE).queued = r.queued /\ FinishStart(r, FALSE).norm = r.norm
    <2>1. CASE r.starting
      <3> DEFINE f == [r EXCEPT !.starting = FALSE, !.watchdog = FALSE,
                                !.lease = FALSE, !.reg = "Error"]
      <3>1. f \in Device /\ f.queued = r.queued /\ f.norm = r.norm BY DEF Device, RegStates
      <3>2. FinishStart(r, FALSE) = Reschedule(f) BY <2>1 DEF FinishStart
      <3> HIDE DEF f
      <3> QED BY <3>1, <3>2, RescheduleUntouched DEF Untouched
    <2>2. CASE ~r.starting
      <3> DEFINE f == [r EXCEPT !.watchdog = FALSE]
      <3>1. FinishStart(r, FALSE) = f BY <2>2 DEF FinishStart
      <3>2. f.queued = r.queued /\ f.norm = r.norm BY DEF Device
      <3> HIDE DEF f
      <3> QED BY <3>1, <3>2
    <2> QED BY <2>1, <2>2
  <1>2. LET s == FinishStart(r, TRUE)
        IN  s.queued = r.queued /\ s.norm = r.norm /\ s.lease = r.lease
    <2> DEFINE f == [r EXCEPT !.starting = FALSE, !.watchdog = FALSE,
                              !.mirroring = TRUE, !.tries = 0, !.reg = "Mirroring"]
    <2>1. FinishStart(r, TRUE) = f BY DEF FinishStart
    <2>2. f.queued = r.queued /\ f.norm = r.norm /\ f.lease = r.lease BY DEF Device
    <2> HIDE DEF f
    <2> QED BY <2>1, <2>2
  <1> QED BY <1>1, <1>2

\* What a launch does: the core's entry may begin to start, on a lease.
Launched(r, s) ==
  /\ s.queued = r.queued /\ s.norm = r.norm /\ s.mirroring = r.mirroring
  /\ s.starting => r.starting
  /\ s.core = r.core \/ (r.core = "absent" /\ s.core = "starting")
  /\ r.norm = 0 /\ r.core \notin {"starting", "live"} => Leased(s)

LEMMA LaunchCoreLaunches ==
  ASSUME NEW r \in Device, NEW portFree \in BOOLEAN
  PROVE  Launched(r, LaunchCore(r, portFree))
  <1> DEFINE up   == [r EXCEPT !.lease = TRUE, !.core = "starting"]
             back == [r EXCEPT !.lease = FALSE]
  <1>1. LaunchCore(r, portFree) \in {r, FinishStart(r, FALSE), FinishStart(back, FALSE)}
          \/ (r.starting /\ r.core = "absent" /\ LaunchCore(r, portFree) = up)
    <2> HIDE DEF up, back
    <2>1. CASE ~r.starting BY <2>1 DEF LaunchCore
    <2>2. CASE r.starting /\ ~(r.lease \/ portFree) BY <2>2 DEF LaunchCore
    <2>3. CASE r.starting /\ (r.lease \/ portFree) BY <2>3 DEF LaunchCore, up, back
    <2> QED BY <2>1, <2>2, <2>3
  <1>2. Launched(r, r) BY DEF Launched, Leased
  <1>3. \A t \in {r, back} : Launched(r, FinishStart(t, FALSE))
    <2>1. /\ back \in Device /\ back.queued = r.queued /\ back.norm = r.norm
          /\ back.mirroring = r.mirroring /\ back.core = r.core
      BY DEF Device
    <2> HIDE DEF back
    <2> SUFFICES ASSUME NEW t \in {r, back} PROVE Launched(r, FinishStart(t, FALSE))
      OBVIOUS
    <2> DEFINE s == FinishStart(t, FALSE)
    <2>2. /\ t \in Device /\ t.queued = r.queued /\ t.norm = r.norm
          /\ t.mirroring = r.mirroring /\ t.core = r.core
      BY <2>1
    <2>3. /\ ~s.starting /\ s.mirroring = t.mirroring /\ s.core = t.core
          /\ s.queued = t.queued /\ s.norm = t.norm
      BY <2>2, FinishStartFails, FinishStartSlot
    <2> HIDE DEF s
    <2>4. Launched(r, s) BY <2>2, <2>3 DEF Launched, Leased
    <2> QED BY <2>4 DEF s
  <1>4. ASSUME r.starting, r.core = "absent" PROVE Launched(r, up)
    <2>1. /\ up.core = "starting" /\ up.lease /\ up.starting = r.starting
          /\ up.queued = r.queued /\ up.norm = r.norm /\ up.mirroring = r.mirroring
      BY DEF Device
    <2> HIDE DEF up
    <2> QED BY <1>4, <2>1 DEF Launched, Leased
  <1> HIDE DEF up, back
  <1> QED BY <1>1, <1>2, <1>3, <1>4

\* What the pump may do to a device it lets out of the queue.
Begun(r, s) ==
  /\ ~s.queued /\ s.mirroring = r.mirroring
  /\ s.core = r.core \/ (r.core = "absent" /\ s.core = "starting")
  /\ ~Normalize /\ Leased(r) => Leased(s)

LEMMA BeginStartBegins ==
  ASSUME NEW r, Kind(r), ~r.mirroring, ~r.starting, NEW portFree \in BOOLEAN
  PROVE  Begun(r, BeginStart(r, portFree))
  <1> DEFINE begun == [r EXCEPT !.queued = FALSE, !.starting = TRUE, !.watchdog = TRUE,
                                !.reg = "Connecting"]
             slow  == [begun EXCEPT !.norm = @ + 1]
  <1>1. /\ begun \in Device /\ ~begun.queued /\ begun.norm = r.norm
        /\ begun.mirroring = r.mirroring /\ begun.core = r.core
    BY DEF Kind, Device, RegStates
  <1>2. BeginStart(r, portFree) = IF Normalize /\ ~r.normalized THEN slow
                                  ELSE LaunchCore(begun, portFree)
    BY DEF BeginStart
  <1>3. Leased(r) => r.norm = 0 /\ r.core \notin {"starting", "live"}
    BY DEF Leased, Kind, Sound
  <1> HIDE DEF begun
  <1>4. ~slow.queued /\ slow.mirroring = begun.mirroring /\ slow.core = begun.core
    BY <1>1 DEF Device
  <1> HIDE DEF slow
  <1>5. Launched(begun, LaunchCore(begun, portFree)) BY <1>1, LaunchCoreLaunches
  <1> QED BY <1>1, <1>2, <1>3, <1>4, <1>5 DEF Begun, Launched

\* Deleting a Device.
LEMMA CoreDisconnectSlot ==
  ASSUME NEW r \in Device
  PROVE  LET s == CoreDisconnect(r)
         IN  /\ s.queued = r.queued /\ s.norm = r.norm
             /\ Entry!Moves(r.core, s.core)
             /\ s.starting => r.starting
             /\ s.mirroring => r.mirroring
             /\ s.core \notin {"starting", "live"}
  <1>0. r.core \in CoreStates BY DEF Device
  <1>1. CASE r.core = "live"
    <2> DEFINE ended == [r EXCEPT !.mirroring = FALSE]
               free  == [ended EXCEPT !.lease = FALSE]
               e == OnCoreDisconnected(r)
               s == [e EXCEPT !.core = "absent"]
    <2>1. ended \in Device /\ ended.queued = r.queued /\ ended.norm = r.norm BY DEF Device
    <2>2. e.queued = r.queued /\ e.norm = r.norm
      <3>1. CASE r.starting
        <4>1. e = FinishStart(ended, FALSE) BY <3>1 DEF OnCoreDisconnected
        <4> HIDE DEF ended, e
        <4> QED BY <2>1, <4>1, FinishStartSlot
      <3>2. CASE ~r.starting /\ ~r.mirroring BY <3>2 DEF OnCoreDisconnected
      <3>3. CASE ~r.starting /\ r.mirroring
        <4>1. e \in {ScheduleReconnect(free), SetState(free, "AdbOnline"), free}
          <5> HIDE DEF free, ended
          <5>1. OnCoreDisconnected(r) =
                  CASE Pursued(free) -> ScheduleReconnect(free)
                    [] ~Pursued(free) /\ free.reg = "Mirroring" -> SetState(free, "AdbOnline")
                    [] OTHER -> free
            BY <3>3 DEF OnCoreDisconnected, free, ended
          <5> QED BY <5>1
        <4> HIDE DEF ended, e
        <4>2. free \in Device /\ free.queued = ended.queued /\ free.norm = ended.norm
          BY <2>1 DEF Device
        <4> HIDE DEF free
        <4> QED BY <2>1, <4>1, <4>2, ScheduleReconnectUntouched, SetStateUntouched DEF Untouched
      <3> QED BY <3>1, <3>2, <3>3
    <2>3. /\ e \in Device /\ ~e.starting /\ ~e.mirroring BY OnCoreDisconnectedEnds
    <2>4. CoreDisconnect(r) = s BY <1>1 DEF CoreDisconnect
    <2> HIDE DEF e
    <2>5. /\ s.core = "absent" /\ s.starting = e.starting /\ s.mirroring = e.mirroring
          /\ s.queued = e.queued /\ s.norm = e.norm
      BY <2>3 DEF Device
    <2> HIDE DEF s
    <2> QED BY <1>1, <2>2, <2>3, <2>4, <2>5 DEF Entry!Moves, Entry!Ended
  <1>2. CASE r.core \in {"starting", "zombie"}
    <2> DEFINE s == [r EXCEPT !.core = "null"]
    <2>1. CoreDisconnect(r) = s BY <1>2 DEF CoreDisconnect
    <2>2. /\ s.core = "null" /\ s.starting = r.starting /\ s.mirroring = r.mirroring
          /\ s.queued = r.queued /\ s.norm = r.norm
      BY DEF Device
    <2> HIDE DEF s
    <2> QED BY <1>2, <2>1, <2>2 DEF Entry!Moves, Entry!Orphaned
  <1>3. CASE r.core \in {"absent", "null"}
    <2>1. CoreDisconnect(r) = r BY <1>3 DEF CoreDisconnect
    <2> QED BY <1>3, <2>1 DEF Entry!Moves
  <1> QED BY <1>0, <1>1, <1>2, <1>3 DEF CoreStates

LEMMA CoreDisconnectHandled ==
  ASSUME NEW r \in Device
  PROVE  Handled(r, CoreDisconnect(r))
  BY CoreDisconnectSlot DEF Handled, Leased

LEMMA StopMirrorHandled ==
  ASSUME NEW r, Kind(r), NEW byOperator \in BOOLEAN
  PROVE  Handled(r, StopMirror(r, byOperator))
  <1> DEFINE mark == [r EXCEPT !.wanted = FALSE, !.stopped = TRUE]
             wish == IF byOperator THEN CancelReconnect(mark) ELSE r
             bare == [wish EXCEPT !.queued = FALSE, !.starting = FALSE, !.watchdog = FALSE]
             idle == CoreDisconnect(bare)
             lost == [idle EXCEPT !.mirroring = FALSE, !.lease = FALSE]
             over == IF idle.mirroring THEN lost ELSE idle
  <1>1. wish \in Device /\ Untouched(r, wish)
    <2>1. r \in Device BY DEF Kind
    <2>2. mark \in Device /\ Untouched(r, mark) BY <2>1 DEF Untouched, Device
    <2> HIDE DEF mark
    <2>3. CancelReconnect(mark) \in Device /\ Untouched(mark, CancelReconnect(mark))
      BY <2>2, CancelReconnectSame, CancelReconnectUntouched DEF SameSession
    <2>4. Untouched(r, r) BY DEF Untouched
    <2> QED BY <2>1, <2>2, <2>3, <2>4, UntouchedTwice
  <1> HIDE DEF wish
  <1>2. /\ bare \in Device /\ bare.core = r.core /\ bare.norm = r.norm
        /\ bare.mirroring = r.mirroring /\ ~bare.starting /\ ~bare.queued
    BY <1>1 DEF Untouched, Device
  <1> HIDE DEF bare
  <1>3. /\ idle \in Device /\ ~idle.starting /\ ~idle.queued /\ idle.norm = r.norm
        /\ Entry!Moves(r.core, idle.core) /\ idle.core \notin {"starting", "live"}
    BY <1>2, CoreDisconnectSlot, CoreDisconnectEnds
  <1>4. ~idle.mirroring
    <2>1. bare.mirroring <=> bare.core = "live" BY <1>2 DEF Kind, Sound
    <2> QED BY <1>2, <2>1, CoreDisconnectEnds
  <1>5. Handled(r, idle) BY <1>3, <1>4 DEF Handled, Leased
  <1>6. over = idle BY <1>4
  <1>7. StopMirror(r, byOperator) \in
          {over, SetState(over, "AdbOnline"), SetState(over, "Offline")}
    <2>1. StopMirror(r, byOperator) =
            IF over.reg \in {"Mirroring", "Connecting"}
              THEN SetState(over, IF over.adbDevice THEN "AdbOnline" ELSE "Offline")
              ELSE over
      BY DEF StopMirror, wish, bare
    <2> HIDE DEF over
    <2> QED BY <2>1
  <1> HIDE DEF idle, over
  <1> QED BY <1>3, <1>5, <1>6, <1>7, SetStateUntouched, HandledThenUntouched

-----------------------------------------------------------------------------
(* What an operator, a timer or discovery asks for.                        *)

LEMMA RestartMirrorHandled ==
  ASSUME NEW r, Kind(r)
  PROVE  Handled(r, RestartMirror(r))
  <1> DEFINE stop  == StopMirror(r, FALSE)
             n     == stop.restart + 1
             again == [stop EXCEPT !.wanted = TRUE, !.stopped = FALSE, !.restart = n]
  <1>1. stop \in Device /\ Handled(r, stop)
    BY StopMirrorStops, StopMirrorHandled DEF Stopped
  <1>2. RestartMirror(r) \in {stop, again} BY DEF RestartMirror
  <1> HIDE DEF stop, n
  <1>3. Untouched(stop, again) BY <1>1 DEF Untouched, Device
  <1> HIDE DEF again
  <1> QED BY <1>1, <1>2, <1>3, HandledThenUntouched

LEMMA WishUntouched ==
  ASSUME NEW r \in Device
  PROVE  Untouched(r, [r EXCEPT !.stopped = FALSE, !.wanted = TRUE])
  BY DEF Untouched, Device

\* Mirror queues a device that neither runs nor waits; it takes nobody's slot.
LEMMA StartMirrorHandled ==
  ASSUME NEW r, Kind(r), NEW d
  PROVE  LET s == StartMirror(d, r)
         IN  Handled(r, s) /\ s.starting = r.starting /\ (r.queued => s.queued)
  <1> DEFINE wish == [r EXCEPT !.stopped = FALSE, !.wanted = TRUE]
             wait == [wish EXCEPT !.queued = TRUE]
             s    == StartMirror(d, r)
  <1>1. wish \in Device /\ Untouched(r, wish) BY WishKeeps, WishUntouched DEF Kind
  <1>2. \/ s \in {wish, ConnectEndpoint(wish)}
        \/ s = wait /\ ~(r.mirroring \/ r.starting \/ r.queued)
    <2> HIDE DEF wish, wait
    <2>1. CASE r.mirroring \/ r.starting \/ r.queued BY <2>1 DEF StartMirror, wish
    <2>2. CASE ~(r.mirroring \/ r.starting \/ r.queued) BY <2>2 DEF StartMirror, wish, wait
    <2> QED BY <2>1, <2>2
  <1> HIDE DEF wish, s
  <1>3. \A t \in {wish, ConnectEndpoint(wish)} : Untouched(r, t)
    BY <1>1, ConnectEndpointUntouched, UntouchedTwice
  <1>4. CASE s \in {wish, ConnectEndpoint(wish)}
    BY <1>3, <1>4, UntouchedIsHandled DEF Untouched, s
  <1>5. CASE s = wait /\ ~(r.mirroring \/ r.starting \/ r.queued)
    <2>1. /\ wait.starting = r.starting /\ wait.mirroring = r.mirroring /\ wait.core = r.core
          /\ wait.norm = r.norm /\ wait.lease = r.lease /\ wait.queued
      BY <1>1 DEF Untouched, Device
    <2> HIDE DEF wait
    <2>2. Handled(r, wait) BY <1>5, <2>1 DEF Handled, Leased, Entry!Moves
    <2> QED BY <1>5, <2>1, <2>2 DEF s
  <1> QED BY <1>2, <1>4, <1>5

LEMMA ReconnectDeviceHandled ==
  ASSUME NEW r, Kind(r), NEW d
  PROVE  Handled(r, ReconnectDevice(d, r))
  <1> DEFINE mark == [r EXCEPT !.stopped = FALSE, !.wanted = TRUE]
             wish == CancelReconnect(mark)
  <1>1. Kind(mark) /\ Untouched(r, mark) BY WishKeeps, WishUntouched DEF Kind
  <1>2. ReconnectDevice(d, r) \in {RestartMirror(wish), AttemptReconnect(d, wish)}
    BY DEF ReconnectDevice
  <1> HIDE DEF mark
  <1>3. Kind(wish) BY <1>1, CancelReconnectSame, SameSessionKeeps DEF Kind
  <1>4. Untouched(r, wish) BY <1>1, CancelReconnectUntouched, UntouchedTwice DEF Kind
  <1> HIDE DEF wish
  <1>5. Handled(r, RestartMirror(wish)) BY <1>3, <1>4, RestartMirrorHandled, UntouchedThenHandled
  <1>6. Untouched(wish, AttemptReconnect(d, wish)) BY <1>3, AttemptReconnectUntouched DEF Kind
  <1>7. Handled(r, AttemptReconnect(d, wish)) BY <1>4, <1>6, UntouchedTwice, UntouchedIsHandled
  <1> QED BY <1>2, <1>5, <1>7

LEMMA DisconnectDeviceHandled ==
  ASSUME NEW r, Kind(r), NEW d
  PROVE  Handled(r, DisconnectDevice(d, r))
  <1> DEFINE stop == StopMirror(r, TRUE)
             n    == stop.hangup + 1
  <1>1. stop \in Device /\ Handled(r, stop)
    BY StopMirrorStops, StopMirrorHandled DEF Stopped
  <1>2. DisconnectDevice(d, r) \in {stop, [stop EXCEPT !.hangup = n]} BY DEF DisconnectDevice
  <1> HIDE DEF stop, n
  <1>3. Handled(r, [stop EXCEPT !.hangup = n])
    BY <1>1, CountersUntouched, HandledThenUntouched
  <1> QED BY <1>1, <1>2, <1>3

LEMMA RebootDeviceHandled ==
  ASSUME NEW r, Kind(r)
  PROVE  Handled(r, RebootDevice(r))
  <1> DEFINE away == [r EXCEPT !.rebooting = TRUE]
             stop == StopMirror(away, FALSE)
             n    == stop.reboot + 1
             w    == r.wanted \/ r.mirroring
             boot == [stop EXCEPT !.wanted = w, !.reg = "Reconnecting", !.reboot = n]
  <1>1. SameSession(r, away) /\ Untouched(r, away)
    BY DEF Kind, SameSession, Untouched, Device
  <1>2. RebootDevice(r) = boot BY DEF RebootDevice
  <1> HIDE DEF away
  <1>3. Kind(away) BY <1>1, SameSessionKeeps
  <1>4. stop \in Device /\ Handled(away, stop)
    BY <1>3, StopMirrorStops, StopMirrorHandled DEF Stopped
  <1> HIDE DEF stop, n, w
  <1>5. Untouched(stop, boot) BY <1>4 DEF Untouched, Device
  <1> HIDE DEF boot
  <1> QED BY <1>1, <1>2, <1>4, <1>5, HandledThenUntouched, UntouchedThenHandled

LEMMA RebootOverUntouched ==
  ASSUME NEW r \in Device
  PROVE  Untouched(r, RebootOver(r))
  <1> DEFINE due == [r EXCEPT !.tries = 2, !.rebooting = FALSE]
  <1>1. due \in Device /\ Untouched(r, due) BY TriesValues DEF Untouched, Device
  <1>2. RebootOver(r) \in {r, due, ScheduleReconnect(due)}
    <2> HIDE DEF due
    <2>1. CASE ~r.rebooting BY <2>1 DEF RebootOver
    <2>2. CASE r.rebooting /\ r.wanted BY <2>2 DEF RebootOver, due
    <2>3. CASE r.rebooting /\ ~r.wanted BY <2>3 DEF RebootOver, due
    <2> QED BY <2>1, <2>2, <2>3
  <1> HIDE DEF due
  <1>3. Untouched(r, r) BY DEF Untouched
  <1> QED BY <1>1, <1>2, <1>3, ScheduleReconnectUntouched, UntouchedTwice

\* A listing frees no slot and takes nobody out of the queue.
LEMMA ListingHandled ==
  ASSUME NEW r, Kind(r), NEW d, NEW row \in AllRows
  PROVE  LET s == Listing(d, r, row)
         IN  Handled(r, s) /\ s.starting = r.starting /\ (r.queued => s.queued)
  <1> DEFINE up   == Upsert(r, row)
             now  == [up EXCEPT !.online = row = "device"]
             here == [now EXCEPT !.rebooting = FALSE]
             back == CancelReconnect(here)
  <1>1. Kind(up) /\ Untouched(r, up)
    BY UpsertSame, UpsertUntouched, SameSessionKeeps DEF Kind
  <1>2. Listing(d, r, row) \in {OnDeviceAppeared(d, now), OnDeviceDisappeared(now), now}
    <2>1. Listing(d, r, row) =
            CASE row = "device" /\ ~r.online -> OnDeviceAppeared(d, now)
              [] row # "device" /\ r.online  -> OnDeviceDisappeared(now)
              [] OTHER -> now
      BY DEF Listing
    <2> HIDE DEF now
    <2> QED BY <2>1
  <1>3. OnDeviceAppeared(d, now) \in {StartMirror(d, back), back} BY DEF OnDeviceAppeared
  <1>4. OnDeviceDisappeared(now) \in {CoreDisconnect(now), Reschedule(now)}
    BY DEF OnDeviceDisappeared
  <1> HIDE DEF up
  <1>5. SameSession(up, now) /\ Untouched(up, now)
    BY <1>1 DEF Kind, SameSession, Untouched, Device
  <1> HIDE DEF now
  <1>6. Kind(now) /\ Untouched(r, now) BY <1>1, <1>5, SameSessionKeeps, UntouchedTwice
  <1>7. SameSession(now, here) /\ Untouched(now, here)
    BY <1>6 DEF Kind, SameSession, Untouched, Device
  <1> HIDE DEF here
  <1>8. Kind(here) /\ Untouched(r, here) BY <1>6, <1>7, SameSessionKeeps, UntouchedTwice
  <1>9. Kind(back) /\ Untouched(r, back)
    BY <1>8, CancelReconnectSame, CancelReconnectUntouched, SameSessionKeeps, UntouchedTwice
       DEF Kind
  <1> HIDE DEF back
  <1>10. LET s == StartMirror(d, back)
         IN  Handled(r, s) /\ s.starting = r.starting /\ (r.queued => s.queued)
    <2>1. LET s == StartMirror(d, back)
          IN  Handled(back, s) /\ s.starting = back.starting /\ (back.queued => s.queued)
      BY <1>9, StartMirrorHandled
    <2> QED BY <1>9, <2>1, UntouchedThenHandled DEF Untouched
  <1>11. LET s == CoreDisconnect(now)
         IN  Handled(r, s) /\ s.starting = r.starting /\ (r.queued => s.queued)
    <2>1. Handled(r, CoreDisconnect(now))
      BY <1>6, CoreDisconnectHandled, UntouchedThenHandled DEF Kind
    <2>2. CoreDisconnect(now).queued = now.queued BY <1>6, CoreDisconnectSlot DEF Kind
    <2>3. CoreDisconnect(now).starting = now.starting
      <3>1. now.core # "live" => CoreDisconnect(now).starting = now.starting
        BY <1>6, CoreDisconnectEnds DEF Kind
      <3>2. now.core = "live" => CoreDisconnect(now).starting = FALSE /\ now.starting = FALSE
        <4>1. CoreDisconnect(now) \in Device /\ now \in Device
          BY <1>6, CoreDisconnectEnds DEF Kind
        <4>2. CoreDisconnect(now).starting \in BOOLEAN /\ now.starting \in BOOLEAN
          BY <4>1 DEF Device
        <4>3. now.core = "live" => ~CoreDisconnect(now).starting /\ ~now.starting
          BY <1>6, CoreDisconnectEnds DEF Kind, Sound
        <4> QED BY <4>2, <4>3
      <3> QED BY <3>1, <3>2
    <2> QED BY <1>6, <2>1, <2>2, <2>3 DEF Untouched
  <1>12. \A t \in {now, back, Reschedule(now)} :
           Handled(r, t) /\ t.starting = r.starting /\ (r.queued => t.queued)
    <2>1. Untouched(r, Reschedule(now)) BY <1>6, RescheduleUntouched, UntouchedTwice DEF Kind
    <2> QED BY <1>6, <1>9, <2>1, UntouchedIsHandled DEF Untouched
  <1> QED BY <1>2, <1>3, <1>4, <1>10, <1>11, <1>12

-----------------------------------------------------------------------------
(* The answers, timers and core signals.                                   *)

LEMMA NormalizeAnswerHandled ==
  ASSUME NEW r \in Device, r.norm > 0, NEW ok \in BOOLEAN, NEW portFree \in BOOLEAN
  PROVE  LET s == [r EXCEPT !.norm = @ - 1]
         IN  Handled(r, IF s.starting THEN LaunchCore([s EXCEPT !.normalized = @ \/ ok], portFree)
                                      ELSE s)
  <1> DEFINE n == r.norm - 1
             s == [r EXCEPT !.norm = n]
             b == s.normalized \/ ok
             t == [s EXCEPT !.normalized = b]
  <1>1. n \in Nat BY DEF Device
  <1> HIDE DEF n
  <1>2. /\ s \in Device /\ s.starting = r.starting /\ s.mirroring = r.mirroring
        /\ s.core = r.core /\ s.queued = r.queued
    BY <1>1 DEF Device
  <1> HIDE DEF s
  <1>3. b \in BOOLEAN OBVIOUS
  <1> HIDE DEF b
  <1>4. t \in Device /\ Untouched(s, t) BY <1>2, <1>3 DEF Untouched, Device
  <1> HIDE DEF t
  <1>5. Launched(t, LaunchCore(t, portFree)) BY <1>4, LaunchCoreLaunches
  <1>6. ~Leased(r)
    <2>1. r.norm \in Nat BY DEF Device
    <2> QED BY <2>1 DEF Leased
  <1>7. Handled(r, LaunchCore(t, portFree))
    BY <1>2, <1>4, <1>5, <1>6 DEF Handled, Launched, Untouched, Entry!Moves, Entry!Connected
  <1>8. Handled(r, s) BY <1>2, <1>6 DEF Handled, Entry!Moves
  <1> QED BY <1>7, <1>8 DEF n, s, b, t

LEMMA DialAnswerHandled ==
  ASSUME NEW r \in Device, r.dial > 0, NEW ok \in BOOLEAN
  PROVE  LET s == [r EXCEPT !.dial = @ - 1]
         IN  Handled(r, IF ok THEN [s EXCEPT !.probe = @ + 1]
                              ELSE ScheduleReconnect(SetState(s, "Reconnecting")))
  <1> DEFINE n == r.dial - 1
             s == [r EXCEPT !.dial = n]
             p == s.probe + 1
             t == SetState(s, "Reconnecting")
  <1>1. n \in Nat BY DEF Device
  <1> HIDE DEF n
  <1>2. s \in Device /\ Untouched(r, s) BY <1>1 DEF Device, Untouched
  <1> HIDE DEF s, p
  <1>3. Handled(r, [s EXCEPT !.probe = p])
    BY <1>2, CountersUntouched, UntouchedTwice, UntouchedIsHandled
  <1>4. t \in Device /\ Untouched(r, t)
    <2>1. "Reconnecting" \in RegStates BY DEF RegStates
    <2> QED BY <1>2, <2>1, SetStateSame, SetStateUntouched, UntouchedTwice DEF SameSession
  <1> HIDE DEF t
  <1>5. Handled(r, ScheduleReconnect(t))
    BY <1>4, ScheduleReconnectUntouched, UntouchedTwice, UntouchedIsHandled
  <1> QED BY <1>3, <1>5 DEF n, s, p, t

LEMMA ProbeAnswerHandled ==
  ASSUME NEW r \in Device, r.probe > 0, NEW ok \in BOOLEAN
  PROVE  LET s == [r EXCEPT !.probe = @ - 1]
         IN  Handled(r, IF ok THEN [s EXCEPT !.reg = "AdbOnline",
                                             !.queued = @ \/ ~(s.mirroring \/ s.starting)]
                              ELSE ScheduleReconnect(s))
  <1> DEFINE n == r.probe - 1
             s == [r EXCEPT !.probe = n]
             b == s.queued \/ ~(s.mirroring \/ s.starting)
             t == [s EXCEPT !.reg = "AdbOnline", !.queued = b]
  <1>1. n \in Nat BY DEF Device
  <1> HIDE DEF n
  <1>2. s \in Device /\ Untouched(r, s) BY <1>1 DEF Device, Untouched
  <1> HIDE DEF s
  <1>3. b <=> r.queued \/ ~(r.mirroring \/ r.starting) BY <1>2 DEF Untouched
  <1> HIDE DEF b
  <1>4. /\ t.starting = r.starting /\ t.mirroring = r.mirroring /\ t.core = r.core
        /\ t.norm = r.norm /\ t.lease = r.lease /\ t.queued = b
    BY <1>2 DEF Untouched, Device
  <1> HIDE DEF t
  <1>5. Handled(r, t) BY <1>3, <1>4 DEF Handled, Leased, Entry!Moves
  <1>6. Handled(r, ScheduleReconnect(s))
    BY <1>2, ScheduleReconnectUntouched, UntouchedTwice, UntouchedIsHandled
  <1> QED BY <1>5, <1>6 DEF n, s, b, t

LEMMA OtherAnswersHandled ==
  ASSUME NEW r \in Device, NEW ok \in BOOLEAN
  PROVE  /\ Handled(r, [r EXCEPT !.reboot = @ - 1, !.rebootWait = @ + 1])
         /\ Handled(r, [r EXCEPT !.connecting = FALSE,
                                 !.reg = IF ok THEN "Discovered" ELSE "Offline"])
         /\ Handled(r, [r EXCEPT !.hangup = @ - 1, !.reg = "Offline"])
  <1> DEFINE n == r.reboot - 1
             m == r.rebootWait + 1
             h == r.hangup - 1
             g == IF ok THEN "Discovered" ELSE "Offline"
  <1> HIDE DEF n, m, h, g
  <1>1. /\ Untouched(r, [r EXCEPT !.reboot = n, !.rebootWait = m])
        /\ Untouched(r, [r EXCEPT !.connecting = FALSE, !.reg = g])
        /\ Untouched(r, [r EXCEPT !.hangup = h, !.reg = "Offline"])
    BY DEF Untouched, Device
  <1>2. /\ Handled(r, [r EXCEPT !.reboot = n, !.rebootWait = m])
        /\ Handled(r, [r EXCEPT !.connecting = FALSE, !.reg = g])
        /\ Handled(r, [r EXCEPT !.hangup = h, !.reg = "Offline"])
    BY <1>1, UntouchedIsHandled
  <1> QED BY <1>2 DEF n, m, h, g

LEMMA WatchdogFiresHandled ==
  ASSUME NEW r \in Device
  PROVE  LET s == [r EXCEPT !.watchdog = FALSE]
         IN  Handled(r, IF s.starting THEN FinishStart(CoreDisconnect(s), FALSE) ELSE s)
  <1> DEFINE s == [r EXCEPT !.watchdog = FALSE]
             t == CoreDisconnect(s)
             u == FinishStart(t, FALSE)
  <1>1. s \in Device /\ Untouched(r, s) BY DEF Untouched, Device
  <1> HIDE DEF s
  <1>2. /\ t \in Device /\ t.queued = s.queued /\ t.norm = s.norm
        /\ Entry!Moves(s.core, t.core) /\ t.core \notin {"starting", "live"}
        /\ t.mirroring => s.mirroring
    BY <1>1, CoreDisconnectSlot, CoreDisconnectEnds
  <1> HIDE DEF t
  <1>3. /\ ~u.starting /\ u.mirroring = t.mirroring /\ u.core = t.core
        /\ u.queued = t.queued /\ u.norm = t.norm
    BY <1>2, FinishStartFails, FinishStartSlot
  <1> HIDE DEF u
  <1>4. Handled(s, u) BY <1>2, <1>3 DEF Handled, Leased
  <1>5. Handled(r, u) /\ Handled(r, s)
    BY <1>1, <1>4, UntouchedThenHandled, UntouchedIsHandled
  <1> QED BY <1>5 DEF s, t, u

LEMMA TimersHandled ==
  ASSUME NEW r, Kind(r), NEW d
  PROVE  /\ Handled(r, AttemptReconnect(d, [r EXCEPT !.retry = FALSE]))
         /\ r.restart > 0 => Handled(r, StartMirror(d, [r EXCEPT !.restart = @ - 1]))
         /\ r.rebootWait > 0 => Handled(r, RebootOver([r EXCEPT !.rebootWait = @ - 1]))
  <1>1. Handled(r, AttemptReconnect(d, [r EXCEPT !.retry = FALSE]))
    <2> DEFINE s == [r EXCEPT !.retry = FALSE]
    <2>1. s \in Device /\ Untouched(r, s) BY DEF Kind, Untouched, Device
    <2> HIDE DEF s
    <2>2. Untouched(s, AttemptReconnect(d, s)) BY <2>1, AttemptReconnectUntouched
    <2>3. Handled(r, AttemptReconnect(d, s)) BY <2>1, <2>2, UntouchedTwice, UntouchedIsHandled
    <2> QED BY <2>3 DEF s
  <1>2. ASSUME r.restart > 0
        PROVE  Handled(r, StartMirror(d, [r EXCEPT !.restart = @ - 1]))
    <2> DEFINE n == r.restart - 1
    <2>1. n \in Nat BY <1>2 DEF Kind, Device
    <2> HIDE DEF n
    <2>2. Kind([r EXCEPT !.restart = n]) BY <2>1, CountersSame, SameSessionKeeps DEF Kind
    <2>3. Untouched(r, [r EXCEPT !.restart = n]) BY CountersUntouched DEF Kind
    <2>4. Handled(r, StartMirror(d, [r EXCEPT !.restart = n]))
      BY <2>2, <2>3, StartMirrorHandled, UntouchedThenHandled
    <2> QED BY <2>4 DEF n
  <1>3. ASSUME r.rebootWait > 0
        PROVE  Handled(r, RebootOver([r EXCEPT !.rebootWait = @ - 1]))
    <2> DEFINE n == r.rebootWait - 1
    <2>1. n \in Nat BY <1>3 DEF Kind, Device
    <2> HIDE DEF n
    <2>2. Kind([r EXCEPT !.rebootWait = n]) BY <2>1, CountersSame, SameSessionKeeps DEF Kind
    <2>3. Untouched(r, [r EXCEPT !.rebootWait = n]) BY CountersUntouched DEF Kind
    <2>4. Handled(r, RebootOver([r EXCEPT !.rebootWait = n]))
      BY <2>2, <2>3, RebootOverUntouched, UntouchedTwice, UntouchedIsHandled DEF Kind
    <2> QED BY <2>4 DEF n
  <1> QED BY <1>1, <1>2, <1>3

\* A server that answers, fails or exits: on the lease its start took.
LEMMA CoreSignalsHandled ==
  ASSUME NEW r \in Device, r.core = "starting"
  PROVE  /\ Handled(r, FinishStart([r EXCEPT !.core = "live"], TRUE))
         /\ Handled(r, FinishStart([r EXCEPT !.core = "absent", !.lease = FALSE], FALSE))
         /\ Handled(r, [r EXCEPT !.core = "zombie"])
  <1>1. Handled(r, FinishStart([r EXCEPT !.core = "live"], TRUE))
    <2> DEFINE s == [r EXCEPT !.core = "live"]
               t == FinishStart(s, TRUE)
    <2>1. /\ s \in Device /\ s.core = "live" /\ s.queued = r.queued
          /\ s.norm = r.norm /\ s.lease = r.lease
      BY DEF Device, CoreStates
    <2> HIDE DEF s
    <2>2. /\ ~t.starting /\ t.mirroring /\ t.core = s.core /\ t.queued = s.queued
          /\ t.norm = s.norm /\ t.lease = s.lease
      BY <2>1, FinishStartSucceeds, FinishStartSlot
    <2> HIDE DEF t
    <2>3. Handled(r, t) BY <2>1, <2>2 DEF Handled, Leased, Entry!Moves, Entry!ReportedUp
    <2> QED BY <2>3 DEF s, t
  <1>2. Handled(r, FinishStart([r EXCEPT !.core = "absent", !.lease = FALSE], FALSE))
    <2> DEFINE s == [r EXCEPT !.core = "absent", !.lease = FALSE]
               t == FinishStart(s, FALSE)
    <2>1. /\ s \in Device /\ s.core = "absent" /\ s.queued = r.queued
          /\ s.norm = r.norm /\ s.mirroring = r.mirroring
      BY DEF Device, CoreStates
    <2> HIDE DEF s
    <2>2. /\ ~t.starting /\ t.mirroring = s.mirroring /\ t.core = s.core
          /\ t.queued = s.queued /\ t.norm = s.norm
      BY <2>1, FinishStartFails, FinishStartSlot
    <2> HIDE DEF t
    <2>3. Handled(r, t) BY <2>1, <2>2 DEF Handled, Leased, Entry!Moves, Entry!ReportedBad
    <2> QED BY <2>3 DEF s, t
  <1>3. Handled(r, [r EXCEPT !.core = "zombie"])
    <2> DEFINE s == [r EXCEPT !.core = "zombie"]
    <2>1. /\ s.core = "zombie" /\ s.starting = r.starting /\ s.mirroring = r.mirroring
          /\ s.queued = r.queued /\ s.norm = r.norm
      BY DEF Device
    <2> HIDE DEF s
    <2>2. Handled(r, s) BY <2>1 DEF Handled, Leased, Entry!Moves, Entry!EndedUnheard
    <2> QED BY <2>2 DEF s
  <1> QED BY <1>1, <1>2, <1>3

-----------------------------------------------------------------------------
(* The queue: who leaves it, who comes, whom the pump lets out.            *)

Distinct(q) == \A i, j \in DOMAIN q : q[i] = q[j] => i = j

\* m_queue holds exactly the devices that are queued, each once.
Lined(q, dv) ==
  /\ q \in Seq(Dev)
  /\ Distinct(q)
  /\ \A d \in Dev : dv[d].queued <=> \E i \in DOMAIN q : q[i] = d

\* A handler takes at most one device out of the queue.
OneLeaves(dv) ==
  \A d, e \in Dev : dev[d].queued /\ ~dv[d].queued /\ dev[e].queued /\ ~dv[e].queued => d = e

\* p is a part of q in the order of q, at the places f.
PartAt(p, q, f) ==
  /\ f \in [DOMAIN p -> DOMAIN q]
  /\ \A a, b \in DOMAIN p : a < b => f[a] < f[b]
  /\ \A a \in DOMAIN p : p[a] = q[f[a]]

LEMMA RemoveAtElements ==
  ASSUME NEW S, NEW s \in Seq(S), NEW i \in DOMAIN s
  PROVE  /\ RemoveAt(s, i) \in Seq(S)
         /\ DOMAIN RemoveAt(s, i) = 1 .. Len(s) - 1
         /\ \A a \in 1 .. Len(s) - 1 : RemoveAt(s, i)[a] = IF a < i THEN s[a] ELSE s[a+1]
  <1> DEFINE u == SubSeq(s, 1, i-1)
             v == SubSeq(s, i+1, Len(s))
  <1>1. Len(s) \in Nat /\ DOMAIN s = 1 .. Len(s) BY LenProperties
  <1>2. \A m \in DOMAIN s : s[m] \in S BY <1>1, ElementOfSeq
  <1>3. i \in Int /\ 1 <= i /\ i <= Len(s) BY <1>1
  <1>4. /\ u \in Seq(S) /\ Len(u) = i - 1 /\ \A a \in 1 .. i-1 : u[a] = s[a]
    <2>1. \A m \in 1 .. i-1 : s[m] \in S BY <1>1, <1>2, <1>3
    <2>2. /\ u \in Seq(S) /\ Len(u) = IF 1 <= i-1 THEN i-1-1+1 ELSE 0
          /\ \A a \in 1 .. i-1-1+1 : u[a] = s[1+a-1]
      BY <1>3, <2>1, SubSeqProperties
    <2> HIDE DEF u
    <2> QED BY <1>3, <2>2
  <1>5. /\ v \in Seq(S) /\ Len(v) = Len(s) - i
        /\ \A a \in 1 .. Len(s) - i : v[a] = s[i+a]
    <2>1. \A m \in i+1 .. Len(s) : s[m] \in S BY <1>1, <1>2, <1>3
    <2>2. /\ v \in Seq(S) /\ Len(v) = IF i+1 <= Len(s) THEN Len(s)-(i+1)+1 ELSE 0
          /\ \A a \in 1 .. Len(s)-(i+1)+1 : v[a] = s[i+1+a-1]
      BY <1>1, <1>3, <2>1, SubSeqProperties
    <2> HIDE DEF v
    <2> QED BY <1>1, <1>3, <2>2, SMTT(30)
  <1>6. RemoveAt(s, i) = u \o v BY DEF RemoveAt
  <1> HIDE DEF u, v
  <1>7. /\ u \o v \in Seq(S) /\ Len(u \o v) = Len(u) + Len(v)
        /\ \A a \in 1 .. Len(u) + Len(v) :
             (u \o v)[a] = IF a <= Len(u) THEN u[a] ELSE v[a - Len(u)]
    BY <1>4, <1>5, ConcatProperties
  <1>8. DOMAIN (u \o v) = 1 .. Len(s) - 1
    <2>1. DOMAIN (u \o v) = 1 .. Len(u \o v) BY <1>7, LenProperties
    <2>2. Len(u \o v) = Len(s) - 1 BY <1>1, <1>3, <1>4, <1>5, <1>7
    <2> QED BY <2>1, <2>2
  <1>9. ASSUME NEW a \in 1 .. Len(s) - 1
        PROVE  (u \o v)[a] = IF a < i THEN s[a] ELSE s[a+1]
    <2>1. CASE a < i BY <1>1, <1>3, <1>4, <1>5, <1>7, <2>1
    <2>2. CASE ~(a < i)
      <3>1. a - Len(u) \in 1 .. Len(s) - i /\ i + (a - Len(u)) = a + 1
        BY <1>1, <1>3, <1>4, <2>2
      <3>2. (u \o v)[a] = v[a - Len(u)] BY <1>1, <1>3, <1>4, <1>5, <1>7, <2>2, SMTT(30)
      <3> QED BY <1>5, <2>2, <3>1, <3>2
    <2> QED BY <2>1, <2>2
  <1> QED BY <1>6, <1>7, <1>8, <1>9

\* The queue without those whom their handler took out, in its order.
LEMMA KeptLine ==
  ASSUME NEW dv \in [Dev -> Device], Lined(queue, dev), OneLeaves(dv)
  PROVE  /\ Kept(dv) \in Seq(Dev)
         /\ \A a \in DOMAIN Kept(dv) : dv[Kept(dv)[a]].queued
         /\ \E f : /\ PartAt(Kept(dv), queue, f)
                   /\ \A i \in DOMAIN queue :
                        dv[queue[i]].queued => \E a \in DOMAIN Kept(dv) : f[a] = i
  <1> DEFINE out == {i \in DOMAIN queue : ~dv[queue[i]].queued}
             i == CHOOSE j \in out : TRUE
             K == Kept(dv)
  <1>1. /\ queue \in Seq(Dev) /\ Len(queue) \in Nat /\ DOMAIN queue = 1 .. Len(queue)
        /\ \A a \in DOMAIN queue : queue[a] \in Dev
    BY LenProperties, ElementOfSeq DEF Lined
  <1>2. \A a, b \in out : a = b
    <2> SUFFICES ASSUME NEW a \in out, NEW b \in out PROVE a = b OBVIOUS
    <2>1. queue[a] \in Dev /\ queue[b] \in Dev BY <1>1
    <2>2. dev[queue[a]].queued /\ dev[queue[b]].queued BY <1>1, <2>1 DEF Lined
    <2>3. queue[a] = queue[b] BY <2>1, <2>2 DEF OneLeaves
    <2> QED BY <2>3 DEF Lined, Distinct
  <1>3. CASE out = {}
    <2>1. K = queue BY <1>3 DEF Kept
    <2>2. \A a \in DOMAIN queue : dv[queue[a]].queued BY <1>3
    <2>3. PartAt(queue, queue, [a \in DOMAIN queue |-> a]) BY DEF PartAt
    <2>4. \A a \in DOMAIN queue : [b \in DOMAIN queue |-> b][a] = a OBVIOUS
    <2> HIDE DEF K
    <2> QED BY <1>1, <2>1, <2>2, <2>3, <2>4 DEF K
  <1>4. CASE out # {}
    <2>1. i \in out BY <1>4
    <2>2. K = RemoveAt(queue, i) BY <1>4 DEF Kept
    <2>3. \A j \in DOMAIN queue : j # i => dv[queue[j]].queued BY <1>2, <2>1
    <2> HIDE DEF i, out, K
    <2>4. i \in DOMAIN queue /\ ~dv[queue[i]].queued BY <2>1 DEF out
    <2>5. /\ K \in Seq(Dev) /\ DOMAIN K = 1 .. Len(queue) - 1
          /\ \A a \in 1 .. Len(queue) - 1 : K[a] = IF a < i THEN queue[a] ELSE queue[a+1]
      BY <1>1, <2>2, <2>4, RemoveAtElements
    <2> DEFINE f == [a \in 1 .. Len(queue) - 1 |-> IF a < i THEN a ELSE a + 1]
    <2>6. i \in Int /\ 1 <= i /\ i <= Len(queue) BY <1>1, <2>4
    <2>7. \A a \in 1 .. Len(queue) - 1 : f[a] \in DOMAIN queue /\ f[a] # i BY <1>1, <2>6
    <2>8. PartAt(K, queue, f)
      <3>1. f \in [DOMAIN K -> DOMAIN queue] BY <2>5, <2>7
      <3>2. \A a, b \in DOMAIN K : a < b => f[a] < f[b] BY <1>1, <2>5, <2>6
      <3>3. \A a \in DOMAIN K : K[a] = queue[f[a]] BY <2>5
      <3> QED BY <3>1, <3>2, <3>3 DEF PartAt
    <2>9. ASSUME NEW j \in DOMAIN queue, dv[queue[j]].queued
          PROVE  \E a \in DOMAIN K : f[a] = j
      <3>1. j # i BY <2>4, <2>9
      <3>2. CASE j < i
        <4>1. j \in 1 .. Len(queue) - 1 /\ f[j] = j BY <1>1, <2>6, <3>2
        <4> QED BY <2>5, <4>1
      <3>3. CASE i < j
        <4>1. j - 1 \in 1 .. Len(queue) - 1 /\ f[j-1] = j BY <1>1, <2>6, <3>3
        <4> QED BY <2>5, <4>1
      <3> QED BY <1>1, <2>6, <3>1, <3>2, <3>3, SMTT(30)
    <2>10. \A a \in DOMAIN K : dv[K[a]].queued BY <2>3, <2>5, <2>7, <2>8 DEF PartAt
    <2> HIDE DEF f
    <2> QED BY <2>5, <2>8, <2>9, <2>10 DEF K
  <1> QED BY <1>3, <1>4

\* Those a handler queued: each once, and nobody who stood in the queue.
LEMMA ArrivalsLine ==
  ASSUME NEW dv \in [Dev -> Device], NEW news \in Arrivals(dv)
  PROVE  /\ news \in Seq(Dev) /\ Distinct(news)
         /\ \A d \in Dev : (\E i \in DOMAIN news : news[i] = d)
                           <=> dv[d].queued /\ \A i \in DOMAIN queue : queue[i] # d
  <1> DEFINE S == {d \in Dev : dv[d].queued /\ \A i \in DOMAIN queue : queue[i] # d}
             D == 1 .. Cardinality(S)
  <1>1. IsFiniteSet(S) BY DevAssumption, FS_Subset
  <1>2. Cardinality(S) \in Nat BY <1>1, FS_CardinalityType
  <1>3. news \in [D -> S] /\ \A i, j \in D : i # j => news[i] # news[j]
    BY DEF Arrivals, SetToSeqs
  <1>4. news \in Seq(S) /\ DOMAIN news = D
    <2> HIDE DEF S
    <2> QED BY <1>2, <1>3
  <1>5. news \in Seq(Dev) BY <1>4, SeqMonotonic
  <1>6. Distinct(news) BY <1>3, <1>4 DEF Distinct
  <1>7. \A d \in S : \E i \in D : news[i] = d
    <2> HIDE DEF S
    <2>1. news \in Injection(D, S) BY <1>3 DEF Injection, IsInjective
    <2>2. Cardinality(D) = Cardinality(S)
      <3>1. Cardinality(D) = IF 1 > Cardinality(S) THEN 0 ELSE Cardinality(S) - 1 + 1
        BY <1>2, FS_Interval
      <3> QED BY <1>2, <3>1
    <2>3. news \in Surjection(D, S) BY <1>1, <2>1, <2>2, FS_Injection
    <2> QED BY <2>3 DEF Surjection
  <1>8. \A i \in D : news[i] \in S BY <1>3
  <1> QED BY <1>4, <1>5, <1>6, <1>7, <1>8

\* The line the pump serves: those who stayed, in their order, then those who came.
LEMMA LineUp ==
  ASSUME NEW dv \in [Dev -> Device], Lined(queue, dev), OneLeaves(dv),
         NEW news \in Arrivals(dv)
  PROVE  LET q == Kept(dv) \o news
         IN  /\ Lined(q, dv)
             /\ \A a, b \in DOMAIN q : a < b /\ (\E j \in DOMAIN queue : queue[j] = q[b]) =>
                  \E m, n \in DOMAIN queue : m < n /\ queue[m] = q[a] /\ queue[n] = q[b]
             /\ \A m, n \in DOMAIN queue :
                  m < n /\ dv[queue[m]].queued /\ dv[queue[n]].queued =>
                    \E a, b \in DOMAIN q : a < b /\ q[a] = queue[m] /\ q[b] = queue[n]
  <1> DEFINE K == Kept(dv)
             q == K \o news
             A == Len(K)
             B == Len(news)
  <1>1. /\ K \in Seq(Dev) /\ \A a \in DOMAIN K : dv[K[a]].queued
        /\ \E f : /\ PartAt(K, queue, f)
                  /\ \A i \in DOMAIN queue :
                       dv[queue[i]].queued => \E a \in DOMAIN K : f[a] = i
    BY KeptLine
  <1>2. PICK f : /\ PartAt(K, queue, f)
                 /\ \A i \in DOMAIN queue : dv[queue[i]].queued => \E a \in DOMAIN K : f[a] = i
    BY <1>1
  <1>3. /\ news \in Seq(Dev) /\ Distinct(news)
        /\ \A d \in Dev : (\E i \in DOMAIN news : news[i] = d)
                          <=> dv[d].queued /\ \A i \in DOMAIN queue : queue[i] # d
    BY ArrivalsLine
  <1> HIDE DEF K
  <1>4. /\ A \in Nat /\ DOMAIN K = 1 .. A /\ B \in Nat /\ DOMAIN news = 1 .. B
        /\ \A a \in 1 .. A : K[a] \in Dev
        /\ \A b \in 1 .. B : news[b] \in Dev
    BY <1>1, <1>3, LenProperties, ElementOfSeq
  <1>5. /\ q \in Seq(Dev) /\ Len(q) = A + B
        /\ \A a \in 1 .. A + B : q[a] = IF a <= A THEN K[a] ELSE news[a - A]
    BY <1>1, <1>3, ConcatProperties
  <1>6. DOMAIN q = 1 .. A + B BY <1>5, LenProperties
  <1> HIDE DEF q, A, B
  <1>7. \A a \in 1 .. A : a \in DOMAIN q /\ q[a] = K[a] BY <1>4, <1>5, <1>6
  <1>8. \A b \in 1 .. B : A + b \in DOMAIN q /\ q[A + b] = news[b]
    <2> SUFFICES ASSUME NEW b \in 1 .. B PROVE A + b \in DOMAIN q /\ q[A + b] = news[b]
      OBVIOUS
    <2>1. A + b \in 1 .. A + B /\ ~(A + b <= A) /\ (A + b) - A = b BY <1>4
    <2> QED BY <1>5, <1>6, <2>1
  <1>9. \A a \in DOMAIN q : a \in 1 .. A \/ \E b \in 1 .. B : a = A + b
    <2> SUFFICES ASSUME NEW a \in DOMAIN q, ~(a \in 1 .. A) PROVE \E b \in 1 .. B : a = A + b
      OBVIOUS
    <2>1. a - A \in 1 .. B /\ a = A + (a - A) BY <1>4, <1>6
    <2> QED BY <2>1
  \* Who stayed stands in the old queue, who came does not.
  <1>10. \A a \in 1 .. A : f[a] \in DOMAIN queue /\ K[a] = queue[f[a]]
    BY <1>2, <1>4 DEF PartAt
  <1>11. \A b \in 1 .. B : dv[news[b]].queued /\ \A i \in DOMAIN queue : queue[i] # news[b]
    BY <1>3, <1>4
  <1>12. \A a, b \in 1 .. A : K[a] = K[b] => a = b
    <2> SUFFICES ASSUME NEW a \in 1 .. A, NEW b \in 1 .. A, K[a] = K[b] PROVE a = b OBVIOUS
    <2>1. f[a] = f[b] BY <1>10 DEF Lined, Distinct
    <2>2. ~(a < b) /\ ~(b < a)
      <3>1. a < b => f[a] < f[b] BY <1>2, <1>4 DEF PartAt
      <3>2. b < a => f[b] < f[a] BY <1>2, <1>4 DEF PartAt
      <3>3. f[a] \in Int
        <4>1. queue \in Seq(Dev) BY DEF Lined
        <4>2. DOMAIN queue = 1 .. Len(queue) BY <4>1, LenProperties
        <4> QED BY <1>10, <4>2
      <3> QED BY <2>1, <3>1, <3>2, <3>3
    <2> QED BY <1>4, <2>2
  <1>13. Distinct(q)
    <2> SUFFICES ASSUME NEW a \in DOMAIN q, NEW b \in DOMAIN q, q[a] = q[b] PROVE a = b
      BY DEF Distinct
    <2>1. CASE a \in 1 .. A /\ b \in 1 .. A BY <1>7, <1>12, <2>1
    <2>2. CASE a \in 1 .. A /\ b \notin 1 .. A
      <3>1. PICK c \in 1 .. B : b = A + c BY <1>9, <2>2
      <3> QED BY <1>7, <1>8, <1>10, <1>11, <2>2, <3>1
    <2>3. CASE a \notin 1 .. A /\ b \in 1 .. A
      <3>1. PICK c \in 1 .. B : a = A + c BY <1>9, <2>3
      <3> QED BY <1>7, <1>8, <1>10, <1>11, <2>3, <3>1
    <2>4. CASE a \notin 1 .. A /\ b \notin 1 .. A
      <3>1. PICK c \in 1 .. B : a = A + c BY <1>9, <2>4
      <3>2. PICK e \in 1 .. B : b = A + e BY <1>9, <2>4
      <3>3. news[c] = news[e] BY <1>8, <3>1, <3>2
      <3>4. c = e BY <1>3, <1>4, <3>3 DEF Distinct
      <3> QED BY <3>1, <3>2, <3>4
    <2> QED BY <2>1, <2>2, <2>3, <2>4
  <1>14. ASSUME NEW d \in Dev PROVE dv[d].queued <=> \E a \in DOMAIN q : q[a] = d
    <2>1. ASSUME dv[d].queued PROVE \E a \in DOMAIN q : q[a] = d
      <3>1. CASE \E i \in DOMAIN queue : queue[i] = d
        <4>1. PICK i \in DOMAIN queue : queue[i] = d BY <3>1
        <4>2. PICK a \in DOMAIN K : f[a] = i BY <1>2, <2>1, <4>1
        <4> QED BY <1>4, <1>7, <1>10, <4>1, <4>2
      <3>2. CASE \A i \in DOMAIN queue : queue[i] # d
        <4>1. PICK b \in DOMAIN news : news[b] = d BY <1>3, <2>1, <3>2
        <4> QED BY <1>4, <1>8, <4>1
      <3> QED BY <3>1, <3>2
    <2>2. ASSUME NEW a \in DOMAIN q, q[a] = d PROVE dv[d].queued
      <3>1. CASE a \in 1 .. A BY <1>1, <1>4, <1>7, <2>2, <3>1
      <3>2. CASE a \notin 1 .. A
        <4>1. PICK b \in 1 .. B : a = A + b BY <1>9, <3>2
        <4> QED BY <1>8, <1>11, <2>2, <4>1
      <3> QED BY <3>1, <3>2
    <2> QED BY <2>1, <2>2
  <1>15. Lined(q, dv) BY <1>5, <1>13, <1>14 DEF Lined
  <1>16. ASSUME NEW a \in DOMAIN q, NEW b \in DOMAIN q, a < b,
                \E j \in DOMAIN queue : queue[j] = q[b]
         PROVE  \E m, n \in DOMAIN queue : m < n /\ queue[m] = q[a] /\ queue[n] = q[b]
    <2>1. b \in 1 .. A
      <3> SUFFICES ASSUME b \notin 1 .. A PROVE FALSE OBVIOUS
      <3>1. PICK c \in 1 .. B : b = A + c BY <1>9
      <3> QED BY <1>8, <1>11, <1>16, <3>1
    <2>2. a \in 1 .. A BY <1>4, <1>6, <1>16, <2>1
    <2>3. f[a] < f[b] BY <1>2, <1>4, <1>16, <2>1, <2>2 DEF PartAt
    <2> QED BY <1>7, <1>10, <2>1, <2>2, <2>3
  <1>17. ASSUME NEW m \in DOMAIN queue, NEW n \in DOMAIN queue, m < n,
                dv[queue[m]].queued, dv[queue[n]].queued
         PROVE  \E a, b \in DOMAIN q : a < b /\ q[a] = queue[m] /\ q[b] = queue[n]
    <2>1. PICK a \in DOMAIN K : f[a] = m BY <1>2, <1>17
    <2>2. PICK b \in DOMAIN K : f[b] = n BY <1>2, <1>17
    <2>3. a < b
      <3>1. b < a => n < m BY <1>2, <2>1, <2>2 DEF PartAt
      <3>2. m \in Int /\ n \in Int
        <4>1. queue \in Seq(Dev) BY DEF Lined
        <4>2. DOMAIN queue = 1 .. Len(queue) BY <4>1, LenProperties
        <4> QED BY <4>2
      <3>3. a # b /\ ~(b < a) BY <1>17, <2>1, <2>2, <3>1, <3>2
      <3>4. a \in Int /\ b \in Int BY <1>4
      <3> QED BY <3>3, <3>4
    <2> QED BY <1>4, <1>7, <1>10, <2>1, <2>2, <2>3
  <1> QED BY <1>15, <1>16, <1>17 DEF q, K

\* What the pump does to one device: nothing while it waits, else it lets it out.
LEMMA PumpedDevice ==
  ASSUME NEW dv \in [Dev -> Device], \A d \in Dev : Kind(dv[d]),
         NEW q, NEW k, NEW ports, NEW d \in Dev
  PROVE  LET P   == Pumped(dv, q, k, ports)
             out == {q[i] : i \in 1 .. k}
         IN  /\ d \notin out => P[d] = dv[d]
             /\ d \in out => Begun(dv[d], P[d])
             /\ d \in out /\ dv[d].starting => P[d].starting
  <1> DEFINE out  == {q[i] : i \in 1 .. k}
             P    == Pumped(dv, q, k, ports)
             skip == [dv[d] EXCEPT !.queued = FALSE]
             go   == BeginStart(dv[d], d \in ports)
  <1>1. P[d] = CASE d \notin out -> dv[d]
                 [] d \in out /\ ~dv[d].mirroring /\ ~dv[d].starting /\ dv[d].wanted -> go
                 [] OTHER -> skip
    BY DEF Pumped
  <1>2. Kind(dv[d]) /\ dv[d] \in Device BY DEF Kind
  <1>3. /\ ~skip.queued /\ skip.mirroring = dv[d].mirroring /\ skip.core = dv[d].core
        /\ skip.starting = dv[d].starting /\ skip.norm = dv[d].norm /\ skip.lease = dv[d].lease
    BY <1>2 DEF Device
  <1>4. (d \in ports) \in BOOLEAN OBVIOUS
  <1>5. ~dv[d].mirroring /\ ~dv[d].starting => Begun(dv[d], go) BY <1>2, <1>4, BeginStartBegins
  <1> HIDE DEF skip, go, P, out
  <1>6. Begun(dv[d], skip) BY <1>3 DEF Begun, Leased
  <1>7. d \notin out => P[d] = dv[d] BY <1>1
  <1>8. d \in out => P[d] = skip \/ (~dv[d].mirroring /\ ~dv[d].starting /\ P[d] = go)
    BY <1>1
  <1>9. d \in out => Begun(dv[d], P[d]) BY <1>5, <1>6, <1>8
  <1>10. d \in out /\ dv[d].starting => P[d].starting BY <1>3, <1>8
  <1> QED BY <1>7, <1>9, <1>10 DEF P, out

\* What is left of the line after the first k.
LEMMA PumpedLine ==
  ASSUME NEW dv \in [Dev -> Device], \A d \in Dev : Kind(dv[d]),
         NEW q, Lined(q, dv), NEW k \in 0 .. Len(q), NEW ports
  PROVE  LET w == SubSeq(q, k+1, Len(q))
         IN  /\ Lined(w, Pumped(dv, q, k, ports))
             /\ DOMAIN w = 1 .. Len(q) - k
             /\ \A i \in DOMAIN w : k + i \in DOMAIN q /\ w[i] = q[k + i]
  <1> DEFINE w   == SubSeq(q, k+1, Len(q))
             P   == Pumped(dv, q, k, ports)
             out == {q[i] : i \in 1 .. k}
             N   == Len(q)
  <1>1. /\ q \in Seq(Dev) /\ N \in Nat /\ DOMAIN q = 1 .. N
        /\ \A i \in DOMAIN q : q[i] \in Dev
    BY LenProperties, ElementOfSeq DEF Lined
  <1>2. k \in Int /\ 0 <= k /\ k <= N BY <1>1
  <1>3. /\ w \in Seq(Dev) /\ Len(w) = N - k
        /\ \A i \in 1 .. N - k : w[i] = q[k + i]
    <2>1. \A i \in k+1 .. N : q[i] \in Dev BY <1>1, <1>2
    <2> HIDE DEF N
    <2>2. /\ SubSeq(q, k+1, N) \in Seq(Dev)
          /\ Len(SubSeq(q, k+1, N)) = IF k+1 <= N THEN N - (k+1) + 1 ELSE 0
          /\ \A i \in 1 .. N - (k+1) + 1 : SubSeq(q, k+1, N)[i] = q[(k+1) + i - 1]
      BY <1>1, <1>2, <2>1, SubSeqProperties
    <2>3. w = SubSeq(q, k+1, N) BY DEF N
    <2> HIDE DEF w
    <2>4. Len(w) = N - k BY <1>1, <1>2, <2>2, <2>3
    <2>5. ASSUME NEW i \in 1 .. N - k PROVE w[i] = q[k + i]
      <3>1. i \in 1 .. N - (k+1) + 1 /\ (k+1) + i - 1 = k + i BY <1>1, <1>2
      <3> QED BY <2>2, <2>3, <3>1
    <2> QED BY <2>2, <2>3, <2>4, <2>5
  <1> HIDE DEF w, N
  <1>4. DOMAIN w = 1 .. N - k BY <1>3, LenProperties
  <1>5. \A i \in DOMAIN w : k + i \in DOMAIN q /\ k + i > k /\ w[i] = q[k + i]
    BY <1>1, <1>2, <1>3, <1>4
  <1>6. Distinct(w)
    <2> SUFFICES ASSUME NEW i \in DOMAIN w, NEW j \in DOMAIN w, w[i] = w[j] PROVE i = j
      BY DEF Distinct
    <2>1. k + i = k + j BY <1>5 DEF Lined, Distinct
    <2> QED BY <1>1, <1>2, <1>4, <2>1
  <1>7. ASSUME NEW d \in Dev PROVE P[d].queued <=> \E i \in DOMAIN w : w[i] = d
    <2>1. dv[d].queued <=> \E i \in DOMAIN q : q[i] = d BY DEF Lined
    <2>2. /\ d \notin out => P[d] = dv[d]
          /\ d \in out => ~P[d].queued
      BY PumpedDevice DEF Begun
    <2> HIDE DEF P
    <2>3. CASE d \in out
      <3>1. PICK j \in 1 .. k : q[j] = d BY <2>3
      <3>2. j \in DOMAIN q /\ j <= k BY <1>1, <1>2
      <3>3. ASSUME NEW i \in DOMAIN w, w[i] = d PROVE FALSE
        <4>1. k + i = j BY <1>5, <3>1, <3>2, <3>3 DEF Lined, Distinct
        <4> QED BY <1>1, <1>2, <1>5, <3>2, <4>1
      <3> QED BY <2>2, <2>3, <3>3
    <2>4. CASE d \notin out
      <3>1. ASSUME NEW i \in DOMAIN q, q[i] = d PROVE \E j \in DOMAIN w : w[j] = d
        <4>1. ~(i \in 1 .. k) BY <2>4, <3>1
        <4>2. i - k \in DOMAIN w /\ k + (i - k) = i BY <1>1, <1>2, <1>4, <4>1
        <4> QED BY <1>5, <3>1, <4>2
      <3>2. ASSUME NEW j \in DOMAIN w, w[j] = d PROVE \E i \in DOMAIN q : q[i] = d
        BY <1>5, <3>2
      <3> QED BY <2>1, <2>2, <2>4, <3>1, <3>2
    <2> QED BY <2>3, <2>4
  <1>8. Lined(w, P) BY <1>3, <1>6, <1>7 DEF Lined
  <1> QED BY <1>4, <1>5, <1>8 DEF w, N

LEMMA StartingFinite ==
  ASSUME NEW dv
  PROVE  IsFiniteSet(Starting(dv)) /\ Cardinality(Starting(dv)) \in Nat
  <1>1. Starting(dv) \subseteq Dev BY DEF Starting
  <1>2. IsFiniteSet(Starting(dv)) BY <1>1, DevAssumption, FS_Subset
  <1> QED BY <1>2, FS_CardinalityType

\* Letting one more device out takes one more slot at most.
LEMMA PumpedSlots ==
  ASSUME NEW dv \in [Dev -> Device], \A d \in Dev : Kind(dv[d]),
         NEW q \in Seq(Dev), NEW k \in 1 .. Len(q), NEW ports
  PROVE  Cardinality(Starting(Pumped(dv, q, k, ports)))
           <= Cardinality(Starting(Pumped(dv, q, k-1, ports))) + 1
  <1> DEFINE P == Pumped(dv, q, k, ports)
             R == Pumped(dv, q, k-1, ports)
  <1>1. k \in Int /\ 1 <= k
    <2>1. Len(q) \in Nat BY LenProperties
    <2> QED BY <2>1
  <1>2. ASSUME NEW d \in Dev, d # q[k], P[d].starting PROVE R[d].starting
    <2>1. d \in {q[i] : i \in 1 .. k} <=> d \in {q[i] : i \in 1 .. k-1} BY <1>1, <1>2
    <2>2. P[d] = R[d] BY <2>1 DEF Pumped
    <2> QED BY <1>2, <2>2
  <1> HIDE DEF P, R
  <1>3. Starting(P) \subseteq Starting(R) \cup {q[k]} BY <1>2 DEF Starting
  <1>4. /\ IsFiniteSet(Starting(R)) /\ Cardinality(Starting(R)) \in Nat
        /\ Cardinality(Starting(P)) \in Nat
    BY StartingFinite
  <1>5. /\ IsFiniteSet(Starting(R) \cup {q[k]})
        /\ Cardinality(Starting(R) \cup {q[k]}) =
             IF q[k] \in Starting(R) THEN Cardinality(Starting(R)) ELSE Cardinality(Starting(R)) + 1
    BY <1>4, FS_AddElement
  <1>6. Cardinality(Starting(P)) <= Cardinality(Starting(R) \cup {q[k]})
    BY <1>3, <1>5, FS_Subset
  <1>7. Cardinality(Starting(P)) <= Cardinality(Starting(R)) + 1 BY <1>4, <1>5, <1>6
  <1> QED BY <1>7 DEF P, R

\* What every handler ends with: the line stays a line and is served in order, as
\* long as slots are free, and never beyond the limit.
LEMMA SettleLine ==
  ASSUME NEW dv \in [Dev -> Device], \A d \in Dev : Kind(dv[d]),
         Lined(queue, dev), OneLeaves(dv), limit' \in Nat, Settle(dv)
  PROVE  /\ Lined(queue', dev')
         /\ \A d \in Dev : dev'[d] = dv[d] \/ (dv[d].queued /\ Begun(dv[d], dev'[d]))
         /\ queue' # <<>> => Cardinality(Starting(dev')) >= limit'
         /\ dev' = dv \/ Cardinality(Starting(dev')) <= limit'
         /\ Cardinality(Starting(dv)) >= limit' => dev' = dv
         /\ \A m, n \in DOMAIN queue :
              m < n /\ (\E i \in DOMAIN queue' : queue'[i] = queue[m])
                /\ dev'[queue[n]].starting => dv[queue[n]].starting
         /\ \A a, b \in DOMAIN queue' : a < b /\ (\E j \in DOMAIN queue : queue[j] = queue'[b]) =>
              \E m, n \in DOMAIN queue : m < n /\ queue[m] = queue'[a] /\ queue[n] = queue'[b]
  <1>1. PICK news \in Arrivals(dv), ports \in IF PortsRunOut THEN {{}, Dev} ELSE {Dev} :
          LET q == Kept(dv) \o news
          IN  \E k \in 0 .. Len(q) :
                /\ \A j \in 0 .. k-1 : SlotFree(Pumped(dv, q, j, ports))
                /\ k = Len(q) \/ ~SlotFree(Pumped(dv, q, k, ports))
                /\ dev' = Pumped(dv, q, k, ports)
                /\ queue' = SubSeq(q, k+1, Len(q))
    BY DEF Settle
  <1> DEFINE q == Kept(dv) \o news
  <1>2. PICK k \in 0 .. Len(q) : /\ \A j \in 0 .. k-1 : SlotFree(Pumped(dv, q, j, ports))
                                 /\ k = Len(q) \/ ~SlotFree(Pumped(dv, q, k, ports))
                                 /\ dev' = Pumped(dv, q, k, ports)
                                 /\ queue' = SubSeq(q, k+1, Len(q))
    BY <1>1
  <1>3. /\ Lined(q, dv)
        /\ \A a, b \in DOMAIN q : a < b /\ (\E j \in DOMAIN queue : queue[j] = q[b]) =>
             \E m, n \in DOMAIN queue : m < n /\ queue[m] = q[a] /\ queue[n] = q[b]
        /\ \A m, n \in DOMAIN queue :
             m < n /\ dv[queue[m]].queued /\ dv[queue[n]].queued =>
               \E a, b \in DOMAIN q : a < b /\ q[a] = queue[m] /\ q[b] = queue[n]
    BY LineUp
  <1> HIDE DEF q
  <1> DEFINE out == {q[i] : i \in 1 .. k}
             N   == Len(q)
  <1>4. /\ q \in Seq(Dev) /\ N \in Nat /\ DOMAIN q = 1 .. N
        /\ k \in Int /\ 0 <= k /\ k <= N
    <2>1. q \in Seq(Dev) BY <1>3 DEF Lined
    <2>2. N \in Nat /\ DOMAIN q = 1 .. N BY <2>1, LenProperties
    <2> QED BY <2>1, <2>2
  <1>5. /\ Lined(queue', dev')
        /\ DOMAIN queue' = 1 .. N - k
        /\ \A i \in DOMAIN queue' : k + i \in DOMAIN q /\ queue'[i] = q[k + i]
    BY <1>2, <1>3, PumpedLine
  <1>6. \A d \in Dev : /\ d \notin out => dev'[d] = dv[d]
                       /\ d \in out => Begun(dv[d], dev'[d])
    BY <1>2, PumpedDevice
  <1>7. ASSUME queue' # <<>> PROVE Cardinality(Starting(dev')) >= limit'
    <2>1. k # N
      <3> SUFFICES ASSUME k = N PROVE FALSE OBVIOUS
      <3>1. queue' = <<>>
        <4>1. N < k + 1 BY <1>4
        <4> QED BY <1>2, <1>4, <4>1, SubSeqEmpty
      <3> QED BY <1>7, <3>1
    <2>2. ~(Cardinality(Starting(dev')) < limit') BY <1>2, <2>1 DEF SlotFree
    <2>3. Cardinality(Starting(dev')) \in Nat BY StartingFinite
    <2> QED BY <2>2, <2>3
  <1>8. k = 0 => dev' = dv
    <2>1. Pumped(dv, q, 0, ports) = [d \in Dev |-> dv[d]]
      <3>1. {q[i] : i \in 1 .. 0} = {} OBVIOUS
      <3> QED BY <3>1 DEF Pumped
    <2> QED BY <1>2, <2>1
  <1>9. k # 0 => /\ Cardinality(Starting(dev')) <= limit'
                 /\ Cardinality(Starting(dv)) < limit'
    <2> SUFFICES ASSUME k # 0
                 PROVE  /\ Cardinality(Starting(dev')) <= limit'
                        /\ Cardinality(Starting(dv)) < limit'
      OBVIOUS
    <2>1. k \in 1 .. N /\ k-1 \in 0 .. k-1 /\ 0 \in 0 .. k-1 BY <1>4
    <2>2. Cardinality(Starting(Pumped(dv, q, k-1, ports))) < limit' BY <1>2, <2>1 DEF SlotFree
    <2>3. Cardinality(Starting(Pumped(dv, q, k, ports)))
            <= Cardinality(Starting(Pumped(dv, q, k-1, ports))) + 1
      BY <1>4, <2>1, PumpedSlots
    <2>4. /\ Cardinality(Starting(Pumped(dv, q, k, ports))) \in Nat
          /\ Cardinality(Starting(Pumped(dv, q, k-1, ports))) \in Nat
      BY StartingFinite
    <2>5. Cardinality(Starting(dev')) <= limit' BY <1>2, <2>2, <2>3, <2>4
    <2>6. Pumped(dv, q, 0, ports) = dv
      <3>1. {q[i] : i \in 1 .. 0} = {} OBVIOUS
      <3>2. Pumped(dv, q, 0, ports) = [d \in Dev |-> dv[d]] BY <3>1 DEF Pumped
      <3> QED BY <3>2
    <2>7. SlotFree(Pumped(dv, q, 0, ports)) BY <1>2, <2>1
    <2>8. Cardinality(Starting(dv)) < limit' BY <2>6, <2>7 DEF SlotFree
    <2> QED BY <2>5, <2>8
  <1>10. Cardinality(Starting(dv)) >= limit' => dev' = dv
    <2>1. Cardinality(Starting(dv)) \in Nat BY StartingFinite
    <2> QED BY <1>8, <1>9, <2>1
  <1>11. ASSUME NEW m \in DOMAIN queue, NEW n \in DOMAIN queue, m < n,
                NEW i \in DOMAIN queue', queue'[i] = queue[m], dev'[queue[n]].starting
         PROVE  dv[queue[n]].starting
    <2>1. queue[m] \in Dev /\ queue[n] \in Dev
      <3>1. queue \in Seq(Dev) BY DEF Lined
      <3> QED BY <3>1, LenProperties, ElementOfSeq
    <2>2. CASE queue[n] \notin out BY <1>6, <1>11, <2>1, <2>2
    <2>3. CASE queue[n] \in out
      <3>1. PICK c \in 1 .. k : q[c] = queue[n] BY <2>3
      <3>2. c \in DOMAIN q /\ c <= k BY <1>4
      <3>3. k + i \in DOMAIN q /\ q[k + i] = queue[m] BY <1>5, <1>11
      <3>4. dv[queue[m]].queued /\ dv[queue[n]].queued BY <1>3, <2>1, <3>1, <3>2, <3>3 DEF Lined
      <3>5. PICK a, b \in DOMAIN q : a < b /\ q[a] = queue[m] /\ q[b] = queue[n]
        BY <1>3, <1>11, <3>4
      <3>6. a = k + i /\ b = c BY <1>3, <3>1, <3>2, <3>3, <3>5 DEF Lined, Distinct
      <3>7. i >= 1 /\ i \in Int BY <1>4, <1>5
      <3> QED BY <1>4, <3>2, <3>5, <3>6, <3>7
    <2> QED BY <2>2, <2>3
  <1>12. ASSUME NEW a \in DOMAIN queue', NEW b \in DOMAIN queue', a < b,
                \E j \in DOMAIN queue : queue[j] = queue'[b]
         PROVE  \E m, n \in DOMAIN queue : m < n /\ queue[m] = queue'[a] /\ queue[n] = queue'[b]
    <2>1. /\ k + a \in DOMAIN q /\ k + b \in DOMAIN q
          /\ queue'[a] = q[k + a] /\ queue'[b] = q[k + b]
      BY <1>5
    <2>2. k + a < k + b BY <1>4, <1>5, <1>12
    <2>3. \E j \in DOMAIN queue : queue[j] = q[k + b] BY <1>12, <2>1
    <2>4. \E m, n \in DOMAIN queue : m < n /\ queue[m] = q[k + a] /\ queue[n] = q[k + b]
      BY <1>3, <2>1, <2>2, <2>3
    <2> QED BY <2>1, <2>4
  <1>13. dev' = dv \/ Cardinality(Starting(dev')) <= limit' BY <1>8, <1>9
  <1>14. \A d \in Dev : dev'[d] = dv[d] \/ (dv[d].queued /\ Begun(dv[d], dev'[d]))
    <2>1. \A d \in Dev : d \in out => dv[d].queued
      <3>1. \A i \in 1 .. k : i \in DOMAIN q BY <1>4
      <3> QED BY <1>3, <3>1 DEF Lined
    <2> QED BY <1>6, <2>1
  <1> QED BY <1>5, <1>7, <1>10, <1>11, <1>12, <1>13, <1>14

-----------------------------------------------------------------------------
(* The steps: each prepares the devices and ends with the pump.            *)

\* A session that ends under a device that waits frees no slot for it.
EndsFreeNoSlot(dv) ==
  (\E d \in Dev : dev[d].core = "live" /\ dv[d].core = "absent" /\ dv[d].queued)
    => Starting(dv) = Starting(dev) /\ limit' = limit

Prepared(dv) ==
  /\ dv \in [Dev -> Device]
  /\ \A d \in Dev : Kind(dv[d]) /\ Handled(dev[d], dv[d])
  /\ OneLeaves(dv)
  /\ EndsFreeNoSlot(dv)
  /\ limit' \in LimitRange
  /\ Settle(dv)

LEMMA HandlePrepared ==
  ASSUME IInv, NEW d \in Dev, NEW r, Kind(r), Handled(dev[d], r), Handle(d, r)
  PROVE  \E dv : Prepared(dv)
  <1> DEFINE dv == [dev EXCEPT ![d] = r]
  <1>1. /\ ~down /\ limit' = limit /\ Settle(dv) BY DEF Handle
  <1>2. dev \in [Dev -> Device] /\ limit \in LimitRange BY DEF IInv, TypeOK
  <1>3. \A e \in Dev : Kind(dev[e]) BY <1>1 DEF IInv, TypeOK, Kind
  <1>4. dv \in [Dev -> Device] /\ \A e \in Dev : dv[e] = IF e = d THEN r ELSE dev[e]
    BY <1>2 DEF Kind
  <1> HIDE DEF dv
  <1>5. \A e \in Dev : Handled(dev[e], dv[e])
    <2>1. \A e \in Dev : Handled(dev[e], dev[e])
      <3>1. \A e \in Dev : Untouched(dev[e], dev[e]) BY DEF Untouched
      <3> QED BY <3>1, UntouchedIsHandled
    <2> QED BY <1>4, <2>1
  <1>6. OneLeaves(dv) BY <1>4 DEF OneLeaves
  <1>7. EndsFreeNoSlot(dv)
    <2> SUFFICES ASSUME NEW e \in Dev, dev[e].core = "live", dv[e].core = "absent"
                 PROVE  Starting(dv) = Starting(dev)
      BY <1>1 DEF EndsFreeNoSlot
    <2>1. e = d BY <1>4
    <2>2. ~dev[d].starting BY <1>3, <2>1 DEF Kind, Sound
    <2>3. ~r.starting BY <2>2 DEF Handled
    <2> QED BY <1>4, <2>2, <2>3 DEF Starting
  <1>8. \A e \in Dev : Kind(dv[e]) BY <1>3, <1>4
  <1>9. Prepared(dv) BY <1>1, <1>2, <1>4, <1>5, <1>6, <1>7, <1>8 DEF Prepared
  <1> QED BY <1>9

LEMMA SetLimitPrepared ==
  ASSUME IInv, NEW n \in LimitRange, SetLimit(n)
  PROVE  \E dv : Prepared(dv)
  <1>1. ~down /\ limit' \in LimitRange /\ Settle(dev) BY DEF SetLimit
  <1>2. dev \in [Dev -> Device] BY DEF IInv, TypeOK
  <1>3. \A e \in Dev : Kind(dev[e]) BY <1>1 DEF IInv, TypeOK, Kind
  <1>4. \A e \in Dev : Handled(dev[e], dev[e])
    <2>1. \A e \in Dev : Untouched(dev[e], dev[e]) BY DEF Untouched
    <2> QED BY <2>1, UntouchedIsHandled
  <1>5. OneLeaves(dev) BY DEF OneLeaves
  <1>6. EndsFreeNoSlot(dev) BY DEF EndsFreeNoSlot
  <1>7. Prepared(dev) BY <1>1, <1>2, <1>3, <1>4, <1>5, <1>6 DEF Prepared
  <1> QED BY <1>7

LEMMA RefreshPrepared ==
  ASSUME IInv, NEW rows \in [Dev -> Rows], Refresh(rows)
  PROVE  \E dv : Prepared(dv)
  <1> DEFINE dv == [d \in Dev |-> Listing(d, dev[d], rows[d])]
  <1>1. ~down /\ limit' = limit /\ Settle(dv) BY DEF Refresh
  <1>2. limit \in LimitRange BY DEF IInv, TypeOK
  <1>3. \A e \in Dev : Kind(dev[e]) /\ rows[e] \in AllRows
    BY <1>1, InputAssumption DEF IInv, TypeOK, Kind
  <1>4. \A e \in Dev : dv[e] = Listing(e, dev[e], rows[e]) OBVIOUS
  <1>5. dv = [e \in Dev |-> dv[e]] OBVIOUS
  <1> HIDE DEF dv
  <1>6. \A e \in Dev : Kind(dv[e]) BY <1>3, <1>4, ListingKeeps
  <1>7. \A e \in Dev : /\ Handled(dev[e], dv[e]) /\ dv[e].starting = dev[e].starting
                       /\ dev[e].queued => dv[e].queued
    BY <1>3, <1>4, ListingHandled
  <1>8. dv \in [Dev -> Device] BY <1>5, <1>6 DEF Kind
  <1>9. OneLeaves(dv) BY <1>7 DEF OneLeaves
  <1>10. EndsFreeNoSlot(dv) BY <1>1, <1>7 DEF EndsFreeNoSlot, Starting
  <1>11. Prepared(dv) BY <1>1, <1>2, <1>6, <1>7, <1>8, <1>9, <1>10 DEF Prepared
  <1> QED BY <1>11

LEMMA OperatorPrepared ==
  ASSUME IInv, Operator
  PROVE  \E dv : Prepared(dv)
  <1>1. ASSUME ~down PROVE \A d \in Dev : Kind(dev[d]) BY <1>1 DEF IInv, TypeOK, Kind
  <1>2. ASSUME NEW d \in Dev, Mirror(d) PROVE \E dv : Prepared(dv)
    <2>1. Handle(d, StartMirror(d, dev[d])) /\ Kind(dev[d]) BY <1>1, <1>2 DEF Mirror, Handle
    <2> QED BY <2>1, StartMirrorKeeps, StartMirrorHandled, HandlePrepared
  <1>3. ASSUME NEW d \in Dev, Stop(d) PROVE \E dv : Prepared(dv)
    <2>1. Handle(d, StopMirror(dev[d], TRUE)) /\ Kind(dev[d]) BY <1>1, <1>3 DEF Stop, Handle
    <2> QED BY <2>1, StopMirrorKeeps, StopMirrorHandled, HandlePrepared
  <1>4. ASSUME NEW d \in Dev, Restart(d) PROVE \E dv : Prepared(dv)
    <2>1. Handle(d, RestartMirror(dev[d])) /\ Kind(dev[d]) BY <1>1, <1>4 DEF Restart, Handle
    <2> QED BY <2>1, RestartMirrorKeeps, RestartMirrorHandled, HandlePrepared
  <1>5. ASSUME NEW d \in Dev, Reconnect(d) PROVE \E dv : Prepared(dv)
    <2>1. Handle(d, ReconnectDevice(d, dev[d])) /\ Kind(dev[d])
      BY <1>1, <1>5 DEF Reconnect, Handle
    <2> QED BY <2>1, ReconnectDeviceKeeps, ReconnectDeviceHandled, HandlePrepared
  <1>6. ASSUME NEW d \in Dev, Disconnect(d) PROVE \E dv : Prepared(dv)
    <2>1. Handle(d, DisconnectDevice(d, dev[d])) /\ Kind(dev[d])
      BY <1>1, <1>6 DEF Disconnect, Handle
    <2> QED BY <2>1, DisconnectDeviceKeeps, DisconnectDeviceHandled, HandlePrepared
  <1>7. ASSUME NEW d \in Dev, Reboot(d) PROVE \E dv : Prepared(dv)
    <2>1. Handle(d, RebootDevice(dev[d])) /\ Kind(dev[d]) BY <1>1, <1>7 DEF Reboot, Handle
    <2> QED BY <2>1, RebootDeviceKeeps, RebootDeviceHandled, HandlePrepared
  <1>8. ASSUME NEW d \in Dev, ConnectIp(d) PROVE \E dv : Prepared(dv)
    <2>1. Handle(d, ConnectEndpoint(dev[d])) /\ Kind(dev[d]) BY <1>1, <1>8 DEF ConnectIp, Handle
    <2>2. Kind(ConnectEndpoint(dev[d])) BY <2>1, ConnectEndpointSame, SameSessionKeeps DEF Kind
    <2>3. Handled(dev[d], ConnectEndpoint(dev[d]))
      BY <2>1, ConnectEndpointUntouched, UntouchedIsHandled DEF Kind
    <2> QED BY <2>1, <2>2, <2>3, HandlePrepared
  <1> QED BY <1>2, <1>3, <1>4, <1>5, <1>6, <1>7, <1>8, SetLimitPrepared DEF Operator

LEMMA AdbPrepared ==
  ASSUME IInv, Adb
  PROVE  \E dv : Prepared(dv)
  <1>1. ASSUME ~down PROVE \A d \in Dev : Kind(dev[d]) BY <1>1 DEF IInv, TypeOK, Kind
  <1>2. ASSUME NEW d \in Dev, NEW ok \in BOOLEAN, DialAnswer(d, ok) PROVE \E dv : Prepared(dv)
    <2>1. dev[d].dial > 0 /\ Kind(dev[d]) /\ dev[d] \in Device
      BY <1>1, <1>2 DEF DialAnswer, Event, Handle, Kind
    <2> QED BY <1>2, <2>1, DialAnswerKeeps, DialAnswerHandled, HandlePrepared DEF DialAnswer, Event
  <1>3. ASSUME NEW d \in Dev, NEW ok \in BOOLEAN, ProbeAnswer(d, ok) PROVE \E dv : Prepared(dv)
    <2>1. dev[d].probe > 0 /\ Kind(dev[d]) /\ dev[d] \in Device
      BY <1>1, <1>3 DEF ProbeAnswer, Event, Handle, Kind
    <2> QED BY <1>3, <2>1, ProbeAnswerKeeps, ProbeAnswerHandled, HandlePrepared DEF ProbeAnswer, Event
  <1>4. ASSUME NEW d \in Dev, NEW ok \in BOOLEAN, ConnectAnswer(d, ok) PROVE \E dv : Prepared(dv)
    <2>1. Kind(dev[d]) /\ dev[d] \in Device BY <1>1, <1>4 DEF ConnectAnswer, Event, Handle, Kind
    <2> QED BY <1>4, <2>1, ConnectAnswerKeeps, OtherAnswersHandled, HandlePrepared
            DEF ConnectAnswer, Event
  <1>5. ASSUME NEW d \in Dev, NEW ok \in BOOLEAN, NEW portFree \in BOOLEAN,
               NormalizeAnswer(d, ok, portFree)
        PROVE  \E dv : Prepared(dv)
    <2>1. dev[d].norm > 0 /\ Kind(dev[d]) /\ dev[d] \in Device
      BY <1>1, <1>5 DEF NormalizeAnswer, Event, Handle, Kind
    <2> DEFINE r == [dev[d] EXCEPT !.norm = @ - 1]
               s == IF r.starting THEN LaunchCore([r EXCEPT !.normalized = @ \/ ok], portFree) ELSE r
    <2>2. Kind(s) BY <2>1, NormalizeAnswerKeeps
    <2>3. Handled(dev[d], s) BY <2>1, NormalizeAnswerHandled
    <2>4. Handle(d, s) BY <1>5 DEF NormalizeAnswer, Event
    <2> HIDE DEF s
    <2> QED BY <2>2, <2>3, <2>4, HandlePrepared
  <1>6. ASSUME NEW d \in Dev, RebootAnswer(d) PROVE \E dv : Prepared(dv)
    <2>1. dev[d].reboot > 0 /\ Kind(dev[d]) /\ dev[d] \in Device
      BY <1>1, <1>6 DEF RebootAnswer, Event, Handle, Kind
    <2> QED BY <1>6, <2>1, RebootAnswerKeeps, OtherAnswersHandled, HandlePrepared
            DEF RebootAnswer, Event
  <1>7. ASSUME NEW d \in Dev, HangupAnswer(d) PROVE \E dv : Prepared(dv)
    <2>1. dev[d].hangup > 0 /\ Kind(dev[d]) /\ dev[d] \in Device
      BY <1>1, <1>7 DEF HangupAnswer, Event, Handle, Kind
    <2> QED BY <1>7, <2>1, HangupAnswerKeeps, OtherAnswersHandled, HandlePrepared
            DEF HangupAnswer, Event
  <1>8. (IF PortsRunOut THEN BOOLEAN ELSE {TRUE}) \subseteq BOOLEAN OBVIOUS
  <1> QED BY <1>2, <1>3, <1>4, <1>5, <1>6, <1>7, <1>8, RefreshPrepared DEF Adb

LEMMA TimerPrepared ==
  ASSUME IInv, Timer
  PROVE  \E dv : Prepared(dv)
  <1>1. ASSUME ~down PROVE \A d \in Dev : Kind(dev[d]) BY <1>1 DEF IInv, TypeOK, Kind
  <1>2. ASSUME NEW d \in Dev, WatchdogFires(d) PROVE \E dv : Prepared(dv)
    <2>1. Kind(dev[d]) /\ dev[d] \in Device BY <1>1, <1>2 DEF WatchdogFires, Event, Handle, Kind
    <2> QED BY <1>2, <2>1, WatchdogFiresKeeps, WatchdogFiresHandled, HandlePrepared
            DEF WatchdogFires, Event
  <1>3. ASSUME NEW d \in Dev, RetryFires(d) PROVE \E dv : Prepared(dv)
    <2>1. Kind(dev[d]) BY <1>1, <1>3 DEF RetryFires, Event, Handle
    <2> QED BY <1>3, <2>1, RetryFiresKeeps, TimersHandled, HandlePrepared DEF RetryFires, Event
  <1>4. ASSUME NEW d \in Dev, RestartFires(d) PROVE \E dv : Prepared(dv)
    <2>1. dev[d].restart > 0 /\ Kind(dev[d]) BY <1>1, <1>4 DEF RestartFires, Event, Handle
    <2> QED BY <1>4, <2>1, RestartFiresKeeps, TimersHandled, HandlePrepared DEF RestartFires, Event
  <1>5. ASSUME NEW d \in Dev, RebootWaitFires(d) PROVE \E dv : Prepared(dv)
    <2>1. dev[d].rebootWait > 0 /\ Kind(dev[d]) BY <1>1, <1>5 DEF RebootWaitFires, Event, Handle
    <2> QED BY <1>5, <2>1, RebootWaitFiresKeeps, TimersHandled, HandlePrepared
            DEF RebootWaitFires, Event
  <1> QED BY <1>2, <1>3, <1>4, <1>5 DEF Timer

LEMMA CorePrepared ==
  ASSUME IInv, Core
  PROVE  \E dv : Prepared(dv)
  <1>1. ASSUME ~down PROVE \A d \in Dev : Kind(dev[d]) BY <1>1 DEF IInv, TypeOK, Kind
  <1>2. ASSUME NEW d \in Dev, CoreUp(d) PROVE \E dv : Prepared(dv)
    <2>1. dev[d].core = "starting" /\ Kind(dev[d]) /\ dev[d] \in Device
      BY <1>1, <1>2 DEF CoreUp, Event, Handle, Kind
    <2> QED BY <1>2, <2>1, CoreUpKeeps, CoreSignalsHandled, HandlePrepared DEF CoreUp, Event
  <1>3. ASSUME NEW d \in Dev, CoreFails(d) PROVE \E dv : Prepared(dv)
    <2>1. dev[d].core = "starting" /\ Kind(dev[d]) /\ dev[d] \in Device
      BY <1>1, <1>3 DEF CoreFails, Event, Handle, Kind
    <2> QED BY <1>3, <2>1, CoreFailsKeeps, CoreSignalsHandled, HandlePrepared DEF CoreFails, Event
  <1>4. ASSUME NEW d \in Dev, CoreExits(d) PROVE \E dv : Prepared(dv)
    <2>1. dev[d].core = "starting" /\ Kind(dev[d]) /\ dev[d] \in Device
      BY <1>1, <1>4 DEF CoreExits, Event, Handle, Kind
    <2> QED BY <1>4, <2>1, CoreExitsKeeps, CoreSignalsHandled, HandlePrepared DEF CoreExits, Event
  <1>5. ASSUME NEW d \in Dev, CoreDrops(d) PROVE \E dv : Prepared(dv)
    <2>1. Kind(dev[d]) /\ dev[d] \in Device BY <1>1, <1>5 DEF CoreDrops, Event, Handle, Kind
    <2> QED BY <1>5, <2>1, CoreDisconnectKeeps, CoreDisconnectHandled, HandlePrepared
            DEF CoreDrops, Event
  <1> QED BY <1>2, <1>3, <1>4, <1>5 DEF Core

LEMMA NextPrepared == IInv /\ Next => Shutdown \/ \E dv : Prepared(dv)
  BY OperatorPrepared, AdbPrepared, TimerPrepared, CorePrepared DEF Next

-----------------------------------------------------------------------------
(* The invariant of the queue.                                             *)

\* Nobody waits beside a free slot.
NoSlotIdles == queue # <<>> => Cardinality(Starting(dev)) >= limit

QInv ==
  /\ IInv
  /\ Lined(queue, dev)
  /\ \A d \in Dev : dev[d].queued => ~dev[d].starting
  /\ NoSlotIdles

LEMMA LimitIsNat == LimitRange \subseteq Nat
  BY SettingAssumption

\* At the shutdown the queue is cleared and every Device deleted.
LEMMA ShutdownDeviceHandled ==
  ASSUME NEW r \in Device
  PROVE  LET s == ShutdownDevice(r)
         IN  /\ s.starting = r.starting /\ ~s.mirroring /\ ~s.queued
             /\ Entry!Moves(r.core, s.core)
             /\ Leased(r) => Leased(s)
  <1> DEFINE l == r.lease /\ ~r.mirroring
             c == CASE r.core = "live" -> "absent"
                    [] r.core \in {"starting", "zombie"} -> "null"
                    [] OTHER -> r.core
             s == [r EXCEPT !.retry = FALSE, !.watchdog = FALSE, !.queued = FALSE,
                            !.mirroring = FALSE, !.lease = l, !.core = c]
  <1>1. ShutdownDevice(r) = s BY DEF ShutdownDevice
  <1>2. c \notin {"starting", "live"} /\ Entry!Moves(r.core, c)
    <2>1. r.core \in CoreStates BY DEF Device
    <2> QED BY <2>1 DEF CoreStates, Entry!Moves, Entry!Ended, Entry!Orphaned
  <1> HIDE DEF l, c
  <1>3. /\ s.starting = r.starting /\ ~s.mirroring /\ ~s.queued /\ s.core = c /\ s.norm = r.norm
    BY DEF Device
  <1> HIDE DEF s
  <1> QED BY <1>1, <1>2, <1>3 DEF Leased

LEMMA InitQInv == Init => QInv
  <1> SUFFICES ASSUME Init PROVE QInv OBVIOUS
  <1>1. \A d \in Dev : ~dev[d].queued BY DEF Init, NewDevice
  <1>2. queue = <<>> BY DEF Init
  <1>3. Lined(queue, dev)
    <2>1. <<>> \in Seq(Dev) /\ DOMAIN <<>> = {} OBVIOUS
    <2> QED BY <1>1, <1>2, <2>1 DEF Lined, Distinct
  <1> QED BY <1>1, <1>2, <1>3, InitIInv DEF QInv, NoSlotIdles

\* What a prepared step does, seen from before it to after the pump.
LEMMA PreparedLine ==
  ASSUME QInv, NEW dv, Prepared(dv)
  PROVE  /\ Lined(queue', dev')
         /\ NoSlotIdles'
         /\ \A d \in Dev : dev'[d].queued => ~dev'[d].starting
         /\ Cardinality(Starting(dev')) > Cardinality(Starting(dev))
              => Cardinality(Starting(dev')) <= limit'
  <1>1. limit' \in Nat BY LimitIsNat DEF Prepared
  <1>2. /\ Lined(queue', dev')
        /\ \A d \in Dev : dev'[d] = dv[d] \/ (dv[d].queued /\ Begun(dv[d], dev'[d]))
        /\ queue' # <<>> => Cardinality(Starting(dev')) >= limit'
        /\ dev' = dv \/ Cardinality(Starting(dev')) <= limit'
    BY <1>1, SettleLine DEF Prepared, QInv
  <1>3. \A d \in Dev : Handled(dev[d], dv[d]) BY DEF Prepared
  <1>4. \A d \in Dev : dev'[d].queued => ~dev'[d].starting
    <2> SUFFICES ASSUME NEW d \in Dev, dev'[d].queued PROVE ~dev'[d].starting OBVIOUS
    <2>1. dev'[d] = dv[d] BY <1>2 DEF Begun
    <2>2. ~dev[d].starting BY <1>3, <2>1 DEF Handled, QInv
    <2> QED BY <1>3, <2>1, <2>2 DEF Handled
  <1>5. dev' = dv => Cardinality(Starting(dev')) <= Cardinality(Starting(dev))
    <2>1. Starting(dv) \subseteq Starting(dev) BY <1>3 DEF Starting, Handled
    <2>2. Cardinality(Starting(dv)) <= Cardinality(Starting(dev))
      BY <2>1, StartingFinite, FS_Subset
    <2> QED BY <2>2
  <1>6. Cardinality(Starting(dev')) \in Nat /\ Cardinality(Starting(dev)) \in Nat
    BY StartingFinite
  <1> QED BY <1>2, <1>4, <1>5, <1>6 DEF NoSlotIdles

LEMMA ShutdownLine ==
  ASSUME QInv, Shutdown
  PROVE  /\ \A d \in Dev : /\ dev'[d] = ShutdownDevice(dev[d])
                           /\ dev'[d].starting = dev[d].starting /\ ~dev'[d].mirroring
                           /\ ~dev'[d].queued
                           /\ Entry!Moves(dev[d].core, dev'[d].core)
                           /\ Leased(dev[d]) => Leased(dev'[d])
         /\ queue' = <<>> /\ limit' = limit /\ limit \in LimitRange
         /\ Starting(dev') = Starting(dev)
  <1>1. dev \in [Dev -> Device] /\ limit \in LimitRange BY DEF QInv, IInv, TypeOK
  <1>2. \A d \in Dev : dev'[d] = ShutdownDevice(dev[d]) BY DEF Shutdown
  <1>3. \A d \in Dev : /\ dev'[d].starting = dev[d].starting /\ ~dev'[d].mirroring
                       /\ ~dev'[d].queued
                       /\ Entry!Moves(dev[d].core, dev'[d].core)
                       /\ Leased(dev[d]) => Leased(dev'[d])
    BY <1>1, <1>2, ShutdownDeviceHandled
  <1>4. Starting(dev') = Starting(dev) BY <1>3 DEF Starting
  <1> QED BY <1>1, <1>2, <1>3, <1>4 DEF Shutdown

LEMMA NextQInv == QInv /\ [Next]_vars => QInv'
  <1> SUFFICES ASSUME QInv, [Next]_vars PROVE QInv' OBVIOUS
  <1>1. IInv' BY NextIInv DEF QInv
  <1>2. CASE Shutdown
    <2>1. Lined(queue', dev')
      <3>1. <<>> \in Seq(Dev) /\ DOMAIN <<>> = {} OBVIOUS
      <3> QED BY <1>2, <3>1, ShutdownLine DEF Lined, Distinct
    <2>2. NoSlotIdles' BY <1>2, ShutdownLine DEF NoSlotIdles
    <2>3. \A d \in Dev : dev'[d].queued => ~dev'[d].starting BY <1>2, ShutdownLine
    <2> QED BY <1>1, <2>1, <2>2, <2>3 DEF QInv
  <1>3. CASE \E dv : Prepared(dv)
    <2>1. PICK dv : Prepared(dv) BY <1>3
    <2>2. Lined(queue', dev') /\ NoSlotIdles' /\ \A d \in Dev : dev'[d].queued => ~dev'[d].starting
      BY <2>1, PreparedLine
    <2> QED BY <1>1, <2>2 DEF QInv
  <1>4. CASE UNCHANGED vars
    <2>1. queue' = queue /\ dev' = dev /\ limit' = limit BY <1>4 DEF vars
    <2> QED BY <1>1, <2>1 DEF QInv, NoSlotIdles
  <1> QED BY <1>2, <1>3, <1>4, NextPrepared DEF QInv

LEMMA AlwaysQInv == Spec => []QInv
  BY InitQInv, NextQInv, PTL DEF Spec

-----------------------------------------------------------------------------
(* The theorems.                                                           *)

\* m_queue and the devices that are queued are the same, each once, and a device
\* waits only while every start slot is taken.
THEOREM QueueIsALine == Spec => [](Lined(queue, dev) /\ NoSlotIdles)
  <1>1. QInv => Lined(queue, dev) /\ NoSlotIdles BY DEF QInv
  <1> QED BY <1>1, AlwaysQInv, PTL

\* Every step of the service moves each entry of the core once at most, and in a
\* way the core has.  A session may end under a device that waits (a doubled launch
\* leaves one); no slot is free then, so that the pump does not start it at once.
LEMMA NextUsesEntry == QInv /\ Next => Entry!Next
  <1> SUFFICES ASSUME QInv, Next, NEW d \in Dev
               PROVE  Entry!Moves(dev[d].core, dev'[d].core)
    BY DEF Entry!Next
  <1>1. CASE Shutdown BY <1>1, ShutdownLine
  <1>2. CASE \E dv : Prepared(dv)
    <2>1. PICK dv : Prepared(dv) BY <1>2
    <2>2. /\ limit' \in Nat /\ limit \in Nat
          /\ Handled(dev[d], dv[d]) /\ Kind(dv[d]) /\ EndsFreeNoSlot(dv)
      BY <2>1, LimitIsNat DEF Prepared, QInv, IInv, TypeOK
    <2>3. /\ dev'[d] = dv[d] \/ (dv[d].queued /\ Begun(dv[d], dev'[d]))
          /\ Cardinality(Starting(dv)) >= limit' => dev' = dv
      BY <2>1, <2>2, SettleLine DEF Prepared, QInv
    <2>4. CASE dev'[d].core = dv[d].core BY <2>2, <2>4 DEF Handled
    <2>5. CASE dev'[d].core # dv[d].core
      <3>1. /\ dv[d].queued /\ dv[d].core = "absent" /\ dev'[d].core = "starting"
            /\ dev' # dv
        BY <2>3, <2>5 DEF Begun
      <3>2. dev[d].core # "live"
        <4> SUFFICES ASSUME dev[d].core = "live" PROVE FALSE OBVIOUS
        <4>1. Starting(dv) = Starting(dev) /\ limit' = limit
          BY <2>2, <3>1 DEF EndsFreeNoSlot
        <4>2. dev[d].mirroring BY DEF QInv, IInv, Sound
        <4>3. dev[d].queued BY <2>2, <3>1, <4>2 DEF Handled
        <4>4. queue # <<>>
          <5>1. \E i \in DOMAIN queue : queue[i] = d BY <4>3 DEF QInv, Lined
          <5> QED BY <5>1
        <4>5. Cardinality(Starting(dv)) >= limit' BY <4>1, <4>4 DEF QInv, NoSlotIdles
        <4> QED BY <2>3, <3>1, <4>5
      <3>3. Entry!Moves(dev[d].core, "absent") BY <2>2, <3>1 DEF Handled
      <3>4. dev[d].core \in {"absent", "starting"}
        BY <3>2, <3>3 DEF Entry!Moves, Entry!Connected, Entry!ReportedUp, Entry!ReportedBad,
                          Entry!EndedUnheard, Entry!Ended, Entry!Orphaned
      <3> QED BY <3>1, <3>4 DEF Entry!Moves, Entry!Connected
    <2> QED BY <2>4, <2>5
  <1> QED BY <1>1, <1>2, NextPrepared DEF QInv

\* The service uses the core's entry of a phone in no other way than CoreEntry,
\* which CoreSession is proved to provide.
THEOREM ServiceUsesTheEntry == Spec => CoreSpec
  <1>1. Init => Entry!Init
    <2> SUFFICES ASSUME Init PROVE Entry!Init OBVIOUS
    <2>1. \A d \in Dev : dev[d].core = "absent" BY DEF Init, NewDevice
    <2> QED BY <2>1 DEF Entry!Init
  <1>2. QInv /\ [Next]_vars => [Entry!Next]_([d \in Dev |-> dev[d].core])
    <2>1. UNCHANGED vars => UNCHANGED [d \in Dev |-> dev[d].core] BY DEF vars
    <2> QED BY <2>1, NextUsesEntry
  <1> QED BY <1>1, <1>2, AlwaysQInv, PTL DEF Spec, CoreSpec, Entry!Spec

-----------------------------------------------------------------------------
(* With the resolution left alone before a capture.  Else two answers of   *)
(* `wm size` may launch one phone twice: the refused launch gives back the *)
(* lease of the running one and its slot, and neither property holds.      *)

LInv == QInv /\ \A d \in Dev : Leased(dev[d])

LEMMA NextLInv ==
  ASSUME ~Normalize
  PROVE  LInv /\ [Next]_vars => LInv'
  <1> SUFFICES ASSUME LInv, [Next]_vars PROVE LInv' OBVIOUS
  <1>1. QInv' BY NextQInv DEF LInv
  <1>2. CASE Shutdown BY <1>1, <1>2, ShutdownLine DEF LInv
  <1>3. CASE \E dv : Prepared(dv)
    <2>1. PICK dv : Prepared(dv) BY <1>3
    <2>2. limit' \in Nat BY <2>1, LimitIsNat DEF Prepared
    <2>3. \A d \in Dev : dev'[d] = dv[d] \/ Begun(dv[d], dev'[d])
      BY <2>1, <2>2, SettleLine DEF Prepared, LInv, QInv
    <2>4. \A d \in Dev : Leased(dv[d]) BY <2>1 DEF Prepared, Handled, LInv
    <2>5. \A d \in Dev : Leased(dev'[d]) BY <2>3, <2>4 DEF Begun
    <2> QED BY <1>1, <2>5 DEF LInv
  <1>4. CASE UNCHANGED vars
    <2>1. dev' = dev BY <1>4 DEF vars
    <2> QED BY <1>1, <2>1 DEF LInv
  <1> QED BY <1>2, <1>3, <1>4, NextPrepared DEF LInv, QInv

LEMMA AlwaysLInv ==
  ASSUME ~Normalize
  PROVE  Spec => []LInv
  <1>1. Init => LInv
    <2> SUFFICES ASSUME Init PROVE LInv OBVIOUS
    <2>1. \A d \in Dev : Leased(dev[d]) BY DEF Init, NewDevice, Leased
    <2> QED BY <2>1, InitQInv DEF LInv
  <1>2. LInv /\ [Next]_vars => LInv' BY NextLInv
  <1> QED BY <1>1, <1>2, PTL DEF Spec

LEMMA NextTakesSlots ==
  ASSUME ~Normalize, LInv, Next
  PROVE  Slots!Step
  <1> DEFINE ph == [d \in Dev |-> Phase(dev[d])]
  <1>1. \A d \in Dev : /\ (Phase(dev[d]) = "starting" <=> dev[d].starting)
                       /\ (Phase(dev'[d]) = "starting" <=> dev'[d].starting)
                       /\ (Phase(dev'[d]) = "live" => dev'[d].mirroring)
                       /\ (dev[d].mirroring /\ ~dev[d].starting => Phase(dev[d]) = "live")
                       /\ Phase(dev'[d]) \in {"idle", "starting", "live"}
    BY DEF Phase
  <1>2. Slots!Busy = Starting(dev) /\ Slots!Busy' = Starting(dev')
    <2>1. Slots!Busy = Starting(dev) BY <1>1 DEF Slots!Busy, Starting
    <2>2. Slots!Busy' = Starting(dev') BY <1>1 DEF Slots!Busy, Starting
    <2> QED BY <2>1, <2>2
  <1>3. QInv /\ LInv' /\ IInv' BY NextLInv, NextIInv DEF LInv, QInv
  <1>4. queue' \in Seq(Dev) /\ limit' \in LimitRange BY <1>3 DEF IInv, TypeOK
  <1>5. [d \in Dev |-> Phase(dev'[d])] \in [Dev -> Slots!Phases] BY <1>1 DEF Slots!Phases
  <1>6. Slots!Admitted
    <2> SUFFICES ASSUME NEW d \in Dev, Phase(dev'[d]) = "live"
                 PROVE  Phase(dev[d]) \in {"starting", "live"}
      BY DEF Slots!Admitted
    <2>1. dev'[d].mirroring BY <1>1
    <2>2. ~Shutdown BY <1>3, <2>1, ShutdownLine
    <2>3. PICK dv : Prepared(dv) BY <1>3, <2>2, NextPrepared DEF QInv
    <2>4. limit' \in Nat BY <2>3, LimitIsNat DEF Prepared
    <2>5. dev'[d] = dv[d] \/ Begun(dv[d], dev'[d]) BY <1>3, <2>3, <2>4, SettleLine DEF Prepared, QInv
    <2>6. dv[d].mirroring BY <2>1, <2>5 DEF Begun
    <2>7. dev[d].mirroring \/ dev[d].core = "starting" BY <2>3, <2>6 DEF Prepared, Handled
    <2>8. dev[d].mirroring \/ dev[d].starting BY <2>7 DEF LInv, Leased
    <2> QED BY <1>1, <2>8
  <1>11. \A S : Slots!Cardinality(S) = Cardinality(S) BY DEF Slots!Cardinality, Cardinality
  <1>7. Slots!Bounded
    <2>1. CASE Shutdown
      <3>1. Starting(dev') = Starting(dev) /\ queue' = <<>> BY <1>3, <2>1, ShutdownLine
      <3>2. Cardinality(Starting(dev)) \in Nat BY StartingFinite
      <3> QED BY <1>2, <1>11, <3>1, <3>2 DEF Slots!Bounded
    <2>2. CASE \E dv : Prepared(dv)
      <3>1. PICK dv : Prepared(dv) BY <2>2
      <3>2. /\ Cardinality(Starting(dev')) > Cardinality(Starting(dev))
                => Cardinality(Starting(dev')) <= limit'
            /\ queue' # <<>> => Cardinality(Starting(dev')) >= limit'
        BY <1>3, <3>1, PreparedLine DEF NoSlotIdles
      <3> QED BY <1>2, <1>11, <3>2 DEF Slots!Bounded
    <2> QED BY <1>3, <2>1, <2>2, NextPrepared DEF QInv
  <1>8. /\ \A m, n \in DOMAIN queue :
             m < n /\ (\E i \in DOMAIN queue' : queue'[i] = queue[m]) => ~dev'[queue[n]].starting
        /\ \A a, b \in DOMAIN queue' : a < b /\ (\E j \in DOMAIN queue : queue[j] = queue'[b]) =>
             \E m, n \in DOMAIN queue : m < n /\ queue[m] = queue'[a] /\ queue[n] = queue'[b]
    <2>1. CASE Shutdown
      <3>1. DOMAIN queue' = {} BY <1>3, <2>1, ShutdownLine
      <3> QED BY <3>1
    <2>2. CASE \E dv : Prepared(dv)
      <3>1. PICK dv : Prepared(dv) BY <2>2
      <3>2. limit' \in Nat BY <3>1, LimitIsNat DEF Prepared
      <3>3. /\ \A m, n \in DOMAIN queue :
                 m < n /\ (\E i \in DOMAIN queue' : queue'[i] = queue[m])
                   /\ dev'[queue[n]].starting => dv[queue[n]].starting
            /\ \A a, b \in DOMAIN queue' : a < b /\ (\E j \in DOMAIN queue : queue[j] = queue'[b]) =>
                 \E m, n \in DOMAIN queue : m < n /\ queue[m] = queue'[a] /\ queue[n] = queue'[b]
        BY <1>3, <3>1, <3>2, SettleLine DEF Prepared, QInv
      <3>4. \A n \in DOMAIN queue : ~dv[queue[n]].starting
        <4>1. \A n \in DOMAIN queue : queue[n] \in Dev
          <5>1. queue \in Seq(Dev) BY <1>3 DEF QInv, Lined
          <5> QED BY <5>1, LenProperties, ElementOfSeq
        <4>2. \A n \in DOMAIN queue : ~dev[queue[n]].starting BY <1>3, <4>1 DEF QInv, Lined
        <4> QED BY <3>1, <4>1, <4>2 DEF Prepared, Handled
      <3> QED BY <3>3, <3>4
    <2> QED BY <1>3, <2>1, <2>2, NextPrepared DEF QInv
  <1>9. Slots!Fair
    <2> SUFFICES ASSUME NEW i \in DOMAIN queue, NEW j \in DOMAIN queue, i < j,
                        queue[i] \in Slots!Waiting'
                 PROVE  [d \in Dev |-> Phase(dev'[d])][queue[j]] # "starting"
      BY DEF Slots!Fair
    <2>1. \E n \in DOMAIN queue' : queue'[n] = queue[i] BY DEF Slots!Waiting
    <2>2. ~dev'[queue[j]].starting BY <1>8, <2>1
    <2>3. queue[j] \in Dev
      <3>1. queue \in Seq(Dev) BY <1>3 DEF QInv, Lined
      <3> QED BY <3>1, LenProperties, ElementOfSeq
    <2> QED BY <1>1, <2>2, <2>3
  <1>10. Slots!Ordered
    <2> SUFFICES ASSUME NEW i \in DOMAIN queue', NEW j \in DOMAIN queue', i < j,
                        queue'[j] \in Slots!Waiting
                 PROVE  \E m, n \in DOMAIN queue :
                          m < n /\ queue[m] = queue'[i] /\ queue[n] = queue'[j]
      BY DEF Slots!Ordered
    <2>1. \E n \in DOMAIN queue : queue[n] = queue'[j] BY DEF Slots!Waiting
    <2> QED BY <1>8, <2>1
  <1> QED BY <1>4, <1>5, <1>6, <1>7, <1>9, <1>10 DEF Slots!Step

\* The service implements the bounded line of StartSlots: slots are the only way to
\* a session, no slot idles while devices wait, and nobody is overtaken.
THEOREM ServiceIsALine ==
  ASSUME ~Normalize
  PROVE  Spec => SlotsSpec
  <1>1. Init => Slots!Init
    <2> SUFFICES ASSUME Init PROVE Slots!Init OBVIOUS
    <2>1. \A d \in Dev : Phase(dev[d]) = "idle" BY DEF Init, NewDevice, Phase
    <2> QED BY <2>1 DEF Init, Slots!Init
  <1>2. LInv /\ [Next]_vars => [Slots!Step]_(Slots!vars)
    <2>1. UNCHANGED vars => UNCHANGED Slots!vars BY DEF vars, Slots!vars
    <2> QED BY <2>1, NextTakesSlots
  <1>3. Spec => []LInv BY AlwaysLInv
  <1> QED BY <1>1, <1>2, <1>3, PTL DEF Spec, SlotsSpec, Slots!Spec
=============================================================================

---------------------------- MODULE DiscoveryProofs ----------------------------
(***************************************************************************)
(* Proofs about Discovery: no endpoint waits in the fan-out of `adb         *)
(* connect` without an answer to come, none is connected beyond the limit,  *)
(* and automatic sweeps keep coming, for any set of hosts, any limits and   *)
(* any changes of the limit while connects are under way.                   *)
(***************************************************************************)
EXTENDS Discovery, FiniteSetTheorems, TLAPS

Settings ==
  [auto : BOOLEAN, subnetOk : BOOLEAN, fanOut : FanOuts, timer : BOOLEAN, manual : BOOLEAN]

TypeOK ==
  /\ svc \in Settings
  /\ scanning \in BOOLEAN
  /\ queue \in Seq(Hosts)
  /\ connecting \in SUBSET Hosts
  /\ reg \in [Hosts -> RegStates]

\* An endpoint waits once, and not while it is being connected.
ConnectsAreSound(q, c) ==
  /\ \A i, j \in 1 .. Len(q) : q[i] = q[j] => i = j
  /\ \A i \in 1 .. Len(q) : q[i] \notin c
  /\ IsFiniteSet(c)

\* The connects go from c to d: one is begun only where the limit leaves room for it.
Fits(c, d) == d \subseteq c \/ Cardinality(d) <= svc.fanOut

IInv ==
  /\ TypeOK
  /\ ConnectsAreSound(queue, connecting)
  /\ DiscoveryNeverStalls

\* A step keeps the invariant and the limit of its moment.
Kept == IInv' /\ Fits(connecting, connecting')
-----------------------------------------------------------------------------
(* The fan-out *)

\* As many endpoints as are taken off the head of the queue are added to those under way.
LEMMA FirstOnes ==
  ASSUME NEW q \in Seq(Hosts), NEW n \in 0 .. Len(q),
         \A i, j \in 1 .. Len(q) : q[i] = q[j] => i = j
  PROVE  /\ IsFiniteSet({q[i] : i \in 1 .. n})
         /\ Cardinality({q[i] : i \in 1 .. n}) = n
  <1> DEFINE T == {q[i] : i \in 1 .. n}
             f == [i \in 1 .. n |-> q[i]]
  <1>1. IsFiniteSet(1 .. n) /\ Cardinality(1 .. n) = n BY FS_Interval
  <1>2. f \in Surjection(1 .. n, T) BY DEF Surjection
  <1>3. f \in Injection(1 .. n, T)
    <2>1. \A i, j \in 1 .. n : f[i] = f[j] => i = j OBVIOUS
    <2>2. f \in [1 .. n -> T] OBVIOUS
    <2> HIDE DEF f, T
    <2> QED BY <2>1, <2>2 DEF Injection, IsInjective
  <1> HIDE DEF f, T
  <1>4. IsFiniteSet(T) /\ Cardinality(T) = Cardinality(1 .. n) BY <1>1, <1>2, <1>3, FS_Surjection
  <1> QED BY <1>1, <1>4 DEF T

\* pumpConnects: what stays in the queue has an answer to come, every device parked in
\* Connecting is being connected, and no connect is begun without room.
LEMMA PumpSound ==
  ASSUME svc \in Settings,
         NEW q \in Seq(Hosts), NEW c \in SUBSET Hosts, NEW st \in [Hosts -> RegStates],
         ConnectsAreSound(q, c),
         \A h \in Hosts : st[h] = "Connecting" => h \in c,
         PumpConnects(q, c, st)
  PROVE  /\ queue' \in Seq(Hosts) /\ connecting' \in SUBSET Hosts /\ reg' \in [Hosts -> RegStates]
         /\ ConnectsAreSound(queue', connecting')
         /\ FanOutIsServed'
         /\ Fits(c, connecting')
  <1> DEFINE room == IF Cardinality(c) < svc.fanOut THEN svc.fanOut - Cardinality(c) ELSE 0
             n == IF room < Len(q) THEN room ELSE Len(q)
             first == {q[i] : i \in 1 .. n}
             rest == SubSeq(q, n + 1, Len(q))
  <1>1. /\ queue' = rest
        /\ connecting' = c \cup first
        /\ reg' = [h \in Hosts |-> IF h \in first THEN SetState(st, h, "Connecting")[h] ELSE st[h]]
    BY DEF PumpConnects
  <1>2. IsFiniteSet(c) /\ Cardinality(c) \in Nat BY FS_CardinalityType DEF ConnectsAreSound
  <1>3. Len(q) \in Nat /\ svc.fanOut \in Nat /\ svc.fanOut > 0
    <2>1. svc.fanOut \in FanOuts BY DEF Settings
    <2>2. FanOuts \subseteq Nat \ {0} BY FanOutsArePositive
    <2>3. svc.fanOut \in Nat /\ svc.fanOut # 0 BY <2>1, <2>2
    <2>4. svc.fanOut > 0 BY <2>3
    <2>5. Len(q) \in Nat OBVIOUS
    <2> QED BY <2>3, <2>4, <2>5
  <1>4. /\ room \in Nat /\ n \in 0 .. Len(q) /\ n <= room /\ (n # Len(q) => n = room)
        /\ (room > 0 => Cardinality(c) + room = svc.fanOut)
        /\ (room = 0 => Cardinality(c) > 0)
    BY <1>2, <1>3
  <1>5. \A i, j \in 1 .. Len(q) : q[i] = q[j] => i = j BY DEF ConnectsAreSound
  <1>6. IsFiniteSet(first) /\ Cardinality(first) = n BY <1>4, <1>5, FirstOnes
  <1>7. c \cap first = {}
    <2>1. \A i \in 1 .. Len(q) : q[i] \notin c BY DEF ConnectsAreSound
    <2>2. \A i \in 1 .. n : i \in 1 .. Len(q) BY <1>3, <1>4
    <2> HIDE DEF n
    <2> QED BY <2>1, <2>2
  <1>8. first \subseteq Hosts
    <2>1. \A i \in 1 .. n : i \in 1 .. Len(q) BY <1>3, <1>4
    <2> HIDE DEF n
    <2> QED BY <2>1
  <1>9. IsFiniteSet(c \cup first) /\ Cardinality(c \cup first) = Cardinality(c) + n
    <2> HIDE DEF first, n
    <2>1. IsFiniteSet(c \cup first)
          /\ Cardinality(c \cup first) = Cardinality(c) + Cardinality(first) - Cardinality(c \cap first)
      BY <1>2, <1>6, FS_Union
    <2>2. Cardinality(c \cap first) = 0 BY <1>7, FS_EmptySet
    <2> QED BY <1>2, <1>4, <1>6, <2>1, <2>2
  <1> HIDE DEF room
  <1>10. /\ rest \in Seq(Hosts) /\ Len(rest) = Len(q) - n
         /\ \A i \in 1 .. Len(rest) : rest[i] = q[n + i]
    <2> HIDE DEF n
    <2> QED BY <1>3, <1>4
  <1> HIDE DEF n, rest
  <1>11. ConnectsAreSound(rest, c \cup first)
    <2>1. \A i \in 1 .. Len(rest) : n + i \in 1 .. Len(q) /\ n + i \notin 1 .. n BY <1>3, <1>4, <1>10
    <2>2. \A i, j \in 1 .. Len(rest) : rest[i] = rest[j] => i = j
      <3> SUFFICES ASSUME NEW i \in 1 .. Len(rest), NEW j \in 1 .. Len(rest), rest[i] = rest[j]
                   PROVE  i = j
        OBVIOUS
      <3>1. n + i = n + j BY <1>5, <1>10, <2>1
      <3> QED BY <1>3, <1>4, <1>10, <3>1
    <2>3. \A i \in 1 .. Len(rest) : rest[i] \notin c \cup first
      <3> SUFFICES ASSUME NEW i \in 1 .. Len(rest) PROVE rest[i] \notin c \cup first OBVIOUS
      <3>1. rest[i] \notin c BY <1>10, <2>1 DEF ConnectsAreSound
      <3>2. \A k \in 1 .. n : k \in 1 .. Len(q) BY <1>3, <1>4
      <3>3. \A k \in 1 .. n : rest[i] # q[k] BY <1>5, <1>10, <2>1, <3>2
      <3> QED BY <3>1, <3>3
    <2> QED BY <1>9, <2>2, <2>3 DEF ConnectsAreSound
  <1> HIDE DEF first
  <1>12. rest # <<>> => c \cup first # {}
    <2> SUFFICES ASSUME rest # <<>> PROVE Cardinality(c \cup first) # 0 BY FS_EmptySet
    <2>1. n = room BY <1>3, <1>4, <1>10
    <2> QED BY <1>2, <1>3, <1>4, <1>9, <2>1
  <1>13. Fits(c, c \cup first)
    <2>1. CASE n = 0 BY <1>6, <2>1, FS_EmptySet DEF Fits
    <2>2. CASE n # 0
      <3>1. Cardinality(c \cup first) <= svc.fanOut BY <1>2, <1>3, <1>4, <1>9, <2>2
      <3> QED BY <3>1 DEF Fits
    <2> QED BY <2>1, <2>2
  <1>14. reg' \in [Hosts -> RegStates] BY <1>1 DEF SetState, RegStates
  <1>15. \A h \in Hosts : reg'[h] = "Connecting" => h \in c \cup first BY <1>1
  <1> QED BY <1>1, <1>8, <1>10, <1>11, <1>12, <1>13, <1>14, <1>15 DEF FanOutIsServed

\* enqueueConnect, from states in which whoever is Connecting is being connected.
LEMMA EnqueueSound ==
  ASSUME IInv, NEW h \in Hosts, NEW byHand, NEW recent, NEW st \in [Hosts -> RegStates],
         \A x \in Hosts : st[x] = "Connecting" => x \in connecting,
         Enqueue(h, byHand, recent, st)
  PROVE  /\ queue' \in Seq(Hosts) /\ connecting' \in SUBSET Hosts /\ reg' \in [Hosts -> RegStates]
         /\ ConnectsAreSound(queue', connecting')
         /\ FanOutIsServed'
         /\ Fits(connecting, connecting')
  <1> DEFINE skipped == \/ h \in connecting \cup ToSet(queue)
                        \/ ~byHand /\ recent /\ st[h] = "Unauthorized"
             longer == Append(queue, h)
  <1>1. /\ queue \in Seq(Hosts) /\ connecting \in SUBSET Hosts /\ svc \in Settings
        /\ ConnectsAreSound(queue, connecting)
    BY DEF IInv, TypeOK
  <1>2. CASE skipped
    <2>1. reg' = st /\ UNCHANGED <<queue, connecting>> BY <1>2 DEF Enqueue
    <2>2. queue # <<>> => connecting # {} BY DEF IInv, DiscoveryNeverStalls, FanOutIsServed
    <2> QED BY <1>1, <2>1, <2>2 DEF FanOutIsServed, Fits
  <1>3. CASE ~skipped
    <2>1. PumpConnects(longer, connecting, st) BY <1>3 DEF Enqueue
    <2>2. h \notin connecting /\ \A i \in 1 .. Len(queue) : queue[i] # h
      BY <1>1, <1>3 DEF ToSet
    <2>3. longer \in Seq(Hosts) BY <1>1
    <2>4. /\ Len(longer) = Len(queue) + 1 /\ Len(queue) \in Nat
          /\ \A i \in 1 .. Len(longer) : longer[i] = IF i = Len(queue) + 1 THEN h ELSE queue[i]
      BY <1>1
    <2> HIDE DEF longer
    <2>5. \A i \in 1 .. Len(longer) : i = Len(queue) + 1 \/ i \in 1 .. Len(queue) BY <2>4
    <2>6. \A i, j \in 1 .. Len(longer) : longer[i] = longer[j] => i = j
      BY <1>1, <2>2, <2>4, <2>5 DEF ConnectsAreSound
    <2>7. \A i \in 1 .. Len(longer) : longer[i] \notin connecting
      BY <1>1, <2>2, <2>4, <2>5 DEF ConnectsAreSound
    <2>8. ConnectsAreSound(longer, connecting) BY <1>1, <2>6, <2>7 DEF ConnectsAreSound
    <2> QED BY <1>1, <2>1, <2>3, <2>8, PumpSound
  <1> QED BY <1>2, <1>3

\* What the registry makes of an answer never parks a device in Connecting.
LEMMA StatesAreSound ==
  ASSUME NEW st \in [Hosts -> RegStates], NEW h \in Hosts, NEW s \in RegStates \ {"Connecting"}
  PROVE  /\ SetState(st, h, s) \in [Hosts -> RegStates]
         /\ MarkDiscovered(st, h) \in [Hosts -> RegStates]
         /\ \A x \in Hosts : SetState(st, h, s)[x] = "Connecting" =>
               st[x] = "Connecting" /\ (x # h \/ st[h] = "Absent")
         /\ \A x \in Hosts : MarkDiscovered(st, h)[x] = "Connecting" => st[x] = "Connecting"
  BY DEF SetState, MarkDiscovered, RegStates

LEMMA ConnectingNow ==
  ASSUME IInv, NEW st \in [Hosts -> RegStates],
         \A x \in Hosts : st[x] = "Connecting" => reg[x] = "Connecting"
  PROVE  \A x \in Hosts : st[x] = "Connecting" => x \in connecting
  BY DEF IInv, DiscoveryNeverStalls, FanOutIsServed
-----------------------------------------------------------------------------
(* The handlers, by what they leave alone *)

\* Only the settings and the sweep move.
LEMMA SweepStep ==
  ASSUME IInv, svc' \in Settings, scanning' \in BOOLEAN, SweepsKeepComing',
         UNCHANGED connects
  PROVE  Kept
  <1> USE DEF IInv, DiscoveryNeverStalls, connects
  <1>1. TypeOK' BY DEF TypeOK
  <1>2. ConnectsAreSound(queue, connecting)' BY DEF ConnectsAreSound
  <1>3. FanOutIsServed' BY DEF FanOutIsServed
  <1> QED BY <1>1, <1>2, <1>3 DEF Kept, Fits

\* Only connects and states move.
LEMMA ConnectStep ==
  ASSUME IInv, UNCHANGED <<svc, scanning>>,
         queue' \in Seq(Hosts), connecting' \in SUBSET Hosts, reg' \in [Hosts -> RegStates],
         ConnectsAreSound(queue', connecting'),
         FanOutIsServed',
         Fits(connecting, connecting')
  PROVE  Kept
  <1> USE DEF IInv, DiscoveryNeverStalls
  <1>1. TypeOK' BY DEF TypeOK
  <1>2. SweepsKeepComing' BY DEF SweepsKeepComing
  <1> QED BY <1>1, <1>2 DEF ConnectsAreSound, Kept

\* The states move, and no device is parked in Connecting by it.
LEMMA StateStep ==
  ASSUME IInv, UNCHANGED <<svc, scanning, queue, connecting>>,
         reg' \in [Hosts -> RegStates],
         \A x \in Hosts : reg'[x] = "Connecting" => reg[x] = "Connecting"
  PROVE  Kept
  <1>1. FanOutIsServed' BY DEF IInv, DiscoveryNeverStalls, FanOutIsServed
  <1>2. ConnectsAreSound(queue', connecting') BY DEF IInv
  <1>3. queue' \in Seq(Hosts) /\ connecting' \in SUBSET Hosts /\ Fits(connecting, connecting')
    BY DEF IInv, TypeOK, Fits
  <1> QED BY <1>1, <1>2, <1>3, ConnectStep
-----------------------------------------------------------------------------
(* Settings and sweeps *)

LEMMA SettingChangesSound ==
  ASSUME IInv, SettingChanges
  PROVE  Kept
  <1>1. svc \in Settings /\ scanning \in BOOLEAN BY DEF IInv, TypeOK
  <1>2. UNCHANGED <<scanning, connects>> BY DEF SettingChanges, sweep
  <1>3. PICK s \in Settings : svc' = [s EXCEPT !.timer = s.auto /\ (@ \/ ~scanning)]
    <2>1. CASE svc' = Applied([svc EXCEPT !.auto = ~@]) BY <1>1, <2>1 DEF Applied, Settings
    <2>2. CASE svc' = Applied([svc EXCEPT !.subnetOk = ~@]) BY <1>1, <2>2 DEF Applied, Settings
    <2>3. CASE \E fanOut \in FanOuts : svc' = Applied([svc EXCEPT !.fanOut = fanOut])
      BY <1>1, <2>3 DEF Applied, Settings
    <2> QED BY <2>1, <2>2, <2>3 DEF SettingChanges
  <1>4. svc' \in Settings BY <1>1, <1>3 DEF Settings
  <1>5. SweepsKeepComing'
    <2>1. svc'.timer = (s.auto /\ (s.timer \/ ~scanning)) /\ svc'.auto = s.auto
      BY <1>3 DEF Settings
    <2> QED BY <1>1, <1>2, <2>1 DEF SweepsKeepComing, Settings
  <1> QED BY <1>1, <1>2, <1>4, <1>5, SweepStep

\* A sweep that begins is one that is on.
LEMMA BeginSweepSound ==
  ASSUME IInv, NEW s \in Settings, NEW byHand \in BOOLEAN, BeginSweep(s, byHand)
  PROVE  Kept
  <1>1. svc' = [s EXCEPT !.manual = byHand] /\ scanning' = TRUE /\ UNCHANGED connects
    BY DEF BeginSweep, Scanner!Begin
  <1>2. svc' \in Settings /\ SweepsKeepComing' BY <1>1 DEF Settings, SweepsKeepComing
  <1> QED BY <1>1, <1>2, SweepStep

LEMMA FullScanTimerSound ==
  ASSUME IInv, FullScanTimer
  PROVE  Kept
  <1> DEFINE fired == [svc EXCEPT !.timer = FALSE]
  <1>1. svc \in Settings /\ scanning \in BOOLEAN BY DEF IInv, TypeOK
  <1>2. fired \in Settings /\ fired.subnetOk = svc.subnetOk BY <1>1 DEF Settings
  <1>3. CASE scanning \/ ~svc.subnetOk
    <2>1. svc' = fired /\ UNCHANGED <<scanning, connects>>
      BY <1>3 DEF FullScanTimer, sweep
    <2>2. SweepsKeepComing' BY <1>2, <1>3, <2>1 DEF SweepsKeepComing
    <2> QED BY <1>1, <1>2, <2>1, <2>2, SweepStep
  <1>4. CASE ~(scanning \/ ~svc.subnetOk)
    <2>1. BeginSweep(fired, FALSE) BY <1>4 DEF FullScanTimer
    <2> HIDE DEF fired
    <2> QED BY <1>2, <2>1, BeginSweepSound
  <1> QED BY <1>3, <1>4

LEMMA OnScannerFinishedSound ==
  ASSUME IInv, NEW cancelled \in BOOLEAN, OnScannerFinished(cancelled)
  PROVE  Kept
  <1>1. svc \in Settings /\ reg \in [Hosts -> RegStates] BY DEF IInv, TypeOK
  <1>2. /\ scanning' = FALSE
        /\ svc' = [svc EXCEPT !.timer = @ \/ svc.auto]
        /\ UNCHANGED <<queue, connecting>>
    BY DEF OnScannerFinished, Scanner!End
  <1>3. svc' \in Settings BY <1>1, <1>2 DEF Settings
  <1>4. SweepsKeepComing'
    <2>1. svc'.timer = (svc.timer \/ svc.auto) /\ svc'.auto = svc.auto BY <1>1, <1>2 DEF Settings
    <2> QED BY <2>1 DEF SweepsKeepComing
  <1>5. reg' \in [Hosts -> RegStates] BY <1>1 DEF OnScannerFinished, RegStates
  <1>6. \A h \in Hosts : reg'[h] = "Connecting" => reg[h] = "Connecting" BY DEF OnScannerFinished
  <1>7. FanOutIsServed' BY <1>2, <1>6 DEF IInv, DiscoveryNeverStalls, FanOutIsServed
  <1>8. TypeOK' BY <1>2, <1>3, <1>5 DEF IInv, TypeOK
  <1>9. ConnectsAreSound(queue, connecting)' BY <1>2 DEF IInv, ConnectsAreSound
  <1> QED BY <1>2, <1>4, <1>7, <1>8, <1>9 DEF IInv, DiscoveryNeverStalls, Kept, Fits
-----------------------------------------------------------------------------
(* Listings *)

LEMMA ListingHandledSound ==
  ASSUME IInv, NEW listing \in [Hosts -> AdbStates], ListingHandled(listing)
  PROVE  Kept
  <1> DEFINE now == {h \in Hosts : listing[h] = "device"}
             upserted == Upserted(reg, listing)
  <1>1. reg \in [Hosts -> RegStates] BY DEF IInv, TypeOK
  <1>2. upserted \in [Hosts -> RegStates] BY <1>1 DEF Upserted, RegStates
  <1>3. \A h \in Hosts : upserted[h] = "Connecting" => reg[h] = "Connecting" BY <1>1 DEF Upserted
  <1>4. reg' = [h \in Hosts |-> IF h \in online \ now /\ listing[h] = "absent"
                               THEN SetState(upserted, h, "Offline")[h] ELSE upserted[h]]
    BY DEF ListingHandled
  <1>5. UNCHANGED <<svc, scanning, queue, connecting>> BY DEF ListingHandled, sweep
  <1> HIDE DEF now, upserted
  <1>6. reg' \in [Hosts -> RegStates] BY <1>2, <1>4 DEF SetState, RegStates
  <1>7. \A h \in Hosts : reg'[h] = "Connecting" => reg[h] = "Connecting" BY <1>2, <1>3, <1>4 DEF SetState
  <1> QED BY <1>5, <1>6, <1>7, StateStep

LEMMA MdnsFoundSound ==
  ASSUME IInv, NEW h \in Hosts, NEW recent \in BOOLEAN, NEW autoConnect \in BOOLEAN,
         MdnsFound(h, recent, autoConnect)
  PROVE  Kept
  <1> DEFINE marked == MarkDiscovered(reg, h)
  <1>1. reg \in [Hosts -> RegStates]
    BY DEF IInv, TypeOK
  <1>2. "Offline" \in RegStates \ {"Connecting"} BY DEF RegStates
  <1>3. marked \in [Hosts -> RegStates] /\ \A x \in Hosts : marked[x] = "Connecting" => reg[x] = "Connecting"
    BY <1>1, <1>2, StatesAreSound
  <1>4. UNCHANGED <<svc, scanning>> BY DEF MdnsFound, sweep
  <1>5. CASE h \in online \/ ~autoConnect
    <2>1. reg' = marked /\ UNCHANGED <<queue, connecting>> BY <1>5 DEF MdnsFound
    <2> HIDE DEF marked
    <2> QED BY <1>1, <1>3, <1>4, <2>1, StateStep
  <1>6. CASE ~(h \in online \/ ~autoConnect)
    <2>1. Enqueue(h, FALSE, recent, marked) BY <1>6 DEF MdnsFound
    <2> HIDE DEF marked
    <2>2. \A x \in Hosts : marked[x] = "Connecting" => x \in connecting BY <1>3, ConnectingNow
    <2> QED BY <1>1, <1>3, <1>4, <2>1, <2>2, EnqueueSound, ConnectStep
  <1> QED BY <1>5, <1>6

LEMMA OnScannerHostSound ==
  ASSUME IInv, NEW h \in Hosts, NEW recent \in BOOLEAN, NEW autoConnect \in BOOLEAN,
         OnScannerHost(h, recent, autoConnect)
  PROVE  Kept
  <1> DEFINE marked == MarkDiscovered(reg, h)
  <1>1. reg \in [Hosts -> RegStates]
    BY DEF IInv, TypeOK
  <1>2. "Offline" \in RegStates \ {"Connecting"} BY DEF RegStates
  <1>3. marked \in [Hosts -> RegStates] /\ \A x \in Hosts : marked[x] = "Connecting" => reg[x] = "Connecting"
    BY <1>1, <1>2, StatesAreSound
  <1>4. UNCHANGED <<svc, scanning>> BY DEF OnScannerHost, Scanner!Report
  <1>5. CASE h \in online \/ ~(svc.manual \/ autoConnect)
    <2>1. reg' = marked /\ UNCHANGED <<queue, connecting>> BY <1>5 DEF OnScannerHost
    <2> HIDE DEF marked
    <2> QED BY <1>1, <1>3, <1>4, <2>1, StateStep
  <1>6. CASE ~(h \in online \/ ~(svc.manual \/ autoConnect))
    <2>1. Enqueue(h, svc.manual, recent, marked) BY <1>6 DEF OnScannerHost
    <2> HIDE DEF marked
    <2>2. \A x \in Hosts : marked[x] = "Connecting" => x \in connecting BY <1>3, ConnectingNow
    <2> QED BY <1>1, <1>3, <1>4, <2>1, <2>2, EnqueueSound, ConnectStep
  <1> QED BY <1>5, <1>6
-----------------------------------------------------------------------------
(* adb connect and disconnect *)

LEMMA ConnectEndpointSound ==
  ASSUME IInv, NEW h \in Hosts, ConnectEndpoint(h)
  PROVE  Kept
  <1> DEFINE marked == MarkDiscovered(reg, h)
  <1>1. reg \in [Hosts -> RegStates]
    BY DEF IInv, TypeOK
  <1>2. "Offline" \in RegStates \ {"Connecting"} BY DEF RegStates
  <1>3. marked \in [Hosts -> RegStates] /\ \A x \in Hosts : marked[x] = "Connecting" => reg[x] = "Connecting"
    BY <1>1, <1>2, StatesAreSound
  <1>4. Enqueue(h, TRUE, FALSE, marked) /\ UNCHANGED <<svc, scanning>>
    BY DEF ConnectEndpoint, sweep
  <1> HIDE DEF marked
  <1>5. \A x \in Hosts : marked[x] = "Connecting" => x \in connecting BY <1>3, ConnectingNow
  <1> QED BY <1>1, <1>3, <1>4, <1>5, EnqueueSound, ConnectStep

\* The answer makes room for one: the endpoint is taken out before the queue is looked at.
LEMMA ConnectAnswerSound ==
  ASSUME IInv, NEW h \in Hosts, NEW ok \in BOOLEAN, ConnectAnswer(h, ok)
  PROVE  Kept
  <1> DEFINE s == IF ok THEN "Discovered" ELSE "Offline"
             st == SetState(reg, h, s)
             rest == connecting \ {h}
  <1>1. /\ reg \in [Hosts -> RegStates] /\ queue \in Seq(Hosts) /\ connecting \in SUBSET Hosts
        /\ svc \in Settings
    BY DEF IInv, TypeOK
  <1>2. h \in connecting /\ PumpConnects(queue, rest, st) /\ UNCHANGED <<svc, scanning>>
    BY DEF ConnectAnswer, sweep
  <1>3. s \in RegStates \ {"Connecting"} BY DEF RegStates
  <1>4. /\ st \in [Hosts -> RegStates]
        /\ \A x \in Hosts : st[x] = "Connecting" => reg[x] = "Connecting" /\ (x # h \/ reg[h] = "Absent")
    BY <1>1, <1>3, StatesAreSound
  <1> HIDE DEF s, st
  <1>5. \A x \in Hosts : st[x] = "Connecting" => x \in rest
    BY <1>4 DEF IInv, DiscoveryNeverStalls, FanOutIsServed
  <1>6. ConnectsAreSound(queue, rest)
    <2>1. ConnectsAreSound(queue, connecting) BY DEF IInv
    <2>2. IsFiniteSet(rest) BY <2>1, FS_RemoveElement DEF ConnectsAreSound
    <2> QED BY <2>1, <2>2 DEF ConnectsAreSound
  <1>7. rest \in SUBSET Hosts /\ rest \subseteq connecting BY <1>1
  <1> HIDE DEF rest
  <1>8. /\ queue' \in Seq(Hosts) /\ connecting' \in SUBSET Hosts /\ reg' \in [Hosts -> RegStates]
        /\ ConnectsAreSound(queue', connecting') /\ FanOutIsServed' /\ Fits(rest, connecting')
    BY <1>1, <1>2, <1>4, <1>5, <1>6, <1>7, PumpSound
  <1>9. Fits(connecting, connecting') BY <1>7, <1>8 DEF Fits
  <1> QED BY <1>2, <1>8, <1>9, ConnectStep

LEMMA DisconnectedSound ==
  ASSUME IInv, NEW h \in Hosts, Disconnected(h)
  PROVE  Kept
  <1> DEFINE st == SetState(reg, h, "Offline")
  <1>1. reg \in [Hosts -> RegStates] BY DEF IInv, TypeOK
  <1>2. reg' = st /\ UNCHANGED <<svc, scanning, queue, connecting>> BY DEF Disconnected, sweep
  <1>3. "Offline" \in RegStates \ {"Connecting"} BY DEF RegStates
  <1>4. st \in [Hosts -> RegStates] /\ \A x \in Hosts : st[x] = "Connecting" => reg[x] = "Connecting"
    BY <1>1, <1>3, StatesAreSound
  <1> HIDE DEF st
  <1> QED BY <1>2, <1>4, StateStep
-----------------------------------------------------------------------------
LEMMA InitSound == Init => IInv
  <1> SUFFICES ASSUME Init PROVE IInv OBVIOUS
  <1>1. TypeOK
    <2>1. svc \in Settings BY DEF Init, Settings
    <2>2. scanning = FALSE /\ queue = <<>> /\ connecting = {} BY DEF Init, Scanner!Init
    <2>3. reg \in [Hosts -> RegStates] BY DEF Init, RegStates
    <2>4. <<>> \in Seq(Hosts) OBVIOUS
    <2> QED BY <2>1, <2>2, <2>3, <2>4 DEF TypeOK
  <1>2. ConnectsAreSound(queue, connecting)
    <2>1. queue = <<>> /\ connecting = {} BY DEF Init
    <2>2. IsFiniteSet({}) BY FS_EmptySet
    <2>3. Len(<<>>) = 0 OBVIOUS
    <2> QED BY <2>1, <2>2, <2>3 DEF ConnectsAreSound
  <1>3. DiscoveryNeverStalls BY DEF Init, DiscoveryNeverStalls, FanOutIsServed, SweepsKeepComing
  <1> QED BY <1>1, <1>2, <1>3 DEF IInv

LEMMA StepSound == IInv /\ [Next]_vars => Kept
  <1> SUFFICES ASSUME IInv, [Next]_vars PROVE Kept OBVIOUS
  <1>0. /\ svc \in Settings /\ scanning \in BOOLEAN /\ reg \in [Hosts -> RegStates]
        /\ SweepsKeepComing
    BY DEF IInv, TypeOK, DiscoveryNeverStalls
  <1>1. CASE SettingChanges BY <1>1, SettingChangesSound
  <1>2. CASE QuickRefresh \/ ListingFails
    <2>1. UNCHANGED <<svc, scanning, queue, connecting, reg>>
      BY <1>2 DEF QuickRefresh, ListingFails, sweep, connects
    <2> QED BY <1>0, <2>1, StateStep
  <1>3. ASSUME NEW listing \in [Hosts -> AdbStates], ListingHandled(listing) PROVE Kept
    BY <1>3, ListingHandledSound
  <1>4. ASSUME NEW h \in Hosts, NEW recent \in BOOLEAN, NEW autoConnect \in BOOLEAN,
               MdnsFound(h, recent, autoConnect)
        PROVE  Kept
    BY <1>4, MdnsFoundSound
  <1>5. CASE FullScanTimer BY <1>5, FullScanTimerSound
  <1>6. CASE ScanNow BY <1>0, <1>6, BeginSweepSound DEF ScanNow
  <1>7. CASE ConnectRange BY <1>0, <1>7, BeginSweepSound DEF ConnectRange
  <1>8. ASSUME NEW h \in Hosts, NEW recent \in BOOLEAN, NEW autoConnect \in BOOLEAN,
               OnScannerHost(h, recent, autoConnect)
        PROVE  Kept
    BY <1>8, OnScannerHostSound
  <1>9. CASE NoAnswer
    <2>1. UNCHANGED <<svc, scanning, connects>> BY <1>9 DEF NoAnswer, Scanner!Miss
    <2>2. SweepsKeepComing' BY <1>0, <2>1 DEF SweepsKeepComing
    <2> QED BY <1>0, <2>1, <2>2, SweepStep
  <1>10. ASSUME NEW cancelled \in BOOLEAN, OnScannerFinished(cancelled) PROVE Kept
    BY <1>10, OnScannerFinishedSound
  <1>11. ASSUME NEW h \in Hosts, ConnectEndpoint(h) PROVE Kept BY <1>11, ConnectEndpointSound
  <1>12. ASSUME NEW h \in Hosts, NEW ok \in BOOLEAN, ConnectAnswer(h, ok) PROVE Kept
    BY <1>12, ConnectAnswerSound
  <1>13. ASSUME NEW h \in Hosts, Disconnected(h) PROVE Kept BY <1>13, DisconnectedSound
  <1>14. CASE UNCHANGED vars
    <2>1. UNCHANGED <<svc, scanning, queue, connecting, reg>> BY <1>14 DEF vars, sweep, connects
    <2> QED BY <1>0, <2>1, StateStep
  <1> QED BY <1>1, <1>2, <1>3, <1>4, <1>5, <1>6, <1>7, <1>8, <1>9, <1>10, <1>11, <1>12, <1>13, <1>14
          DEF Next

LEMMA AlwaysIInv == Spec => []IInv
  <1>1. IInv /\ [Next]_vars => IInv' BY StepSound DEF Kept
  <1> QED BY <1>1, InitSound, PTL DEF Spec

\* Nothing of discovery waits for something nobody will do, however the settings change
\* meanwhile: an endpoint waits only while an answer is due that looks at the queue, a
\* device is Connecting only while adb is, and while discovery is automatic the next
\* sweep is on or its timer is armed.
THEOREM DiscoveryNeverStallsEver == Spec => []DiscoveryNeverStalls
  <1>1. IInv => DiscoveryNeverStalls BY DEF IInv
  <1> QED BY <1>1, AlwaysIInv, PTL

\* An endpoint is connected once at a time, however many sweeps, listings and operators
\* name it, and no connect is begun beyond the limit of that moment; more than the limit
\* are under way only when it was lowered after they began.
THEOREM ConnectsAreBounded ==
  Spec => /\ []ConnectsAreSound(queue, connecting)
          /\ [][Fits(connecting, connecting')]_vars
  <1>1. IInv => ConnectsAreSound(queue, connecting) BY DEF IInv
  <1>2. IInv /\ [Next]_vars => [Fits(connecting, connecting')]_vars BY StepSound DEF Kept
  <1> QED BY <1>1, <1>2, AlwaysIInv, PTL DEF Spec
=============================================================================

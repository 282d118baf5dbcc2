----------------------------- MODULE MCFleetParts -----------------------------
(***************************************************************************)
(* Three components that share no state: the leases, the sweep of the        *)
(* network on its two threads, and the registry with its tables.  One run     *)
(* takes them in turn: `part` says which of them moves, the other two rest    *)
(* where they started.                                                     *)
(*                                                                         *)
(* Three owners for two or three ports.  Three hosts and room for two         *)
(* sockets: the queue is full, and drains.  Two devices, two group names: a   *)
(* device joins a group while the other is dirty, a group is renamed to a     *)
(* name in use, a number is taken twice.                                     *)
(***************************************************************************)
EXTENDS ConnectionIdAllocator, NetworkScanner, DeviceRegistry, Integers, TLC

VARIABLE part

Parts == {"leases", "scanner", "registry"}

\* A program whose leases rest is set to use any one range.
Init ==
    /\ part \in Parts
    /\ LeaseInit /\ ScanInit /\ RegistryInit
    /\ part # "leases" => range = CHOOSE r \in Ranges : TRUE

LeasesMove   == part = "leases" /\ LeaseNext /\ UNCHANGED <<part, scanVars, registryVars>>
ScannerMoves == part = "scanner" /\ ScanNext /\ UNCHANGED <<part, leaseVars, registryVars>>
RegistryMoves == part = "registry" /\ RegistryNext /\ UNCHANGED <<part, leaseVars, scanVars>>

Next == LeasesMove \/ ScannerMoves \/ RegistryMoves

vars == <<part, leaseVars, scanVars, registryVars>>

\* The fairness of the scanner, which is at rest while another part moves.
Spec == Init /\ [][Next]_vars /\ WF_scanVars(WorkerStep) /\ WF_scanVars(GuiStep)

\* Nothing is promised of the registry after a write the database refused: such a state is
\* reached and checked, and not continued.  (The temporal properties are about the leases
\* and the scanner, which the constraint does not cut.)
EveryWriteTaken == ~failed
-----------------------------------------------------------------------------
(* Addresses of eight bits: the ranges a sweep is given and the order of devices. *)

Ip == INSTANCE Ipv4 WITH OctetBits <- 2

\* Addresses at both ends of the space and of blocks of several sizes, and inside.
Corners == {0, 1, 2, 3, 4, 6, 7, 63, 64, 65, 126, 127, 128, 191, 252, 253, 254, 255}

Texts ==
    {Ip!Cidr(b, p) : b \in Corners, p \in -1..(Ip!Bits + 1)}
    \cup {Ip!Dash(a, b) : a, b \in Corners}
    \cup {Ip!DashOctet(a, n) : a \in Corners, n \in 0..5}
    \cup {Ip!Single(a) : a \in Corners}

Endpoints ==
    {[ip |-> TRUE, address |-> a, port |-> p] : a \in 0..2, p \in {5554, 5555}}
    \cup {[ip |-> FALSE, name |-> n] : n \in 1..3}

ASSUME RangesExpandAsMeant == \A text \in Texts : \A max \in {0, 5, 300} : Ip!ExpandsAsMeant(text, max)
ASSUME DevicesAreSorted == Ip!IsStrictWeakOrder(Endpoints)
-----------------------------------------------------------------------------
(* What the program writes down about itself, on a few lines. *)

Log == INSTANCE Logs WITH MaxFiles <- 3, MaxLines <- 2, Lines <- 6, Capacity <- 2

From(what, s) == Log!Reached(what, {s}, {s})

\* Three files of two lines with the program ending anywhere; one session after the other; two
\* threads that post.
ASSUME LogsAreKept ==
    /\ \A s \in From("writing", Log!NewLog) : Log!LogIsUnbroken(s)
    /\ \A s \in From("one marked", Log!NewMarker) : Log!CrashIsTold(s)
    /\ \A s \in From("posting", Log!NewActivity) : Log!EntriesAreInOrder(s) /\ Log!PageShowsLog(s)

\* A file that does not open ends the log, a second control center hides the end of the first,
\* and the page has entries the log has dropped, in the order they arrived.
ASSUME LogGaps ==
    /\ \E s \in From("failing", Log!NewLog) : ~Log!LogIsUnbroken(s)
    /\ \E s \in From("two marked", Log!NewMarker) : ~Log!CrashIsTold(s)
    /\ \E s \in From("posting", Log!NewActivity) : ~Log!TimesAreInOrder(s)
    /\ \E s \in From("posting", Log!NewActivity) : ~Log!PageIsBounded(s)
-----------------------------------------------------------------------------
(* The wall that shows the devices, on what two or three of them do; what the farm *)
(* does for them unasked, on one phone at a time; and the file they are kept in, on *)
(* two processes.                                                            *)

Wall == INSTANCE DeviceWall

\* Every state within the steps from a wall of tiles.
SoundFor(what, ids, start, steps) == \A w \in Wall!Reached(what, ids, {start}, {}, steps) : Wall!WallIsSound(w)

ASSUME SelectionsAreSound == SoundFor("selecting", {1, 2, 3}, Wall!NewWall({1, 2, 3}, 1), 3)
ASSUME PicturesAreFresh   == SoundFor("watching", {1, 2, 3}, Wall!Placed({1, 2, 3}, 1), 6)
ASSUME PressesAreSound    == SoundFor("driving", {1, 2}, Wall!Streaming({1, 2}), 6)
ASSUME WallGaps           == Wall!GapsAreReal

Care == INSTANCE DeviceCare WITH MaxFlight <- 2

FleetOf(n)               == [round |-> Care!Fresh, age |-> [d \in 1..n |-> 0]]
Cared(start, calm)       == Care!Cared({start}, {start}, calm)
Ailed(reads, thresholds) == Care!Ailed({Care!Patient}, {Care!Patient}, reads, thresholds)

\* A quarter and a sixth of any fleet at a tick, and one that comes and goes.
ASSUME RoundsAreShort == \A n \in 1..200, parts \in {4, 6} : Care!RoundsAreShort(n, parts)
ASSUME NobodyWaits    == \A s \in Care!Ticked({FleetOf(3)}, {FleetOf(3)}, 2) : Care!NobodyWaits(s, 2)

\* What a calm user is told of keep-awake is true; not so with a lock screen that hides a
\* refusal, nor for answers that cross.
ASSUME StatusIsTrue == \A refuses, waking \in BOOLEAN :
    \A p \in Cared(Care!Phone(refuses, waking, FALSE), TRUE) : Care!StatusIsTrue(p)
ASSUME StatusGaps ==
    /\ \E p \in Cared(Care!Phone(TRUE, FALSE, TRUE), TRUE) : ~Care!StatusIsTrue(p)
    /\ \E p \in Cared(Care!Phone(FALSE, FALSE, FALSE), FALSE) : ~Care!StatusIsTrue(p)

\* Two thresholds with every level read, one with levels missing; a level that is missing
\* while the user raises the threshold is the event's.
ASSUME HealthEvents ==
    \A h \in Ailed(TRUE, {5, 15}) \cup Ailed(FALSE, {15}) :
        Care!EventsTakeTurns(h) /\ Care!IdentityIsKnown(h) /\ Care!EventsHaveLevels(h)
ASSUME HealthGap == \E h \in Ailed(FALSE, {5, 15, 25}) : ~Care!EventsHaveLevels(h)

Store == INSTANCE Storage WITH Latest <- 2, Statements <- 2, Seeds <- 2

\* Where processes 1..n may leave file f, when these things may go wrong.
FilesFrom(f, n, faults) == LET s == Store!Opened(f, 1..n) IN Store!Files({s}, {s}, faults)

\* Two processes open a new or an old file, fail to read it, or die, at any point: whoever has
\* it open finds every table (database.cpp), and a newer file is not written to.
ASSUME FilesAreWhole ==
    \A f \in {Store!NewFile, Store!FileOf(1)} :
        \A s \in FilesFrom(f, 2, {"read", "crash"}) : Store!FileIsWhole(s) /\ Store!OpensAreWhole(s)
ASSUME NewerIsLeftAlone ==
    \A s \in FilesFrom(Store!FileOf(3), 2, {"crash"}) : Store!NewerIsLeftAlone(s, Store!FileOf(3))

\* The commands of a first start are saved once, and all of them by one that lives.
ASSUME SeedsAreSaved ==
    /\ \A s \in FilesFrom(Store!NewFile, 1, {}) : Store!SeedsAreOnce(s) /\ Store!SeedsAreThere(s)
    /\ \A s \in FilesFrom(Store!NewFile, 1, {"crash"}) : Store!SeedsAreOnce(s)

\* None of the exceptions can be dropped.
ASSUME StorageGaps ==
    /\ \E s \in FilesFrom(Store!NewFile, 1, {"commit"}) : ~Store!OpensAreWhole(s)
    /\ \E s \in FilesFrom(Store!FileOf(3), 1, {"read"}) : ~Store!NewerIsLeftAlone(s, Store!FileOf(3))
    /\ \E s \in FilesFrom(Store!NewFile, 1, {"crash"}) : ~Store!SeedsAreThere(s)
    /\ \E s \in FilesFrom(Store!NewFile, 2, {}) : ~Store!SeedsAreOnce(s)
    /\ \E s \in FilesFrom(Store!NewFile, 1, {"read"}) : ~Store!SeedsAreOnce(s)

\* Three threads, four connections; a close that does not wait for a thread inside
\* connection() leaves one behind.
ConnectionsOf(orderly) == LET c == Store!Closed(1..3) IN Store!Connected({c}, {c}, orderly, 4)

ASSUME ConnectionsAreOwned == \A c \in ConnectionsOf(TRUE) : Store!ConnectionsAreOwned(c)
ASSUME ConnectionGap       == \E c \in ConnectionsOf(FALSE) : ~Store!ConnectionsAreOwned(c)
ASSUME BackupsAreNewest    ==
    \A vacuum, copied \in BOOLEAN, k \in {"done", "busy"} : Store!BackupIsNewest(2, 1, vacuum, k, copied)

Order == INSTANCE DeviceOrder

Ranked(d) == {[Order!Record(d) EXCEPT !.number = n, !.latency = v, !.battery = v, !.name = v] :
                  n \in -1..2, v \in -1..1}
Stated(d) == {[Order!Record(d) EXCEPT !.group = g, !.state = s, !.live = l, !.favorite = (g = 1)] :
                  g \in 0..1, s \in {"Offline", "Error", "AdbOnline"}, l \in BOOLEAN}

\* Three devices in any order, two in any state and group.
ASSUME OrdersAreStrict ==
    \A f \in {<<a, b, c>> : a \in Ranked(1), b \in Ranked(2), c \in Ranked(3)} :
        Order!OrderIsStrict(f) /\ Order!NumberIsFree(f)
ASSUME ListsAreKept ==
    \A f \in {<<a, b>> : a \in Stated(1), b \in Stated(2)}, group \in 0..1 :
        /\ \A filter \in Order!Filters, hits \in SUBSET {1, 2} :
               Order!ShownAreKept(f, filter, group, hits, "Number")
        /\ \A mode \in {"group", "online"} : Order!TargetsAreMeant(f, mode, group)

\* A phone that was in two groups of v2.0.
Legacy == <<[name |-> 1, serials |-> {1, 2}], [name |-> 2, serials |-> {2, 3}]>>

ASSUME GroupsAreImported == Order!ImportIsWhole(Order!Import(Order!NewTables, Legacy), Legacy)

\* What an empty list means: a filter that keeps nobody shows everybody, a run for whoever is
\* online has every phone when none is, and one for an empty group has the phones of the others;
\* and an import that stopped after a group's row never gives the group its devices.
ASSUME OrderGaps ==
    LET off == [d \in 1..2 |-> [Order!Record(d) EXCEPT !.state = "Offline"]]
        on  == [d \in 1..2 |-> Order!Record(d)]
    IN  /\ Order!Shown(off, "online", 0, {1, 2}, "Number") = <<1, 2>>
        /\ Order!ResolveTargets(off, "online", 0, <<>>) = <<1, 2>>
        /\ Order!ResolveTargets(on, "group", 1, <<>>) = <<1, 2>>
        /\ \E n \in 1..3 : LET left == Order!ImportLegacyGroups(Order!NewTables, Legacy, n)
                          IN  ~Order!ImportIsWhole(Order!Import(left, Legacy), Legacy)
=============================================================================

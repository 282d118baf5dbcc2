----------------------------- MODULE DeviceCare ------------------------------
(***************************************************************************)
(* What the farm does for its phones unasked: keepawakemanager.cpp keeps     *)
(* their displays on, devicehealthmonitor.cpp reads their batteries and what  *)
(* they are.  Both go round the fleet a part at a time, and both send adb     *)
(* scripts whose answers come late, in any order, or not at all.             *)
(*                                                                         *)
(* A phone with what is known of it is a record, a handler or an answer a     *)
(* function on it.                                                          *)
(***************************************************************************)
EXTENDS Integers, FiniteSetsExt, SequencesExt

CONSTANTS
    MaxFlight   \* bounds the scripts of one phone that have not answered
-----------------------------------------------------------------------------
(* A round: `parts` ticks of a timer for the whole fleet.  Phones are numbers. *)

Fresh == [list |-> <<>>, index |-> 0, seen |-> {}]

Tick(r, online, parts) ==
    LET ended == r.index = 0 \/ r.index >= Len(r.list)
        list  == IF ended THEN SetToSortSeq(online, <) ELSE r.list
        from  == IF ended THEN 0 ELSE r.index
        batch == Max({1, (Len(list) + parts - 1) \div parts})
        upto  == Min({from + batch, Len(list)})
    IN  [list |-> list, index |-> upto, seen |-> {list[i] : i \in (from + 1)..upto}]

\* `age`: ticks since a phone was seen, or came online.
RECURSIVE Ticked(_, _, _)

Ticked(found, seen, parts) ==
    LET Next(s) == {LET r == Tick(s.round, online, parts)
                    IN  [round |-> r, age |-> [d \in DOMAIN s.age |->
                            IF d \in r.seen \/ d \notin online THEN 0 ELSE s.age[d] + 1]] :
                        online \in SUBSET DOMAIN s.age}
        new == UNION {Next(s) : s \in found} \ seen
    IN  IF new = {} \/ \E s \in seen : \E d \in DOMAIN s.age : s.age[d] > 2 * parts THEN seen \cup new
        ELSE Ticked(new, seen \cup new, parts)

\* A phone that stays online is asked in every two intervals, and a fleet that stays is in one.
NobodyWaits(s, parts)    == \A d \in DOMAIN s.age : s.age[d] < 2 * parts
RoundsAreShort(n, parts) == LET batch == Max({1, (n + parts - 1) \div parts})
                            IN  (n + batch - 1) \div batch <= parts
-----------------------------------------------------------------------------
(* Keep awake.  A policy is on, off or inherited.                            *)

On        == 1
Off       == 0
Inherited == -1

PolicyFor(own, group, global) ==
    IF own # Inherited THEN own ELSE IF group # Inherited THEN group ELSE global

\* `set` is what the phone's settings say, which the phone may refuse to change; `waking`
\* the setting to wake a display that is off; `locks` whether the display is ever locked.
Phone(refuses, waking, locks) ==
    [online |-> TRUE, policy |-> On, status |-> "", set |-> Off, display |-> TRUE, locked |-> FALSE,
     refuses |-> refuses, waking |-> waking, locks |-> locks, flight |-> <<>>]

Policies == {PolicyFor(own, group, global) :
                own, group \in {On, Off, Inherited}, global \in {On, Off}}

Script(kind, on) == [kind |-> kind, on |-> on, ran |-> FALSE, saw |-> <<>>]

Sent(p, script) == [p EXCEPT !.flight = Append(@, script)]

ApplyPolicy(p) == IF p.online THEN Sent(p, Script("apply", p.policy)) ELSE p
WakeDevice(p)  == Sent(p, Script("wake", On))
CheckScreen(p) == IF p.policy = On THEN Sent(p, Script("probe", On)) ELSE p

\* The registry tells of a phone that comes online.
Joins(p, reapply) == IF reapply THEN ApplyPolicy([p EXCEPT !.online = TRUE]) ELSE [p EXCEPT !.online = TRUE]
Leaves(p)         == [p EXCEPT !.online = FALSE]

\* The phone runs a script, and notes for the answer what it saw.
Runs(p, i) ==
    LET script == p.flight[i]
        set    == IF script.kind = "apply" /\ ~(p.refuses /\ script.on = On) THEN script.on ELSE p.set
        lit    == p.display \/ script.kind = "wake"
        saw    == CASE script.kind = "apply" -> <<set = On>>
                    [] script.kind = "probe" -> <<lit, p.locked>>
                    [] OTHER                 -> <<>>
    IN  [p EXCEPT !.set = set, !.display = lit, !.flight[i] = [script EXCEPT !.ran = TRUE, !.saw = saw]]

\* An apply: on only when the settings stuck, off without a look at them.
Applied(p, script) ==
    [p EXCEPT !.status = IF script.on = Off THEN "Off" ELSE IF script.saw[1] THEN "Active" ELSE "Failed"]

\* A probe
ScreenSeen(p, lit, locked) ==
    IF p.policy # On THEN p
    ELSE IF ~lit
    THEN IF p.waking THEN ApplyPolicy(WakeDevice(p)) ELSE [p EXCEPT !.status = "Display off"]
    ELSE IF locked THEN [p EXCEPT !.status = "Awake but locked"]
    ELSE IF p.status = "Awake but locked" THEN [p EXCEPT !.status = "Active"]
    ELSE p

Answers(p, i, ok) ==
    LET script == p.flight[i]
        q      == [p EXCEPT !.flight = RemoveAt(@, i)]
    IN  CASE script.kind = "apply" -> IF ok THEN Applied(q, script) ELSE [q EXCEPT !.status = "Failed"]
          [] script.kind = "probe" /\ ok -> ScreenSeen(q, script.saw[1], script.saw[2])
          [] OTHER                       -> q

\* What can happen next; `calm`: the policy changes while no script is under way.
Cares(p, calm) ==
    {Leaves(p), [p EXCEPT !.display = FALSE]}
    \cup (IF p.locks THEN {[p EXCEPT !.locked = ~@]} ELSE {})
    \cup (IF calm /\ p.flight # <<>> THEN {} ELSE {ApplyPolicy([p EXCEPT !.policy = policy]) : policy \in Policies})
    \cup (IF p.online THEN {CheckScreen(p)} ELSE {Joins(p, reapply) : reapply \in BOOLEAN})
    \cup {Runs(p, i) : i \in {i \in DOMAIN p.flight : ~p.flight[i].ran}}
    \cup {Answers(p, i, FALSE) : i \in DOMAIN p.flight}
    \cup {Answers(p, i, TRUE) : i \in {i \in DOMAIN p.flight : p.flight[i].ran}}

RECURSIVE Cared(_, _, _)

Cared(found, seen, calm) ==
    LET new == {p \in UNION {Cares(p, calm) : p \in found} : Len(p.flight) <= MaxFlight} \ seen
    IN  IF new = {} THEN seen ELSE Cared(new, seen \cup new, calm)

\* A phone that is called active has the settings that keep it awake; one that is called off
\* has them not.
StatusIsTrue(p) ==
    p.flight = <<>> => (p.status = "Active" => p.set = On) /\ (p.status = "Off" => p.set = Off)
-----------------------------------------------------------------------------
(* Health: levels are NoLevel or numbers; `told` is the last event of the battery.           *)

NoLevel == -1

Patient == [known |-> TRUE, online |-> FALSE, battery |-> NoLevel, low |-> FALSE,
            busy |-> FALSE, scripts |-> 0, done |-> FALSE, asking |-> 0, got |-> FALSE,
            told |-> "above", twice |-> FALSE, blank |-> FALSE]

Refresh(h)         == IF h.busy THEN h ELSE [h EXCEPT !.busy = TRUE, !.scripts = @ + 1]
CollectIdentity(h) == [h EXCEPT !.done = TRUE, !.asking = @ + 1]

ComesOnline(h) ==
    LET g == [h EXCEPT !.known = TRUE, !.online = TRUE]
    IN  Refresh(IF h.done THEN g ELSE CollectIdentity(g))

Removed(h) == [h EXCEPT !.known = FALSE, !.online = FALSE, !.battery = NoLevel, !.low = FALSE,
                        !.busy = FALSE, !.done = FALSE, !.got = FALSE, !.told = "above"]

Event(h, name, level) ==
    [h EXCEPT !.told = name, !.twice = @ \/ h.told = name, !.blank = @ \/ level = NoLevel]

\* applyResult; a phone that was removed has no record, and no level of its own.
HealthAnswers(h, ok, level, threshold) ==
    LET g       == [h EXCEPT !.busy = FALSE, !.scripts = @ - 1]
        battery == IF level = NoLevel THEN h.battery ELSE level
        lowNow  == h.known /\ battery # NoLevel /\ battery <= threshold
        stored  == [g EXCEPT !.battery = IF h.known THEN battery ELSE @, !.low = lowNow]
    IN  IF ~ok THEN g
        ELSE IF lowNow /\ ~h.low THEN Event(stored, "below", level)
        ELSE IF ~lowNow /\ h.low THEN Event(stored, "above", level)
        ELSE stored

IdentityAnswers(h, ok) ==
    IF ok THEN [h EXCEPT !.asking = @ - 1, !.got = h.known] ELSE [h EXCEPT !.asking = @ - 1, !.done = FALSE]

\* `reads`: every answer has a level; the thresholds are those the user sets.
Ails(h, reads, thresholds) ==
    {IF h.online THEN Refresh(h) ELSE ComesOnline(h), [h EXCEPT !.online = FALSE], Removed(h)}
    \cup (IF h.scripts = 0 THEN {}
          ELSE {HealthAnswers(h, ok, level, threshold) : ok \in BOOLEAN,
                   level \in {10, 20} \cup (IF reads THEN {} ELSE {NoLevel}), threshold \in thresholds})
    \cup (IF h.asking = 0 THEN {} ELSE {IdentityAnswers(h, ok) : ok \in BOOLEAN})

RECURSIVE Ailed(_, _, _, _)

Ailed(found, seen, reads, thresholds) ==
    LET new == {h \in UNION {Ails(h, reads, thresholds) : h \in found} :
                   h.scripts <= MaxFlight /\ h.asking <= MaxFlight} \ seen
    IN  IF new = {} THEN seen ELSE Ailed(new, seen \cup new, reads, thresholds)

\* Below and above take turns, below first, and who is asked who they are answers or is
\* asked again.
EventsTakeTurns(h) == ~h.twice
IdentityIsKnown(h) == h.done => h.got \/ h.asking > 0
\* An event names the level it is about.
EventsHaveLevels(h) == ~h.blank
=============================================================================

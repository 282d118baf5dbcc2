----------------------------- MODULE Scheduler -----------------------------
(***************************************************************************)
(* The scheduler (farm/scheduler/scheduler.cpp) on top of the automation   *)
(* engine: timed and event schedules, what of them the database holds, and *)
(* what a crash or a restart of the program does to them.                  *)
(*                                                                         *)
(* Time is a counter; the tick timer, the device events and the operator   *)
(* interleave with the runs the schedules started.  Like the engine's, a   *)
(* handler is a function, here on everything the scheduler reaches.        *)
(***************************************************************************)
EXTENDS AutomationEngine

CONSTANTS
  Schedules,   \* the schedules, in m_schedules order
  Plan,        \* what each of them says, see PlanAssumption
  Late,        \* how late an occurrence may be under policy "skip" (3600 s)
  Cooldown,    \* eventCooldownSeconds
  Horizon,     \* bound: the last moment of a behaviour
  Restarts     \* bound: restarts of the program

Sched == Range(Schedules)
Never == 0
Time  == Nat \ {0}

Timed == {"once", "interval", "calendar"}

\* `slots` are the moments of a "once" (one moment) or of a "calendar" schedule:
\* hourly, daily, weekly and weekdays name such moments.
ASSUME PlanAssumption ==
  /\ Schedules \in Seq(STRING) /\ IsInjective(Schedules)
  /\ \A s \in Sched : /\ Plan[s].kind \in Timed \cup {"event", "appStart"}
                      /\ Plan[s].period \in Nat
                      /\ Plan[s].slots \subseteq Time
                      /\ Plan[s].policy \in {"skip", "immediate", "nextStart"}
                      /\ Plan[s].mode \in {"devices", "all", "group"}
                      /\ Plan[s].targets \in TargetLists
ASSUME ClockAssumption == Late \in Nat /\ Cooldown \in Nat /\ Horizon \in Time /\ Restarts \in Nat

VARIABLES
  clock,      \* now
  sched,      \* m_schedules: what changes of a schedule
  disk,       \* its row in the database
  activeRun,  \* m_activeRuns: the run last started for it
  cooled,     \* m_eventCooldown: when an event of the device last counted
  started,    \* history: when a timed start last happened, and the occurrences it served
  owner,      \* history: the schedule a run was started for
  restarts

scheduleVars == <<clock, sched, disk, activeRun, cooled, started, owner, restarts>>
allVars == <<engineVars, scheduleVars>>

NoRun == "no run"
Row == [exists : BOOLEAN, enabled : BOOLEAN, nextRun : Nat, lastRun : Nat]

Earliest(T) == IF T = {} THEN Never ELSE CHOOSE t \in T : \A u \in T : t <= u

\* Faulty variant: the next moment of an interval may be the present one.
NextRunNotLater(s, lastRun, from) ==
  LET base == IF lastRun # Never THEN lastRun ELSE from
  IN  CASE Plan[s].kind = "interval" ->
             Earliest({base + Plan[s].period * k : k \in 0 .. from + 1} \ 1 .. from - 1)
        [] Plan[s].kind \in {"once", "calendar"} -> Earliest(Plan[s].slots \ 1 .. from)
        [] OTHER -> Never

\* computeNextRun: the first moment after `from` (an interval counts from lastRun).
NextRun(s, lastRun, from) ==
  CASE Plan[s].kind = "interval" ->
         LET step == IF Plan[s].period > 1 THEN Plan[s].period ELSE 1
             base == IF lastRun # Never THEN lastRun ELSE from
         IN  Earliest({base + step * k : k \in 1 .. from + 1} \ 1 .. from)
    [] Plan[s].kind \in {"once", "calendar"} -> Earliest(Plan[s].slots \ 1 .. from)
    [] OTHER -> Never

-----------------------------------------------------------------------------
(* Handlers, on a record W of what the scheduler and the engine keep.      *)

World == [engine |-> engine, sched |-> sched, disk |-> disk, active |-> activeRun,
          started |-> started, owner |-> owner]

Persist(s, W) == [W EXCEPT !.disk[s] = W.sched[s]]

Free(W) == {r \in Run : W.engine.run[r].status = "none"}

\* Faulty variant: a paused run does not hold its schedule back.
BlockedByRunning(s, W) ==
  /\ W.active[s] # NoRun
  /\ W.active[s] \in Range(W.engine.runs)
  /\ W.engine.run[W.active[s]].status = "Running"

Blocked(s, W) ==
  /\ W.active[s] # NoRun
  /\ W.active[s] \in Range(W.engine.runs)
  /\ W.engine.run[W.active[s]].status \in Active

\* `ts` are the targets resolved for the schedule, none if nothing of its group is online:
\* then nothing starts, but the run that did not block is forgotten.
Fire(s, ts, W) ==
  IF Blocked(s, W) THEN W
  ELSE IF ts = <<>> THEN [W EXCEPT !.active[s] = NoRun]
  ELSE LET r == CHOOSE x \in Free(W) : TRUE
       IN  Persist(s, [W EXCEPT !.engine = StartRun(r, ts, CHOOSE w \in Widths : TRUE, W.engine),
                                !.active[s] = r, !.owner[r] = s,
                                !.sched[s].lastRun = clock])

\* A timed start, noted in the history.
FireTimed(s, ts, W) ==
  IF Blocked(s, W) \/ ts = <<>> THEN Fire(s, ts, W)
  ELSE [Fire(s, ts, W) EXCEPT
          !.started[s] = [last   |-> clock,
                          served |-> W.started[s].served \cup {W.sched[s].nextRun}]]

Planned(s, W) ==
  [W EXCEPT !.sched[s].nextRun = NextRun(s, W.sched[s].lastRun, clock)]

Due(s, W) ==
  /\ W.sched[s].exists /\ W.sched[s].enabled /\ Plan[s].kind \in Timed
  /\ W.sched[s].nextRun \in 1 .. clock

\* Faulty variant: the next run is planned and not saved.
TickOneUnsaved(s, ts, W) ==
  IF ~Due(s, W) THEN W
  ELSE IF clock - W.sched[s].nextRun > Late /\ Plan[s].policy = "skip"
       THEN Planned(s, W) ELSE Planned(s, FireTimed(s, ts, W))

\* tick, for one schedule.
TickOne(s, ts, W) ==
  IF ~Due(s, W) THEN W
  ELSE LET F == IF clock - W.sched[s].nextRun > Late /\ Plan[s].policy = "skip"
                THEN W ELSE FireTimed(s, ts, W)
           G == Planned(s, F)
       IN  Persist(s, IF Plan[s].kind = "once" THEN [G EXCEPT !.sched[s].enabled = FALSE]
                      ELSE G)

\* start, for one schedule: missed runs follow its policy.
BootOne(s, ts, W) ==
  CASE ~W.sched[s].exists \/ ~W.sched[s].enabled -> W
    [] W.sched[s].enabled /\ Plan[s].kind = "appStart" -> Fire(s, ts, W)
    [] W.sched[s].enabled /\ Plan[s].kind = "event" -> W
    [] OTHER -> LET missed == W.sched[s].nextRun \in 1 .. clock - 1
                    F == IF missed /\ Plan[s].policy # "skip" THEN FireTimed(s, ts, W) ELSE W
                IN  Persist(s, Planned(s, F))

\* resolveTargets: a fixed list of devices, those of a group that are online, or those of the
\* fleet that are; but the whole fleet when nobody is (DeviceOrder).
Resolved(s, online) ==
  LET up == SelectSeq(Plan[s].targets, LAMBDA d : d \in online)
  IN  CASE Plan[s].mode = "devices" -> Plan[s].targets
        [] Plan[s].mode = "group"   -> up
        [] Plan[s].mode = "all"     -> IF up = <<>> THEN Plan[s].targets ELSE up

\* A handler that goes through m_schedules.
Visit(Handler(_, _, _), online, W) ==
  FoldLeft(LAMBDA V, s : Handler(s, Resolved(s, online), V), W, Schedules)

-----------------------------------------------------------------------------
NewRow(s) == [exists |-> TRUE, enabled |-> TRUE, nextRun |-> NextRun(s, Never, 1),
              lastRun |-> Never]

\* The first boot, with the schedules saved a moment ago.
SchedulerInit ==
  /\ Init
  /\ clock = 1
  /\ sched = [s \in Sched |-> NewRow(s)] /\ disk = sched
  /\ activeRun = [s \in Sched |-> NoRun]
  /\ cooled = [s \in Sched |-> [d \in Dev |-> Never]]
  /\ started = [s \in Sched |-> [last |-> Never, served |-> {}]]
  /\ owner = [r \in Run |-> NoRun]
  /\ restarts = 0

Take(W) ==
  /\ Handle(W.engine)
  /\ sched' = W.sched /\ disk' = W.disk /\ activeRun' = W.active
  /\ started' = W.started /\ owner' = W.owner
  /\ UNCHANGED <<inbox, clock, restarts>>

Passes == clock < Horizon /\ clock' = clock + 1
          /\ UNCHANGED <<engineVars, sched, disk, activeRun, cooled, started, owner, restarts>>

\* Bound: there is a run identity left for every schedule that may start.
Tick ==
  /\ \E s \in Sched : Due(s, World)
  /\ Cardinality(Free(World)) >= Cardinality({s \in Sched : Due(s, World)})
  /\ \E online \in SUBSET Dev : Take(Visit(TickOne, online, World))
  /\ UNCHANGED <<cooled, commands>>

\* An event schedule runs on the device of the event, unless it targets a group.
Override(s, d, ts) == IF Plan[s].mode = "group" THEN ts ELSE <<d>>

\* onDeviceEvent: the schedule runs on the device of the event, once per cooldown.
DeviceEvent(d) ==
  LET eager == {s \in Sched : /\ sched[s].exists /\ sched[s].enabled
                              /\ Plan[s].kind = "event"
                              /\ ~(cooled[s][d] # Never /\ clock - cooled[s][d] < Cooldown)}
      handler(s, ts, W) == IF s \in eager THEN Fire(s, Override(s, d, ts), W) ELSE W
  IN  /\ eager # {} /\ Cardinality(Free(World)) >= Cardinality(eager)
      /\ \E online \in SUBSET Dev : Take(Visit(handler, online, World))
      /\ cooled' = [s \in Sched |-> IF s \in eager THEN [cooled[s] EXCEPT ![d] = clock]
                                    ELSE cooled[s]]
      /\ UNCHANGED commands

RunNow(s) ==
  /\ sched[s].exists /\ Free(World) # {}
  /\ \E online \in SUBSET Dev : Take(Fire(s, Resolved(s, online), World))
  /\ UNCHANGED cooled

\* Save of the schedule's form, which starts from the scheduler's own copy.
Save(s, enabled) ==
  /\ sched[s].exists
  /\ LET W == [World EXCEPT !.sched[s].enabled = enabled]
     IN  Take(Persist(s, Planned(s, W)))
  /\ UNCHANGED cooled

SetEnabled(s, enabled) ==
  /\ sched[s].exists
  /\ LET W == [World EXCEPT !.sched[s].enabled = enabled]
     IN  Take(Persist(s, IF enabled THEN Planned(s, W) ELSE W))
  /\ UNCHANGED cooled

RemoveSchedule(s) ==
  /\ sched[s].exists
  /\ Take([World EXCEPT !.sched[s].exists = FALSE, !.disk[s].exists = FALSE])
  /\ UNCHANGED cooled

\* An operator's command to a schedule counts like one to a run.
ScheduleCommand ==
  /\ commands < CommandBound /\ commands' = commands + 1
  /\ \/ \E s \in Sched : RunNow(s)
     \/ \E s \in Sched, enabled \in BOOLEAN : Save(s, enabled) \/ SetEnabled(s, enabled)
     \/ \E s \in Sched : RemoveSchedule(s)

\* The program ends, by a crash or by Shutdown, between two handlers, and comes up
\* again later: the runs are gone, the schedules are what the database says.
Restart(online) ==
  LET E == [run |-> [r \in Run |-> NewRun], runs |-> <<>>, ready |-> <<>>,
            flagged |-> {}, doomed |-> {}]
      V == [World EXCEPT !.engine = E, !.sched = disk,
                         !.active = [s \in Sched |-> NoRun],
                         !.owner = [r \in Run |-> NoRun]]
      W == Visit(BootOne, online, V)
  IN  /\ restarts < Restarts /\ restarts' = restarts + 1
      /\ engine' = [W.engine EXCEPT !.ready = <<>>] /\ lane' = W.engine.ready
      /\ busy' = {} /\ inbox' = {} /\ down' = FALSE
      /\ sched' = W.sched /\ disk' = W.disk /\ activeRun' = W.active
      /\ started' = W.started /\ owner' = W.owner
      /\ cooled' = [s \in Sched |-> [d \in Dev |-> Never]]
      /\ UNCHANGED <<commands, clock>>

SchedulerNext ==
  \/ EngineNext /\ UNCHANGED scheduleVars
  \/ Passes \/ Tick \/ ScheduleCommand
  \/ \E d \in Dev : DeviceEvent(d)
  \/ \E online \in SUBSET Dev : Restart(online)

SchedulerSpec == SchedulerInit /\ [][SchedulerNext]_allVars

-----------------------------------------------------------------------------
(* Properties.                                                             *)

\* An occurrence starts one run: no timed start is for a moment that was served
\* before, through edits, restarts and missed-run policies.
OccurrencesAreServedOnce ==
  [][\A s \in Sched :
       started[s] # started'[s] => started'[s].served # started[s].served]_allVars

\* Timed starts of an interval schedule lie at least the interval apart, the starts
\* for missed runs after a restart included.
IntervalsAreKept ==
  [][\A s \in Sched :
       Plan[s].kind = "interval" /\ started[s] # started'[s] /\ started[s].last # Never
         => started'[s].last - started[s].last >= Plan[s].period]_allVars

\* "Never stack runs of the same schedule" (scheduler.cpp:381), as far as the code goes:
\* when a schedule starts a run, or forgets the one it started last, every worker this
\* one still has queued, on a thread or reporting has been told to stop.  The overlap
\* with them is real (a cancelled run counts as over), and a run that is retried after
\* the schedule moved on or forgot it is not looked at.
OverlapsAreStopping ==
  [][\A s \in Sched :
       LET r == activeRun[s]
       IN  r # NoRun /\ activeRun'[s] # r /\ restarts' = restarts
             => Out(r) = {} \/ engine.run[r].token]_allVars
=============================================================================

-------------------------- MODULE AutomationEngine --------------------------
(***************************************************************************)
(* Automation runs: WorkflowEngine and AutomationRun                       *)
(* (farm/automation/workflowengine.cpp) on the "automation" lane of        *)
(* TaskExecutor (farm/core/taskexecutor.cpp).                              *)
(*                                                                         *)
(* A run executes one workflow on a list of devices, at most `width` of    *)
(* them at a time.  Its commands and the handling of reports are atomic    *)
(* handlers of the GUI thread, written here as functions on the state the  *)
(* engine keeps.  The workers are lane threads: each executes the workflow *)
(* on one device, reads the run's token and pause flag between two nodes,  *)
(* and posts one report to the GUI thread.  What the nodes do is left out: *)
(* a node ends, and then the workflow goes on, succeeds or fails.          *)
(***************************************************************************)
EXTENDS Integers, FiniteSets, SequencesExt

CONSTANTS
  Run,           \* identities of the runs a behaviour may create
  Dev,           \* devices
  TargetLists,   \* the target lists a run may be started on
  Widths,        \* concurrency settings of a run
  Threads,       \* threads of the automation lane
  MaxKept,       \* runs the engine keeps (50)
  CommandBound   \* bound: operator commands to runs in a behaviour

ASSUME RunAssumption == IsFiniteSet(Run) /\ IsFiniteSet(Dev)
ASSUME TargetAssumption ==
  TargetLists \subseteq {ts \in Seq(Dev) : ts # <<>> /\ IsInjective(ts)}
ASSUME SizeAssumption ==
  /\ Widths \subseteq Nat \ {0} /\ Threads \in Nat \ {0}
  /\ MaxKept \in Nat \ {0}      /\ CommandBound \in Nat

VARIABLES
  engine,    \* what the handlers of the GUI thread keep, see Engine
  lane,      \* workers queued in the lane, first come first served
  busy,      \* workers on a lane thread, with their stage
  inbox,     \* reports posted to the GUI thread
  down,      \* the program has shut the engine and the executor down
  commands   \* operator commands so far

engineVars == <<engine, lane, busy, inbox, down, commands>>

Progress == {"none", "queued", "running", "ok", "failed", "cancelled"}

Active   == {"Running", "Paused"}
Finished == {"Completed", "Failed", "Cancelled"}

RunState == [
  status   : {"none", "gone"} \cup Active \cup Finished,
  targets  : Seq(Dev),
  width    : Nat,
  progress : [Dev -> Progress],
  token    : BOOLEAN,     \* m_token is cancelled
  stopping : BOOLEAN,     \* m_stopRequested
  paused   : BOOLEAN,     \* m_paused
  workers  : Nat,         \* m_activeWorkers
  ended    : BOOLEAN,     \* m_finishedAt is valid
  deleting : BOOLEAN,     \* m_deleteRequested
  owed     : BOOLEAN ]    \* history: `finished` has not been emitted since the (re)start

NewRun == [status |-> "none", targets |-> <<>>, width |-> 0,
           progress |-> [d \in Dev |-> "none"], token |-> FALSE,
           stopping |-> FALSE, paused |-> FALSE, workers |-> 0,
           ended |-> FALSE, deleting |-> FALSE, owed |-> FALSE]

Engine == [
  run     : [Run -> RunState],
  runs    : Seq(Run),        \* m_runs, newest first
  ready   : Seq(Run \X Dev), \* workers handed to the lane by the handler
  flagged : SUBSET Dev,      \* DeviceRecord.automationRunning
  doomed  : SUBSET Run ]     \* deleteLater() has been called

Stages == {"check", "hold", "node"}

\* The members of s that are in S, in the order of s: KeptIn, among the first i.
KeptIn(s, S) ==
  LET kept[i \in 0 .. Len(s)] ==
        IF i = 0 THEN <<>> ELSE IF s[i] \in S THEN Append(kept[i - 1], s[i]) ELSE kept[i - 1]
  IN  kept

Kept(s, S) == KeptIn(s, S)[Len(s)]

In(R, s)    == {d \in Dev : R.progress[d] = s}
Running(R)  == Cardinality(In(R, "running"))
Waiting(R)  == Kept(R.targets, In(R, "queued"))

-----------------------------------------------------------------------------
(* AutomationRun: setStatus, pump.                                         *)

SetStatus(R, s) ==
  IF R.status = s THEN R
  ELSE [R EXCEPT !.status = s,
                 !.ended  = @ \/ s \in Finished,
                 !.owed   = @ /\ s \notin Finished]

\* The devices the while loop of pump starts: the first queued ones, in target
\* order, while fewer than `width` run.
Chosen(R) ==
  LET room == IF R.stopping \/ R.width < Running(R) THEN 0 ELSE R.width - Running(R)
      n    == Len(Waiting(R))
  IN  SubSeq(Waiting(R), 1, IF room < n THEN room ELSE n)

Outcome(R) ==
  IF In(R, "failed") = {} \/ In(R, "ok") # {} THEN "Completed" ELSE "Failed"

\* Faulty variant: the last report of a stopped run is not announced.
WindUpSilently(r, E) == E

\* A stopped run is announced by the report of its last worker.
WindUp(r, E) ==
  LET R == E.run[r]
  IN  IF R.status = "Cancelled" /\ Running(R) = 0 /\ ~R.ended
      THEN [E EXCEPT !.run[r].ended = TRUE, !.run[r].owed = FALSE,
                     !.flagged = @ \ Range(R.targets)]
      ELSE E

Dispatch(r, E) ==
  LET picked == Chosen(E.run[r])
  IN  [E EXCEPT !.run[r].progress =
                  [d \in Dev |-> IF d \in Range(picked) THEN "running" ELSE @[d]],
                !.run[r].workers = @ + Len(picked),
                !.ready = @ \o [i \in DOMAIN picked |-> <<r, picked[i]>>]]

\* Nothing queued and nothing running: the run is over.
Conclude(r, E) ==
  LET R == E.run[r]
  IN  IF In(R, "running") = {} /\ In(R, "queued") = {}
      THEN [E EXCEPT !.run[r] = SetStatus(R, Outcome(R)),
                     !.flagged = @ \ Range(R.targets)]
      ELSE E

Pump(r, E) ==
  IF E.run[r].status = "Running" THEN Conclude(r, Dispatch(r, E))
                                 ELSE WindUp(r, E)

-----------------------------------------------------------------------------
(* AutomationRun: the commands.                                            *)

Begin(r, ts, w, E) ==
  Pump(r, [E EXCEPT
    !.run[r] = [NewRun EXCEPT
      !.status = "Running", !.targets = ts, !.width = w, !.owed = TRUE,
      !.progress = [d \in Dev |-> IF d \in Range(ts) THEN "queued" ELSE "none"]],
    !.flagged = @ \cup Range(ts)])

Pause(r, E) ==
  IF E.run[r].status = "Running"
  THEN [E EXCEPT !.run[r] = [SetStatus(@, "Paused") EXCEPT !.paused = TRUE]]
  ELSE E

Resume(r, E) ==
  IF E.run[r].status = "Paused"
  THEN Pump(r, [E EXCEPT !.run[r] = [SetStatus(@, "Running") EXCEPT !.paused = FALSE]])
  ELSE E

\* Faulty variant: Stop settles the devices whose workers are still out.
StoppedSettlingAll(R) ==
  IF R.status \notin Active THEN R
  ELSE SetStatus([R EXCEPT
         !.stopping = TRUE, !.paused = FALSE, !.token = TRUE,
         !.progress = [d \in Dev |-> IF @[d] \in {"queued", "running"} THEN "cancelled" ELSE @[d]]],
         "Cancelled")

\* With no worker out the run ends here, without pump and its cleaning up;
\* otherwise the report of the last one ends it.
Stopped(R) ==
  IF R.status \notin Active THEN R
  ELSE LET S == [R EXCEPT
                   !.stopping = TRUE, !.paused = FALSE, !.token = TRUE,
                   !.progress = [d \in Dev |-> IF @[d] = "queued" THEN "cancelled" ELSE @[d]]]
       IN  IF Running(S) = 0 THEN SetStatus(S, "Cancelled") ELSE [S EXCEPT !.status = "Cancelled"]

Stop(r, E) == [E EXCEPT !.run[r] = Stopped(@)]

Retried(R) ==
  [R EXCEPT !.progress = [d \in Dev |-> IF @[d] \in {"failed", "cancelled"}
                                        THEN "queued" ELSE @[d]],
            !.ended = FALSE, !.token = FALSE, !.stopping = FALSE, !.owed = TRUE]

\* Faulty variant: a retry does not wait for the workers of the stopped run.
RetryFailedAtOnce(r, E) ==
  LET R == E.run[r]
  IN  IF In(R, "failed") \cup In(R, "cancelled") = {} THEN E
      ELSE Pump(r, [E EXCEPT !.run[r] = SetStatus(Retried(R), "Running")])

RetryFailed(r, E) ==
  LET R == E.run[r]
  IN  IF Running(R) > 0 \/ In(R, "failed") \cup In(R, "cancelled") = {} THEN E
      ELSE Pump(r, [E EXCEPT !.run[r] = SetStatus(Retried(R), "Running")])

\* Faulty variant: a removed run is deleted under its workers.
DeleteWhenIdleNow(S, E) ==
  [E EXCEPT !.run = [r \in Run |-> IF r \in S THEN [@[r] EXCEPT !.deleting = TRUE, !.token = TRUE]
                                              ELSE @[r]],
            !.doomed = @ \cup S]

\* Each of the removed runs S.
DeleteWhenIdle(S, E) ==
  [E EXCEPT !.run = [r \in Run |-> IF r \in S THEN [@[r] EXCEPT !.deleting = TRUE, !.token = TRUE]
                                              ELSE @[r]],
            !.doomed = @ \cup {r \in S : E.run[r].workers = 0}]

Result(R, ok) == IF ok THEN "ok" ELSE IF R.token THEN "cancelled" ELSE "failed"

Settled(r, d, ok, E) ==
  [E EXCEPT !.run[r].progress[d] = Result(E.run[r], ok), !.run[r].workers = @ - 1,
            !.flagged = @ \ {d}]

\* Faulty variant: the last report of a removed run is looked for by the new count.
DeviceFinishedCountingNew(r, d, ok, E) ==
  LET F == Settled(r, d, ok, E)
  IN  CASE ~E.run[r].deleting                          -> Pump(r, F)
        [] E.run[r].deleting /\ E.run[r].workers = 0   -> [F EXCEPT !.doomed = @ \cup {r}]
        [] OTHER                                       -> F

\* The report of a worker.  A removed run is deleted by its last report.
DeviceFinished(r, d, ok, E) ==
  LET F == Settled(r, d, ok, E)
  IN  CASE ~E.run[r].deleting                          -> Pump(r, F)
        [] E.run[r].deleting /\ E.run[r].workers = 1   -> [F EXCEPT !.doomed = @ \cup {r}]
        [] OTHER                                       -> F

-----------------------------------------------------------------------------
(* WorkflowEngine: start, clearFinished, shutdown.                         *)

\* `start` drops the oldest runs beyond MaxKept up to the first active one.
Pruned(E) ==
  LET active(i) == E.run[E.runs[i]].status \in Active
      stays     == {i \in DOMAIN E.runs : i <= MaxKept \/ \E k \in i .. Len(E.runs) : active(k)}
  IN  DeleteWhenIdle({E.runs[i] : i \in DOMAIN E.runs \ stays},
                     [E EXCEPT !.runs = SubSeq(@, 1, Cardinality(stays))])

StartRun(r, ts, w, E) ==
  Begin(r, ts, w, Pruned([E EXCEPT !.runs = <<r>> \o @]))

ClearFinished(E) ==
  LET over == {r \in Range(E.runs) : E.run[r].status \in Finished}
  IN  DeleteWhenIdle(over, [E EXCEPT !.runs = Kept(@, Range(@) \ over)])

StopAll(E) ==
  [E EXCEPT !.run = [r \in Run |-> IF r \in Range(E.runs) THEN Stopped(@[r]) ELSE @[r]]]

-----------------------------------------------------------------------------
Init ==
  /\ engine = [run |-> [r \in Run |-> NewRun], runs |-> <<>>, ready |-> <<>>,
               flagged |-> {}, doomed |-> {}]
  /\ lane = <<>> /\ busy = {} /\ inbox = {}
  /\ down = FALSE /\ commands = 0

\* What a handler leaves in `ready` is what it gave to the lane.
Handle(E) ==
  /\ ~down
  /\ engine' = [E EXCEPT !.ready = <<>>]
  /\ lane' = lane \o E.ready
  /\ UNCHANGED <<busy, down>>

Listed(r) == r \in Range(engine.runs)

Start(r, ts, w) ==
  /\ engine.run[r].status = "none"
  /\ Handle(StartRun(r, ts, w, engine))
  /\ UNCHANGED <<inbox, commands>>

\* The buttons of the automations page: Pause and Stop while the run is active,
\* Retry once it has finished.
Command ==
  /\ commands < CommandBound
  /\ commands' = commands + 1
  /\ \/ \E r \in Run : /\ Listed(r) /\ engine.run[r].status \in Active
                       /\ \/ Handle(Pause(r, engine))
                          \/ Handle(Resume(r, engine))
                          \/ Handle(Stop(r, engine))
     \/ \E r \in Run : /\ Listed(r) /\ engine.run[r].status \in Finished
                       /\ Handle(RetryFailed(r, engine))
     \/ Handle(ClearFinished(engine))
  /\ UNCHANGED inbox

Report(m) ==
  /\ Handle(DeviceFinished(m.run, m.dev, m.ok, engine))
  /\ inbox' = inbox \ {m}
  /\ UNCHANGED commands

\* The event loop deletes the object; its progress cannot be read any more.
Delete(r) ==
  /\ r \in engine.doomed
  /\ Handle([engine EXCEPT !.doomed = @ \ {r},
                           !.run[r] = [NewRun EXCEPT !.status = "gone"]])
  /\ UNCHANGED <<inbox, commands>>

\* AppContext::shutdown stops the runs, then TaskExecutor::shutdown clears the
\* lane's queue.  The event loop is over: no report is handled any more.
Shutdown ==
  /\ ~down /\ down' = TRUE
  /\ engine' = StopAll(engine)
  /\ lane' = <<>>
  /\ UNCHANGED <<busy, inbox, commands>>

-----------------------------------------------------------------------------
(* The workers: TaskExecutor::run's lambda, executeWorkflow's main loop.   *)

Worker(r, d, s) == [run |-> r, dev |-> d, stage |-> s]

\* The thread goes from one node to the next: it looks at the token, waits while
\* the run is paused, executes the node.
Goes(k, s) ==
  /\ busy' = (busy \ {k}) \cup {[k EXCEPT !.stage = s]}
  /\ UNCHANGED <<engine, lane, inbox, down, commands>>

Posts(k, ok) ==
  /\ busy'  = busy \ {k}
  /\ inbox' = inbox \cup {[run |-> k.run, dev |-> k.dev, ok |-> ok]}
  /\ UNCHANGED <<engine, lane, down, commands>>

PickUp ==
  /\ lane # <<>> /\ Cardinality(busy) < Threads
  /\ busy' = busy \cup {Worker(Head(lane)[1], Head(lane)[2], "check")}
  /\ lane' = Tail(lane)
  /\ UNCHANGED <<engine, inbox, down, commands>>

Looks(k) ==
  /\ k.stage = "check"
  /\ IF engine.run[k.run].token THEN Posts(k, FALSE) ELSE Goes(k, "hold")

Resumes(k) ==
  /\ k.stage = "hold"
  /\ ~engine.run[k.run].paused \/ engine.run[k.run].token
  /\ Goes(k, "node")

GoesOn(k) == k.stage = "node" /\ Goes(k, "check")

Ends(k) == k.stage = "node" /\ \E ok \in BOOLEAN : Posts(k, ok)

WorkerStep == PickUp \/ \E k \in busy : Looks(k) \/ Resumes(k) \/ GoesOn(k) \/ Ends(k)

-----------------------------------------------------------------------------
EngineNext ==
  \/ Command
  \/ \E m \in inbox : Report(m)
  \/ \E r \in Run : Delete(r)
  \/ Shutdown
  \/ WorkerStep

Next ==
  \/ EngineNext
  \/ \E r \in Run, ts \in TargetLists, w \in Widths : Start(r, ts, w)

Spec == Init /\ [][Next]_engineVars

\* The event loop goes on handling reports and deletions; a lane thread takes the next
\* worker and never stays between two nodes; and workflows end, since executeWorkflow
\* gives up after 20000 nodes and every node has a time limit.
Fairness ==
  /\ WF_inbox(~down /\ \E m \in inbox : inbox' = inbox \ {m})
  /\ WF_engineVars(\E r \in Run : Delete(r))
  /\ WF_engineVars(PickUp)
  /\ WF_engineVars(\E k \in busy : Looks(k) \/ Resumes(k))
  /\ SF_engineVars(\E k \in busy : Ends(k))

FairSpec == Spec /\ Fairness

-----------------------------------------------------------------------------
(* Properties.                                                             *)

\* The workers of a run that are out: queued, on a thread, or reporting.
Out(r) ==
  {<<"lane", i>> : i \in {j \in DOMAIN lane : lane[j][1] = r}}
    \cup {<<"busy", k>> : k \in {b \in busy : b.run = r}}
    \cup {<<"inbox", m>> : m \in {n \in inbox : n.run = r}}

OutOn(r, d) ==
  {<<"lane", i>> : i \in {j \in DOMAIN lane : lane[j] = <<r, d>>}}
    \cup {<<"busy", k>> : k \in {b \in busy : b.run = r /\ b.dev = d}}
    \cup {<<"inbox", m>> : m \in {n \in inbox : n.run = r /\ n.dev = d}}

EngineTypeOK ==
  /\ engine \in Engine
  /\ lane \in Seq(Run \X Dev)
  /\ busy \subseteq [run : Run, dev : Dev, stage : Stages]
  /\ inbox \subseteq [run : Run, dev : Dev, ok : BOOLEAN]
  /\ down \in BOOLEAN /\ commands \in 0 .. CommandBound

\* A run is not deleted under a worker: whoever is queued, executing or reporting
\* holds a raw pointer to it (DeviceRunContext.run).
WorkersKeepTheirRun ==
  \A r \in Run : Out(r) # {} => engine.run[r].status \notin {"none", "gone"}

\* Until the shutdown, "running" devices are the ones with a worker out, each with
\* exactly one, and m_activeWorkers is their number: what running(), the deletion
\* and Retry rely on.
WorkersAreCounted ==
  ~down => \A r \in Run :
    /\ engine.run[r].workers = Cardinality(Out(r))
    /\ \A d \in Dev : Cardinality(OutOn(r, d)) =
                        IF engine.run[r].progress[d] = "running" THEN 1 ELSE 0

\* A Stop reaches every worker: the token they poll is not reset while one is out.
StopReachesWorkers ==
  [][\A r \in Run : engine.run[r].token /\ ~engine'.run[r].token => Out(r) = {}]_engineVars

NotKept == [list |-> <<>>, width |-> 0, waiting |-> <<>>, out |-> {}, mode |-> "dropped", said |-> 0]

PoolOf(r) ==
  LET R == engine.run[r]
      mode == CASE R.status = "none"    -> "none"
                [] R.status = "Running" -> "open"
                [] R.status = "Paused"  -> "held"
                [] OTHER                -> IF R.owed THEN "closing" ELSE "closed"
  IN  IF R.status = "gone" \/ R.deleting THEN NotKept
      ELSE [list |-> R.targets, width |-> R.width,
            waiting |-> Waiting(R),
            out |-> In(R, "running"), mode |-> mode,
            said |-> IF mode = "closed" THEN 1 ELSE 0]

\* Each run is a WorkPool: list order, width, no idle room while it runs, and `finished`
\* emitted once per start or retry: when the last worker has reported, and not before.
Pools == INSTANCE WorkPool WITH Pool <- Run, Item <- Dev, pool <- [r \in Run |-> PoolOf(r)]
RunsArePools == Pools!Spec

\* A run that was started, or removed, comes to its end: finished with no worker out,
\* or deleted, whatever its workers were doing; unless it or another run (which then
\* holds threads of the lane) is left paused.
RunsEnd ==
  \A r \in Run :
    engine.run[r].status = "Running" \/ engine.run[r].deleting ~>
      \/ engine.run[r].status \in Finished /\ Out(r) = {} /\ ~engine.run[r].deleting
      \/ engine.run[r].status = "gone"
      \/ \E o \in Run : engine.run[o].status = "Paused"
      \/ down
=============================================================================

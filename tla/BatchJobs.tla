----------------------------- MODULE BatchJobs -----------------------------
(***************************************************************************)
(* Batch operations: BatchJob and JobManager (farm/core/batchjob.cpp) and  *)
(* the item functions that DeviceCommands and the devices page give them   *)
(* (farm/devices/devicecommands.cpp, farm/ui/pages/devicespage.cpp).       *)
(*                                                                         *)
(* A job runs an item function on each of its devices, at most `width` at  *)
(* a time.  Handlers of the GUI thread are functions on the state they     *)
(* keep.  An item function is a chain of adb commands (or work on the      *)
(* media lane); the answer to one asks for the next, on the executor's     *)
(* thread, and the last one posts the item's result to the GUI thread.     *)
(* Of a command the model keeps whether it observes the job's token and    *)
(* which of its answers end the chain.                                     *)
(***************************************************************************)
EXTENDS Integers, FiniteSets, SequencesExt

CONSTANTS
  Job,         \* identities of the jobs a behaviour may create
  Dev,         \* devices
  Orders,      \* what a job may be started as: [kind, targets, width]
  MaxJobs,     \* jobs the manager keeps (100)
  JobCommands  \* bound: operator commands to jobs in a behaviour

Kinds == {"shell", "screenshot", "recording", "push", "wallpaper", "direct"}

ASSUME OrderAssumption ==
  \A o \in Orders : /\ o.kind \in Kinds /\ o.width \in Nat \ {0}
                    /\ o.targets \in Seq(Dev) /\ IsInjective(o.targets)
                    /\ o.targets # <<>>
ASSUME KeptAssumption == MaxJobs \in Nat \ {0} /\ JobCommands \in Nat

VARIABLES
  batch,    \* what the handlers of the GUI thread keep: jobs, m_jobs, the doomed
  calls,    \* item functions under way: the command they wait for
  posted,   \* results posted to the GUI thread
  recording,\* g_recording
  ordered   \* operator commands so far

batchVars == <<batch, calls, posted, recording, ordered>>

Answers == {"ok", "failed", "cancelled"}
Bad     == {"failed", "cancelled"}

\* A link of a chain: does the command observe the job's token, and which answers end the
\* chain in failure?
Link(token, ends) == [token |-> token, ends |-> ends]

ShellChain      == <<Link(TRUE, Bad)>>                    \* install, launch, settings, ...
ScreenshotChain == <<Link(TRUE, Bad), Link(FALSE, Bad)>>  \* screencap, the media lane
RecordingChain  == <<Link(TRUE, {"cancelled"}), Link(FALSE, Bad)>>   \* screenrecord, pull
PushChain       == <<Link(TRUE, {}), Link(TRUE, Bad)>>    \* mkdir, push
WallpaperChain  == <<Link(FALSE, {}), Link(TRUE, Bad), Link(FALSE, Bad)>> \* mkdir, push, start
DirectChain     == <<>>                                   \* reboot, the mirror channel

Chain(kind) ==
  CASE kind = "shell"      -> ShellChain
    [] kind = "screenshot" -> ScreenshotChain
    [] kind = "recording"  -> RecordingChain
    [] kind = "push"       -> PushChain
    [] kind = "wallpaper"  -> WallpaperChain
    [] kind = "direct"     -> DirectChain

Over == {"Completed", "Failed", "Cancelled"}

NewJob == [status |-> "none", kind |-> "shell", targets |-> <<>>, width |-> 0,
           item |-> [d \in Dev |-> "none"], attempts |-> [d \in Dev |-> 0],
           token |-> FALSE,
           said |-> 0]   \* history: how often `finished` was emitted since the (re)start

With(J, s)     == {d \in Dev : J.item[d] = s}
InProgress(J)  == Cardinality(With(J, "running"))

Moved(J, S, s) == [J EXCEPT !.item = [d \in Dev |-> IF d \in S THEN s ELSE @[d]]]

-----------------------------------------------------------------------------
(* BatchJob.  A handler also returns the item functions it called.         *)

SetJobStatus(J, s) ==
  IF J.status = s THEN J
  ELSE [J EXCEPT !.status = s, !.said = IF s \in Over THEN @ + 1 ELSE @]

\* The devices the while loop of pump starts: the first that wait, as far as there is room.
Picked(J) ==
  LET waiting == {i \in DOMAIN J.targets : J.item[J.targets[i]] = "queued"}
      before(i) == Cardinality({k \in waiting : k < i})
  IN  {J.targets[i] : i \in {i \in waiting : before(i) < J.width - InProgress(J)}}

Verdict(J) ==
  IF With(J, "failed") # {} /\ With(J, "ok") = {} THEN "Failed" ELSE "Completed"

PumpJob(J) ==
  IF J.status # "Running"
  THEN IF J.status = "Cancelled" /\ InProgress(J) = 0 THEN [J EXCEPT !.said = @ + 1] ELSE J
  ELSE LET S == Picked(J)
           K == [Moved(J, S, "running") EXCEPT
                   !.attempts = [d \in Dev |-> IF d \in S THEN @[d] + 1 ELSE @[d]]]
       IN  IF With(K, "running") \cup With(K, "queued") = {}
           THEN SetJobStatus(K, Verdict(K)) ELSE K

StartedJob(o) ==
  PumpJob([NewJob EXCEPT !.status = "Running", !.kind = o.kind, !.targets = o.targets,
                         !.width = o.width,
                         !.item = [d \in Dev |-> IF d \in Range(o.targets) THEN "queued"
                                                                          ELSE "none"]])

PauseJob(J)  == IF J.status = "Running" THEN SetJobStatus(J, "Paused") ELSE J
ResumeJob(J) == IF J.status = "Paused" THEN PumpJob(SetJobStatus(J, "Running")) ELSE J

\* Faulty variant: a cancelled job is announced at once and again by pump.
CancelJobAtOnce(J) ==
  IF J.status \notin {"Running", "Paused"} THEN J
  ELSE SetJobStatus([Moved(J, With(J, "queued"), "cancelled") EXCEPT !.token = TRUE],
                    "Cancelled")

\* With items under way it is the pump of the last one that announces the end.
CancelJob(J) ==
  IF J.status \notin {"Running", "Paused"} THEN J
  ELSE LET K == [Moved(J, With(J, "queued"), "cancelled") EXCEPT !.token = TRUE]
       IN  IF InProgress(K) = 0 THEN SetJobStatus(K, "Cancelled")
           ELSE [K EXCEPT !.status = "Cancelled"]

\* Faulty variant: all but the succeeded items are queued again, the running ones too.
RetryJobOfAll(J) ==
  LET again == {d \in Dev : J.item[d] \in {"failed", "cancelled", "running"}}
  IN  IF With(J, "failed") \cup With(J, "cancelled") = {} THEN J
      ELSE PumpJob(SetJobStatus([Moved(J, again, "queued") EXCEPT !.token = FALSE, !.said = 0],
                                "Running"))

RetryJob(J) ==
  LET again == With(J, "failed") \cup With(J, "cancelled")
  IN  IF again = {} THEN J
      ELSE PumpJob(SetJobStatus([Moved(J, again, "queued") EXCEPT !.token = FALSE, !.said = 0],
                                "Running"))

\* Faulty variant: a result does not pump.
ItemDoneAlone(J, d, attempt, ok) ==
  IF J.attempts[d] # attempt \/ J.item[d] # "running" THEN J
  ELSE Moved(J, {d}, IF ok THEN "ok" ELSE IF J.token THEN "cancelled" ELSE "failed")

\* onItemDone: a result of an earlier attempt is dropped.
ItemDone(J, d, attempt, ok) ==
  IF J.attempts[d] # attempt \/ J.item[d] # "running" THEN J
  ELSE PumpJob(Moved(J, {d}, IF ok THEN "ok" ELSE IF J.token THEN "cancelled" ELSE "failed"))

-----------------------------------------------------------------------------
(* The item functions.                                                     *)

Call(j, d, n, link) == [job |-> j, dev |-> d, attempt |-> n, link |-> link]
Result(c, ok)       == [job |-> c.job, dev |-> c.dev, attempt |-> c.attempt, ok |-> ok]

\* What pump's calls of m_fn do at once for the devices S: a device that is being recorded
\* refuses a second recording, and a direct item is done, well where the device is able
\* (it is mirrored; the device is known).
FirstCalls(j, J, S, able) ==
  LET new  == {Call(j, d, J.attempts[d], 1) : d \in S}
      deny == {c \in new : J.kind = "recording" /\ c.dev \in recording}
  IN  IF Chain(J.kind) = <<>>
      THEN [calls |-> {}, results |-> {Result(c, c.dev \in able) : c \in new}, recording |-> {}]
      ELSE [calls |-> new \ deny, results |-> {Result(c, FALSE) : c \in deny},
            recording |-> {c.dev : c \in {x \in new \ deny : J.kind = "recording"}}]

\* A handler of the GUI thread leaves the jobs C, having taken the results `taken` and
\* pumped job j: the items it has moved to "running" are called.
Handled(j, C, taken) ==
  LET fresh == {d \in Dev : C.job[j].attempts[d] > batch.job[j].attempts[d]}
  IN  \E able \in SUBSET fresh :
        LET F == FirstCalls(j, C.job[j], fresh, able)
        IN  /\ batch' = C
            /\ calls' = calls \cup F.calls
            /\ recording' = recording \cup F.recording
            /\ posted' = (posted \ taken) \cup F.results

-----------------------------------------------------------------------------
\* JobManager::add drops the oldest jobs beyond MaxJobs up to the first active one.
Kept(C) ==
  LET active(i) == C.job[C.jobs[i]].status \in {"Running", "Paused"}
      stays == {i \in DOMAIN C.jobs : i <= MaxJobs \/ \E k \in i .. Len(C.jobs) : active(k)}
  IN  [C EXCEPT !.jobs   = SubSeq(@, 1, Cardinality(stays)),
                !.doomed = @ \cup {C.jobs[i] : i \in DOMAIN C.jobs \ stays}]

BatchInit ==
  /\ batch = [job |-> [j \in Job |-> NewJob], jobs |-> <<>>, doomed |-> {}]
  /\ calls = {} /\ posted = {} /\ recording = {} /\ ordered = 0

StartJob(j, o) ==
  /\ batch.job[j].status = "none"
  /\ Handled(j, [Kept([batch EXCEPT !.jobs = <<j>> \o @]) EXCEPT !.job[j] = StartedJob(o)], {})
  /\ UNCHANGED ordered

\* The buttons of the job's dialog, where they are enabled.
Order(j) ==
  /\ ordered < JobCommands /\ ordered' = ordered + 1
  /\ j \in Range(batch.jobs)
  /\ LET J == batch.job[j]
         becomes(K) == Handled(j, [batch EXCEPT !.job[j] = K], {})
     IN  \/ J.status = "Running" /\ becomes(PauseJob(J))
         \/ J.status = "Paused" /\ becomes(ResumeJob(J))
         \/ J.status \in {"Running", "Paused"} /\ becomes(CancelJob(J))
         \/ /\ J.status \in Over /\ With(J, "failed") \cup With(J, "cancelled") # {}
            /\ becomes(RetryJob(J))

TakeResult(m) ==
  /\ Handled(m.job, [batch EXCEPT !.job[m.job] = ItemDone(@, m.dev, m.attempt, m.ok)], {m})
  /\ UNCHANGED ordered

\* The event loop deletes a dropped job, and the results posted to it.
DeleteJob(j) ==
  /\ j \in batch.doomed
  /\ batch' = [batch EXCEPT !.doomed = @ \ {j}, !.job[j].status = "gone"]
  /\ posted' = {m \in posted : m.job # j}
  /\ UNCHANGED <<calls, recording, ordered>>

\* Faulty variant: a cancelled recording leaves its mark.
AnswerKeepingMark(c, a) ==
  LET J    == batch.job[c.job]
      link == Chain(J.kind)[c.link]
      ends == a \in link.ends \/ c.link = Len(Chain(J.kind))
  IN  /\ a = "cancelled" => link.token /\ J.token
      /\ calls' = (calls \ {c}) \cup (IF ends THEN {} ELSE {[c EXCEPT !.link = @ + 1]})
      /\ posted' = IF ends /\ J.status # "gone" THEN posted \cup {Result(c, a = "ok")} ELSE posted
      /\ recording' = IF J.kind = "recording" /\ c.link = 1 /\ a # "cancelled"
                      THEN recording \ {c.dev} ELSE recording
      /\ UNCHANGED <<batch, ordered>>

\* The answer to the command an item waits for: it is the last, or the next is asked for.
\* A command that observes the token is answered with "cancelled" once that is cancelled.
Answer(c, a) ==
  LET J    == batch.job[c.job]
      link == Chain(J.kind)[c.link]
      ends == a \in link.ends \/ c.link = Len(Chain(J.kind))
  IN  /\ a = "cancelled" => link.token /\ J.token
      /\ calls' = (calls \ {c}) \cup (IF ends THEN {} ELSE {[c EXCEPT !.link = @ + 1]})
      /\ posted' = IF ends /\ J.status # "gone" THEN posted \cup {Result(c, a = "ok")} ELSE posted
      /\ recording' = IF J.kind = "recording" /\ c.link = 1 THEN recording \ {c.dev} ELSE recording
      /\ UNCHANGED <<batch, ordered>>

BatchNext ==
  \/ \E j \in Job, o \in Orders : StartJob(j, o)
  \/ \E j \in Job : Order(j) \/ DeleteJob(j)
  \/ \E m \in posted : TakeResult(m)
  \/ \E c \in calls, a \in Answers : Answer(c, a)

BatchSpec == BatchInit /\ [][BatchNext]_batchVars

\* AdbExecutor answers every command (its property CommandsAreAnswered), the media lane
\* ends its work, and the event loop goes on taking results; taking one, or an answer,
\* may leave the next in its place.
FairBatchSpec ==
  /\ BatchSpec
  /\ WF_calls(\E c \in calls, more \in {{}, {1}} :
                calls' = (calls \ {c}) \cup {[c EXCEPT !.link = @ + 1] : x \in more})
  /\ WF_posted(\E m \in posted, more \in SUBSET Dev, n \in 1 .. JobCommands + 1, ok \in BOOLEAN :
                 posted' = (posted \ {m}) \cup {[m EXCEPT !.dev = d, !.attempt = n, !.ok = ok] :
                                                d \in more \ {m.dev}})

-----------------------------------------------------------------------------
(* Properties.                                                             *)

JobState == [
  status : {"none", "gone", "Running", "Paused"} \cup Over, kind : Kinds,
  targets : Seq(Dev), width : Nat,
  item : [Dev -> {"none", "queued", "running", "ok", "failed", "cancelled"}],
  attempts : [Dev -> Nat], token : BOOLEAN, said : Nat ]

BatchTypeOK ==
  /\ batch \in [job : [Job -> JobState], jobs : Seq(Job), doomed : SUBSET Job]
  /\ calls \subseteq [job : Job, dev : Dev, attempt : Nat, link : 1 .. 3]
  /\ posted \subseteq [job : Job, dev : Dev, attempt : Nat, ok : BOOLEAN]
  /\ recording \subseteq Dev
  /\ ordered \in 0 .. JobCommands

Pending(j, d) == {c \in calls : c.job = j /\ c.dev = d} \cup
                 {m \in posted : m.job = j /\ m.dev = d}

\* While a job is kept, an item is in progress exactly when its item function is under way
\* or its result is posted, once, for the attempt the job waits for: no result is lost, and
\* none of an earlier attempt is taken for a later one's.
ItemsAreOut ==
  BatchTypeOK /\ \A j \in Job, d \in Dev :
    LET J == batch.job[j]
    IN  J.status # "gone" =>
          /\ Cardinality(Pending(j, d)) = IF J.item[d] = "running" THEN 1 ELSE 0
          /\ \A x \in Pending(j, d) : x.attempt = J.attempts[d]

\* A device has at most one screen recording under way, over all jobs, also deleted ones;
\* and it is marked in g_recording exactly as long.
RecordingIsExclusive ==
  LET taping(d) == {c \in calls : c.dev = d /\ c.link = 1 /\ batch.job[c.job].kind = "recording"}
  IN  \A d \in Dev : Cardinality(taping(d)) = IF d \in recording THEN 1 ELSE 0

Unkept == [list |-> <<>>, width |-> 0, waiting |-> <<>>, out |-> {}, mode |-> "dropped", said |-> 0]

PoolOf(j) ==
  LET J == batch.job[j]
      mode == CASE J.status = "none"    -> "none"
                [] J.status = "Running" -> "open"
                [] J.status = "Paused"  -> "held"
                [] OTHER                -> IF J.said = 0 THEN "closing" ELSE "closed"
  IN  IF J.status = "gone" \/ j \in batch.doomed THEN Unkept
      ELSE [list |-> J.targets, width |-> J.width,
            waiting |-> SelectSeq(J.targets, LAMBDA d : J.item[d] = "queued"),
            out |-> With(J, "running"), mode |-> mode, said |-> J.said]

\* Each job is a WorkPool: list order, width, no idle room while it runs, and `finished`
\* emitted once per start or retry, when the last item is settled and not before.
Pools == INSTANCE WorkPool WITH Pool <- Job, Item <- Dev, pool <- [j \in Job |-> PoolOf(j)]
JobsArePools == Pools!Spec

\* A job that was started or cancelled ends, unless it is left paused or dropped.
JobsEnd ==
  \A j \in Job :
    batch.job[j].status \in {"Running", "Cancelled"} ~>
      \/ batch.job[j].status \in Over /\ With(batch.job[j], "running") = {}
      \/ batch.job[j].status \in {"Paused", "gone"} \/ j \in batch.doomed
=============================================================================

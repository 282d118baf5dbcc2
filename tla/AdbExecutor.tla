---------------------------- MODULE AdbExecutor ----------------------------
(***************************************************************************)
(* The bounded runner of `adb` commands (farm/adb/adbexecutor.cpp).        *)
(*                                                                         *)
(* Three kinds of threads meet here: the GUI thread asks for commands,     *)
(* changes the cap and stops the executor; the executor thread runs pump,  *)
(* launch, finish and the callbacks that were given no receiver; worker    *)
(* threads call runSync.  A step is what a thread does between two looks   *)
(* at shared state: a section under m_mutex, an operation of the semaphore *)
(* m_slots, a read of an atomic flag.                                      *)
(*                                                                         *)
(* An operator called a faulty variant is the action below it with a bug a *)
(* programmer could plausibly have written; no action uses it.             *)
(***************************************************************************)
EXTENDS Integers, FiniteSets, Sequences

CONSTANTS
  Cmd,          \* the asynchronous commands of a run
  NoCmd,
  Follow,       \* the command a callback without receiver asks for, or NoCmd
  Tokened,      \* the commands that carry a cancellation token
  Worker,       \* the threads that call runSync
  CapRange,     \* the values of the setting adb/concurrency
  ChangeBound,  \* bound: changes of that setting
  CallBound     \* bound: runSync calls of one worker

ASSUME CommandAssumption ==
  /\ IsFiniteSet(Cmd) /\ NoCmd \notin Cmd
  /\ Cmd \cap {"pump", "delete"} = {}
  /\ Follow \in [Cmd -> Cmd \cup {NoCmd}]
  /\ \A c, d \in Cmd : Follow[c] = Follow[d] /\ Follow[c] # NoCmd => c = d
  /\ Tokened \subseteq Cmd
ASSUME ThreadAssumption == IsFiniteSet(Worker)
ASSUME CapAssumption == CapRange \subseteq Nat \ {0} /\ CapRange # {}
ASSUME BoundAssumption == ChangeBound \in Nat /\ CallBound \in Nat

\* The commands the GUI thread asks for: those no callback asks for.
First == {c \in Cmd : \A d \in Cmd : Follow[d] # c}

VARIABLES
  queue,          \* m_queue
  running,        \* m_running
  permits,        \* m_slots.available()
  cap,            \* m_maxConcurrency
  pendingShrink,  \* m_pendingShrink
  started,        \* m_started
  stopping,       \* m_stopping
  posted,         \* what is posted to m_worker: pumps, kills (the command), the deletion
  at,             \* where the executor thread is
  hand,           \* the command it is busy with
  worker,         \* where each worker thread is
  gui,            \* how far stop() is on the GUI thread
  drained,        \* cancelAll's local `queued`: still to be answered
  doomed,         \* cancelAll's local `running`: still to be killed
  asked,          \* the commands asked for so far
  answers,        \* how often a command was answered
  revoked,        \* the tokens that were cancelled
  changes, calls  \* what the bounds count

core   == <<queue, running, permits, cap, pendingShrink>>
flags  == <<started, stopping>>
ledger == <<asked, answers>>
stop   == <<gui, drained, doomed>>
vars   == <<core, flags, posted, at, hand, worker, stop, ledger, revoked, changes, calls>>

ExecStates == {"idle", "pumping", "dequeued", "releasing", "permit", "delivering",
               "asking", "pushing", "kicking", "restarted", "gone"}
WorkerStates == {"out", "waiting", "holding", "permit", "kicking"}
GuiStates == {"open", "stopping", "draining", "closing", "joining", "quitting", "gone"}

\* Consecutive pumps do what one of them does.
Post(e) == IF e = "pump" /\ posted # <<>> /\ posted[Len(posted)] = "pump"
             THEN posted ELSE Append(posted, e)

Min2(a, b) == IF a < b THEN a ELSE b

-----------------------------------------------------------------------------
(* The GUI thread.                                                         *)

\* run(): nobody else sets m_stopping or stops the thread, so one step will do.
Ask(c) ==
  /\ gui = "open" /\ c \in First \ asked
  /\ asked' = asked \cup {c}
  /\ queue' = Append(queue, c)
  /\ posted' = Post("pump")
  /\ UNCHANGED <<running, permits, cap, pendingShrink, flags, at, hand, worker, stop,
                 answers, revoked, changes, calls>>

\* The owner of a token cancels it.
Revoke(c) ==
  /\ c \in Tokened \ revoked
  /\ revoked' = revoked \cup {c}
  /\ UNCHANGED <<core, flags, posted, at, hand, worker, stop, ledger, changes, calls>>

\* Faulty variant: permits are taken back without looking whether they are free.
SetCapUnchecked(n) ==
  /\ gui = "open" /\ n # cap /\ changes < ChangeBound
  /\ changes' = changes + 1
  /\ cap' = n /\ permits' = permits + (n - cap)
  /\ posted' = Post("pump")
  /\ UNCHANGED <<queue, running, pendingShrink, flags, at, hand, worker, stop, ledger,
                 revoked, calls>>

\* setMaxConcurrency: under m_mutex throughout.
SetCap(n) ==
  /\ gui = "open" /\ n # cap /\ changes < ChangeBound
  /\ changes' = changes + 1
  /\ cap' = n
  /\ IF n > cap
       THEN LET undone == Min2(n - cap, pendingShrink)
            IN  /\ pendingShrink' = pendingShrink - undone
                /\ permits' = permits + (n - cap) - undone
       ELSE LET taken == Min2(cap - n, permits)
            IN  /\ permits' = permits - taken
                /\ pendingShrink' = pendingShrink + (cap - n) - taken
  /\ posted' = Post("pump")
  /\ UNCHANGED <<queue, running, flags, at, hand, worker, stop, ledger, revoked, calls>>

BeginStop ==
  /\ gui = "open"
  /\ gui' = "stopping" /\ stopping' = TRUE
  /\ UNCHANGED <<core, started, posted, at, hand, worker, drained, doomed, ledger,
                 revoked, changes, calls>>

\* cancelAll: what waits and what runs is noted under m_mutex.
Drain ==
  /\ gui = "stopping"
  /\ gui' = "draining" /\ drained' = queue /\ doomed' = running
  /\ queue' = <<>>
  /\ UNCHANGED <<running, permits, cap, pendingShrink, flags, posted, at, hand, worker,
                 ledger, revoked, changes, calls>>

\* A callback that asks for a follow-up while stopping gets its answer at once.
AnswerDrained ==
  /\ gui = "draining" /\ drained # <<>>
  /\ LET c == Head(drained)
     IN  /\ answers' = [answers EXCEPT ![c] = @ + 1]
         /\ IF Follow[c] = NoCmd
              THEN drained' = Tail(drained) /\ UNCHANGED asked
              ELSE drained' = <<Follow[c]>> \o Tail(drained) /\ asked' = asked \cup {Follow[c]}
  /\ UNCHANGED <<core, flags, posted, at, hand, worker, gui, doomed, revoked, changes, calls>>

PostKill(c) ==
  /\ gui = "draining" /\ drained = <<>> /\ c \in doomed
  /\ doomed' = doomed \ {c}
  /\ posted' = Post(c)
  /\ UNCHANGED <<core, flags, at, hand, worker, gui, drained, ledger, revoked, changes, calls>>

EndStarted ==
  /\ gui = "draining" /\ drained = <<>> /\ doomed = {}
  /\ gui' = "closing" /\ started' = FALSE
  /\ UNCHANGED <<core, stopping, posted, at, hand, worker, drained, doomed, ledger,
                 revoked, changes, calls>>

PostDelete ==
  /\ gui = "closing" /\ at # "restarted"
  /\ gui' = "joining"
  /\ posted' = Post("delete")
  /\ UNCHANGED <<core, flags, at, hand, worker, drained, doomed, ledger, revoked,
                 changes, calls>>

\* The thread has ended: m_worker is gone with the processes it owned.
EndStop ==
  /\ gui = "quitting" /\ at = "gone"
  /\ gui' = "gone" /\ stopping' = FALSE
  /\ UNCHANGED <<core, started, posted, at, hand, worker, drained, doomed, ledger,
                 revoked, changes, calls>>

-----------------------------------------------------------------------------
(* The executor thread: its event loop, pump, launch, finish, deliver.     *)

\* Faulty variant: a kill is taken for a finish without looking it up in m_running.
TakeEventUnchecked ==
  /\ at = "idle" /\ posted # <<>>
  /\ posted' = Tail(posted)
  /\ LET e == Head(posted)
     IN  /\ at' = CASE e = "pump" -> "pumping" [] e = "delete" -> "idle" [] OTHER -> "releasing"
         /\ hand' = IF e \in Cmd THEN e ELSE hand
         /\ running' = running \ {e}
         /\ gui' = IF e = "delete" THEN "quitting" ELSE gui
  /\ UNCHANGED <<queue, permits, cap, pendingShrink, flags, worker, drained, doomed, ledger,
                 revoked, changes, calls>>

TakeEvent ==
  /\ at = "idle" /\ posted # <<>>
  /\ posted' = Tail(posted)
  /\ LET e == Head(posted)
     IN  /\ at' = CASE e = "pump" -> "pumping" [] e \in running -> "releasing" [] OTHER -> "idle"
         /\ hand' = IF e \in running THEN e ELSE hand
         /\ running' = running \ {e}
         /\ gui' = IF e = "delete" THEN "quitting" ELSE gui
  /\ UNCHANGED <<queue, permits, cap, pendingShrink, flags, worker, drained, doomed, ledger,
                 revoked, changes, calls>>

\* finish(): the process ended, did not start, ran out of time, or its token was seen
\* cancelled by the poll.
Finish(c) ==
  /\ at = "idle" /\ c \in running
  /\ running' = running \ {c}
  /\ at' = "releasing" /\ hand' = c
  /\ UNCHANGED <<queue, permits, cap, pendingShrink, flags, posted, worker, stop, ledger,
                 revoked, changes, calls>>

\* Faulty variant: the permit is taken before the queue is seen to be empty.
PumpLeaking ==
  /\ at = "pumping"
  /\ IF queue = <<>> \/ permits = 0
       THEN at' = "idle" /\ permits' = Min2(permits, 0) /\ UNCHANGED <<queue, hand>>
       ELSE /\ at' = "dequeued" /\ hand' = Head(queue)
            /\ queue' = Tail(queue) /\ permits' = permits - 1
  /\ UNCHANGED <<running, cap, pendingShrink, flags, posted, worker, stop, ledger,
                 revoked, changes, calls>>

Pump ==
  /\ at = "pumping"
  /\ IF queue = <<>> \/ permits = 0
       THEN at' = "idle" /\ UNCHANGED <<queue, permits, hand>>
       ELSE /\ at' = "dequeued" /\ hand' = Head(queue)
            /\ queue' = Tail(queue) /\ permits' = permits - 1
  /\ UNCHANGED <<running, cap, pendingShrink, flags, posted, worker, stop, ledger,
                 revoked, changes, calls>>

\* Faulty variant: a command whose token was cancelled keeps its permit.
LaunchKeepingPermit ==
  /\ at = "dequeued"
  /\ IF hand \in revoked
       THEN at' = "delivering" /\ UNCHANGED <<running, hand>>
       ELSE at' = "pumping" /\ running' = running \cup {hand} /\ hand' = NoCmd
  /\ UNCHANGED <<queue, permits, cap, pendingShrink, flags, posted, worker, stop, ledger,
                 revoked, changes, calls>>

Launch ==
  /\ at = "dequeued"
  /\ IF hand \in revoked
       THEN at' = "releasing" /\ UNCHANGED <<running, hand>>
       ELSE at' = "pumping" /\ running' = running \cup {hand} /\ hand' = NoCmd
  /\ UNCHANGED <<queue, permits, cap, pendingShrink, flags, posted, worker, stop, ledger,
                 revoked, changes, calls>>

\* releaseSlot: under m_mutex a pending shrink swallows the permit ...
Retire ==
  /\ at = "releasing"
  /\ IF pendingShrink > 0
       THEN at' = "delivering" /\ pendingShrink' = pendingShrink - 1
       ELSE at' = "permit" /\ UNCHANGED pendingShrink
  /\ UNCHANGED <<queue, running, permits, cap, flags, posted, hand, worker, stop, ledger,
                 revoked, changes, calls>>

\* ... else, after the unlock, the permit goes back.
Release ==
  /\ at = "permit"
  /\ at' = "delivering" /\ permits' = permits + 1
  /\ UNCHANGED <<queue, running, cap, pendingShrink, flags, posted, hand, worker, stop,
                 ledger, revoked, changes, calls>>

\* Faulty variant: finish() does not pump after the answer.
DeliverWithoutPump ==
  /\ at = "delivering"
  /\ answers' = [answers EXCEPT ![hand] = @ + 1]
  /\ hand' = Follow[hand]
  /\ at' = IF Follow[hand] = NoCmd THEN "idle" ELSE "asking"
  /\ asked' = asked \cup ({Follow[hand]} \ {NoCmd})
  /\ UNCHANGED <<core, flags, posted, worker, stop, revoked, changes, calls>>

\* The answer: posted to the receiver's thread, or the callback runs here and now and
\* may ask for a follow-up.
Deliver ==
  /\ at = "delivering"
  /\ answers' = [answers EXCEPT ![hand] = @ + 1]
  /\ hand' = Follow[hand]
  /\ at' = IF Follow[hand] = NoCmd THEN "pumping" ELSE "asking"
  /\ asked' = asked \cup ({Follow[hand]} \ {NoCmd})
  /\ UNCHANGED <<core, flags, posted, worker, stop, revoked, changes, calls>>

\* enqueue() on this thread: the look at m_stopping ...
Enqueue ==
  /\ at = "asking"
  /\ at' = IF stopping THEN "delivering" ELSE "pushing"
  /\ UNCHANGED <<core, flags, posted, hand, worker, stop, ledger, revoked, changes, calls>>

\* ... the push under m_mutex ...
Push ==
  /\ at = "pushing"
  /\ at' = "kicking" /\ hand' = NoCmd
  /\ queue' = Append(queue, hand)
  /\ UNCHANGED <<running, permits, cap, pendingShrink, flags, posted, worker, stop, ledger,
                 revoked, changes, calls>>

\* ... and the look at m_started.  A second start() replaces m_thread and m_worker while
\* stop() uses them: what the two threads do from there on is left open.
Kick ==
  /\ at = "kicking"
  /\ IF started
       THEN at' = "pumping" /\ posted' = Post("pump") /\ UNCHANGED started
       ELSE at' = "restarted" /\ started' = TRUE /\ UNCHANGED posted
  /\ UNCHANGED <<core, stopping, hand, worker, stop, ledger, revoked, changes, calls>>

\* The event loop is left, or m_worker's deferred deletion comes up in it.
Quit ==
  /\ at = "idle" /\ gui = "quitting"
  /\ at' = "gone"
  /\ UNCHANGED <<core, flags, posted, hand, worker, stop, ledger, revoked, changes, calls>>

-----------------------------------------------------------------------------
(* Worker threads: runSync.                                                *)

Goto(w, s) == worker' = [worker EXCEPT ![w] = s]

Call(w) ==
  /\ worker[w] = "out" /\ calls[w] < CallBound
  /\ calls' = [calls EXCEPT ![w] = @ + 1]
  /\ Goto(w, "waiting")
  /\ UNCHANGED <<core, flags, posted, at, hand, stop, ledger, revoked, changes>>

Acquire(w) ==
  /\ worker[w] = "waiting" /\ permits > 0
  /\ permits' = permits - 1
  /\ Goto(w, "holding")
  /\ UNCHANGED <<queue, running, cap, pendingShrink, flags, posted, at, hand, stop, ledger,
                 revoked, changes, calls>>

\* The process ended, failed to start, ran out of time or was cancelled: releaseSlot.
SyncEnds(w) ==
  /\ worker[w] = "holding"
  /\ IF pendingShrink > 0
       THEN Goto(w, "kicking") /\ pendingShrink' = pendingShrink - 1
       ELSE Goto(w, "permit") /\ UNCHANGED pendingShrink
  /\ UNCHANGED <<queue, running, permits, cap, flags, posted, at, hand, stop, ledger,
                 revoked, changes, calls>>

\* Faulty variant: the permit goes back and nobody is told.
SyncReleasesSilently(w) ==
  /\ worker[w] = "permit"
  /\ permits' = permits + 1
  /\ Goto(w, "out")
  /\ UNCHANGED <<queue, running, cap, pendingShrink, flags, posted, at, hand, stop, ledger,
                 revoked, changes, calls>>

SyncReleases(w) ==
  /\ worker[w] = "permit"
  /\ permits' = permits + 1
  /\ Goto(w, "kicking")
  /\ UNCHANGED <<queue, running, cap, pendingShrink, flags, posted, at, hand, stop, ledger,
                 revoked, changes, calls>>

SyncKicks(w) ==
  /\ worker[w] = "kicking"
  /\ posted' = IF at = "gone" THEN posted ELSE Post("pump")
  /\ Goto(w, "out")
  /\ UNCHANGED <<core, flags, at, hand, stop, ledger, revoked, changes, calls>>

-----------------------------------------------------------------------------
Init ==
  /\ queue = <<>> /\ running = {}
  /\ cap \in CapRange /\ permits = cap /\ pendingShrink = 0
  /\ started = TRUE /\ stopping = FALSE
  /\ posted = <<>> /\ at = "idle" /\ hand = NoCmd
  /\ worker = [w \in Worker |-> "out"]
  /\ gui = "open" /\ drained = <<>> /\ doomed = {}
  /\ asked = {} /\ answers = [c \in Cmd |-> 0] /\ revoked = {}
  /\ changes = 0 /\ calls = [w \in Worker |-> 0]

Gui == \/ \E c \in Cmd : Ask(c) \/ Revoke(c) \/ PostKill(c)
       \/ \E n \in CapRange : SetCap(n)
       \/ BeginStop \/ Drain \/ AnswerDrained \/ EndStarted \/ PostDelete \/ EndStop

Executor == \/ TakeEvent \/ Pump \/ Launch \/ Retire \/ Release \/ Deliver
            \/ Enqueue \/ Push \/ Kick \/ Quit
            \/ \E c \in Cmd : Finish(c)

Sync(w) == Acquire(w) \/ SyncEnds(w) \/ SyncReleases(w) \/ SyncKicks(w)

Next == Gui \/ Executor \/ \E w \in Worker : Call(w) \/ Sync(w)

Spec == Init /\ [][Next]_vars

\* Threads run, and every process ends: it has a watchdog.
FairSpec == /\ Spec
            /\ WF_vars(Executor)
            /\ \A w \in Worker : WF_vars(Sync(w))

-----------------------------------------------------------------------------
(* Properties.                                                             *)

TypeOK ==
  /\ queue \in Seq(Cmd) /\ running \subseteq Cmd
  /\ permits \in Nat /\ cap \in CapRange /\ pendingShrink \in Nat
  /\ started \in BOOLEAN /\ stopping \in BOOLEAN
  /\ posted \in Seq(Cmd \cup {"pump", "delete"})
  /\ at \in ExecStates /\ hand \in Cmd \cup {NoCmd}
  /\ worker \in [Worker -> WorkerStates]
  /\ gui \in GuiStates /\ drained \in Seq(Cmd) /\ doomed \subseteq Cmd
  /\ asked \subseteq Cmd /\ answers \in [Cmd -> Nat] /\ revoked \subseteq Tokened
  /\ changes \in Nat /\ calls \in [Worker -> Nat]

HandHolds == at \in {"dequeued", "releasing", "permit"}
Holders == {w \in Worker : worker[w] \in {"holding", "permit"}}
Held == Cardinality(running) + Cardinality(Holders) + (IF HandHolds THEN 1 ELSE 0)

\* No permit is lost or made up: through asynchronous and synchronous commands, cancelled
\* ones, and changes of the cap, the free permits and the held ones are the cap plus what
\* a lowered cap has yet to take back (pump, releaseSlot, setMaxConcurrency, runSync).
PermitsConserved == permits + Held = cap + pendingShrink

\* No lost wakeup: while a command waits and a permit is free, somebody is about to pump.
\* Three threads put permits back, one of them under no lock (releaseSlot, kickPump).
NoLostWakeup ==
  queue # <<>> /\ permits > 0 /\ at \notin {"restarted", "gone"} =>
    \/ at # "idle"
    \/ \E i \in DOMAIN posted : posted[i] = "pump"
    \/ \E w \in Worker : worker[w] = "kicking"

\* Every command asked for is in exactly one place, once: it waits, is drained by stop(),
\* is in the executor's hand, runs, or was answered, and that only once (enqueue, pump,
\* finish, deliver, cancelAll).
Within(q) == {q[i] : i \in DOMAIN q}
Once(q)   == \A i, j \in DOMAIN q : q[i] = q[j] => i = j
Answered  == {c \in Cmd : answers[c] > 0}
Places == <<Within(queue), Within(drained), {hand} \ {NoCmd}, running, Answered>>
Accounted ==
  /\ \A c \in Cmd : answers[c] <= 1
  /\ Once(queue) /\ Once(drained)
  /\ \A i, j \in 1 .. 5 : i # j => Places[i] \cap Places[j] = {}
  /\ asked = UNION {Places[i] : i \in 1 .. 5}

\* Every command is answered, and every synchronous call returns, unless the program is
\* being closed: with one cap for both kinds no permit is kept from either for ever.
CommandsAreAnswered == \A c \in Cmd : c \in asked ~> c \in Answered \/ gui # "open"
SyncCallsReturn ==
  \A w \in Worker : worker[w] = "waiting" ~> worker[w] = "out" \/ gui # "open"
=============================================================================

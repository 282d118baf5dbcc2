---------------------------- MODULE NetworkScanner ----------------------------
(***************************************************************************)
(* farm/discovery/networkscanner.cpp: the sockets of a sweep live on a      *)
(* thread of their own.  The GUI thread posts `begin` and `cancelNow` to    *)
(* it; it posts the hosts that answer and its end back.  The cancellation   *)
(* token is the one thing both threads read and write.  Of the service that *)
(* uses the scanner its flag m_scanning is here: it starts a sweep only when *)
(* none is on, and may cancel the one that is.                              *)
(***************************************************************************)
EXTENDS Sequences, FiniteSets, Naturals

CONSTANTS
    Hosts,
    Concurrency   \* sockets at a time

ASSUME ConcurrencyIsPositive == Concurrency \in Nat \ {0}

VARIABLES
    m_scanning, \* the service's flag
    m_found,    \* the hosts the service was told of, then those of the end
    m_running,  \* the scanner's flag, on the GUI thread
    token,      \* the token of the last sweep is cancelled
    inbox,      \* calls posted to the worker
    worker,     \* m_active, m_cancelled, m_queue, the sockets, m_found
    outbox      \* signals posted to the GUI thread

scanVars == <<m_scanning, m_found, m_running, token, inbox, worker, outbox>>

Resting == [active |-> FALSE, cancelled |-> FALSE, queue |-> {}, inFlight |-> {}, found |-> {}]

HostFound(h) == [kind |-> "hostFound", host |-> h]
Idle == [kind |-> "idle"]
Finished(found, cancelled) == [kind |-> "finished", found |-> found, cancelled |-> cancelled]

ScanInit ==
    /\ m_scanning = FALSE
    /\ m_found = {}
    /\ m_running = FALSE
    /\ token = FALSE
    /\ inbox = <<>>
    /\ worker = Resting
    /\ outbox = <<>>
-----------------------------------------------------------------------------
(* The GUI thread *)

\* fullScan or connectRange: a sweep with a new token.
StartSweep ==
    /\ ~m_scanning
    /\ m_scanning' = TRUE
    /\ m_found' = {}
    /\ token' = FALSE
    /\ IF m_running THEN UNCHANGED <<m_running, inbox>>
       ELSE m_running' = TRUE /\ inbox' = Append(inbox, "begin")
    /\ UNCHANGED <<worker, outbox>>

\* cancelScan: the token is cancelled and cancelNow posted.
CancelSweep ==
    /\ m_scanning /\ ~token
    /\ token' = TRUE
    /\ inbox' = IF m_running THEN Append(inbox, "cancel") ELSE inbox
    /\ UNCHANGED <<m_scanning, m_found, m_running, worker, outbox>>

\* onScannerHost.
HostReported ==
    /\ outbox # <<>> /\ Head(outbox).kind = "hostFound"
    /\ outbox' = Tail(outbox)
    /\ m_found' = m_found \cup {Head(outbox).host}
    /\ UNCHANGED <<m_scanning, m_running, token, inbox, worker>>

\* The scanner's own slot of `finished`, connected before the service's.
ScannerIdle ==
    /\ outbox # <<>> /\ Head(outbox).kind = "idle"
    /\ m_running' = FALSE
    /\ outbox' = Tail(outbox)
    /\ UNCHANGED <<m_scanning, m_found, token, inbox, worker>>

\* onScannerFinished.
SweepEnds ==
    /\ outbox # <<>> /\ Head(outbox).kind = "finished"
    /\ m_scanning' = FALSE
    /\ m_found' = Head(outbox).found
    /\ outbox' = Tail(outbox)
    /\ UNCHANGED <<m_running, token, inbox, worker>>
-----------------------------------------------------------------------------
(* The scanner thread *)

\* finish: it reports once, and rests until the next begin.
Finish(w, posted) ==
    /\ worker' = [w EXCEPT !.active = FALSE, !.found = {}]
    /\ outbox' = posted \o <<Idle, Finished(w.found, w.cancelled \/ token)>>

\* pump: hosts are tried while there is room; those of `failing` fail inside
\* connectToHost, and their completion finds m_pumping set.  Then the token is
\* looked at, and a sweep with nothing left ends.  The code reads the token before each
\* probe too: one that is cancelled between two probes of a pump gives what a cancel after
\* it gives, since the hosts not tried are dropped either way and those in flight settle.
Pump(w, posted) ==
    \E tried \in SUBSET w.queue : \E failing \in SUBSET tried :
        LET pumped == [w EXCEPT !.queue = @ \ tried, !.inFlight = @ \cup (tried \ failing)]
            after == IF token THEN [pumped EXCEPT !.cancelled = TRUE, !.queue = {}] ELSE pumped
        IN  /\ token => tried = {}
            /\ Cardinality(pumped.inFlight) <= Concurrency
            /\ \/ token
               \/ pumped.queue = {}
               \/ Cardinality(pumped.inFlight) = Concurrency
            /\ IF after.inFlight = {} THEN Finish(after, posted)
               ELSE worker' = after /\ outbox' = posted

\* begin: hosts, without the addresses of this machine, which may leave none.
Begin ==
    /\ inbox # <<>> /\ Head(inbox) = "begin"
    /\ inbox' = Tail(inbox)
    /\ \E hosts \in SUBSET Hosts :
           LET fresh == [Resting EXCEPT !.active = TRUE, !.queue = hosts] IN
           IF hosts = {} THEN Finish(fresh, outbox) ELSE Pump(fresh, outbox)
    /\ UNCHANGED <<m_scanning, m_found, m_running, token>>

\* Faulty: a cancel that comes late finishes the sweep once more.
CancelNowAlways ==
    /\ inbox # <<>> /\ Head(inbox) = "cancel"
    /\ inbox' = Tail(inbox)
    /\ LET cancelled == [worker EXCEPT !.cancelled = TRUE, !.queue = {}] IN
       IF worker.inFlight = {} THEN Finish(cancelled, outbox)
       ELSE worker' = cancelled /\ UNCHANGED outbox
    /\ UNCHANGED <<m_scanning, m_found, m_running, token>>

\* cancelNow: too late when the worker rests.
CancelNow ==
    /\ inbox # <<>> /\ Head(inbox) = "cancel"
    /\ inbox' = Tail(inbox)
    /\ LET cancelled == [worker EXCEPT !.cancelled = TRUE, !.queue = {}] IN
       CASE ~worker.active -> UNCHANGED <<worker, outbox>>
         [] worker.active /\ worker.inFlight = {} -> Finish(cancelled, outbox)
         [] OTHER -> worker' = cancelled /\ UNCHANGED outbox
    /\ UNCHANGED <<m_scanning, m_found, m_running, token>>

\* A socket connects, fails, or its timer goes off; whichever comes first.
Complete(h, open) ==
    /\ h \in worker.inFlight
    /\ LET settled == [worker EXCEPT !.inFlight = @ \ {h},
                                     !.found = IF open THEN @ \cup {h} ELSE @]
       IN  Pump(settled, IF open THEN Append(outbox, HostFound(h)) ELSE outbox)
    /\ UNCHANGED <<m_scanning, m_found, m_running, token, inbox>>

WorkerStep == Begin \/ CancelNow \/ \E h \in Hosts, open \in BOOLEAN : Complete(h, open)
GuiStep == HostReported \/ ScannerIdle \/ SweepEnds

ScanNext == StartSweep \/ CancelSweep \/ GuiStep \/ WorkerStep

\* Both event loops run, and every socket settles: a timer of its own sees to it.
ScanSpec == ScanInit /\ [][ScanNext]_scanVars /\ WF_scanVars(WorkerStep) /\ WF_scanVars(GuiStep)
-----------------------------------------------------------------------------
\* The hosts the sweep may still report.
Left ==
    IF \E i \in DOMAIN inbox : inbox[i] = "begin" THEN Hosts
    ELSE worker.queue \cup worker.inFlight
         \cup {outbox[i].host : i \in {j \in DOMAIN outbox : outbox[j].kind = "hostFound"}}

Contract == INSTANCE Sweep WITH scanning <- m_scanning, left <- Left, found <- m_found

\* The scanner keeps its contract, whatever the order in which the calls and the
\* signals of the two threads cross: a cancel before the worker began, while it
\* pumps, after it ended and reported, or left over when the next sweep starts.
ScansAreSweeps == Contract!Spec
=============================================================================

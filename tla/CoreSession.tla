---------------------------- MODULE CoreSession ----------------------------
(***************************************************************************)
(* A session of the core from the first adb command to the last thread:    *)
(* ServerStart starts the server; when it reports success, Device opens    *)
(* VideoSession; disconnectDevice, entered from either side, ends both.    *)
(* The GUI thread runs one handler at a time, so it draws only while it is *)
(* not inside disconnectDevice, and nothing happens to the server then.    *)
(***************************************************************************)
EXTENDS ServerStart, VideoSession

coreVars == <<startVars, videoVars>>

Opening == srv.stream = "idle" /\ srv'.stream = "running"
Closing == ~srv.closing /\ srv'.closing

\* The GUI thread is in its event loop.
Ready == gui \in {"idle", "free"}

\* A handler of the start, and what it does to the video.
Handle ==
  /\ Ready
  /\ Handlers
  /\ CASE Opening -> \E recorded \in {FALSE, Recorded}, opens \in BOOLEAN :
                    OpenSession(recorded, opens)
       [] Closing -> StartClosing
       [] OTHER   -> UNCHANGED videoVars

\* disconnectDevice returns to its caller, and the Device is deleted.
Finish == Closed /\ gui = "over" /\ gui' = "idle"
          /\ stream' = NewStream /\ buf' = NewBuffer /\ rec' = NewRecorder

\* The demuxer thread ends, and posts onStreamStop.
StreamStep == EndStream /\ StreamEnds

VideoStep ==
  /\ ~srv.crashed
  /\ \/ Receive \/ Decode \/ Offer \/ Announce \/ Record \/ HangUp
     \/ Drawing \/ Recording \/ ClosingDown
  /\ UNCHANGED startVars

\* The recorder's thread uses a null muxer: the process dies.
MuxerCrash == WriteNowhere /\ Crashes

AdbStep == ~srv.crashed /\ RemovalDone /\ UNCHANGED videoVars

Init == StartInit /\ VideoInit
Next == Handle \/ Finish \/ StreamStep \/ VideoStep \/ MuxerCrash \/ AdbStep

Spec == Init /\ [][Next]_coreVars

\* Threads run, an event of the GUI thread is handled, adb answers, timers fire, and the
\* server that was killed closes its socket.  The owner deletes nothing, the phone sends
\* what it likes.
FairSpec ==
  /\ Spec
  /\ WF_startVars(Ready /\ Begin) /\ WF_startVars(Ready /\ WorkDone)
  /\ WF_startVars(Ready /\ (Spawned \/ SpawnFails))
  /\ WF_startVars(Ready /\ AcceptTimerFires) /\ WF_startVars(Ready /\ ConnectTimerFires)
  /\ WF_startVars(Ready /\ srv.proc = "dying" /\ ProcEnds)
  /\ WF_startVars(Ready /\ StreamStops)
  /\ WF_videoVars(~srv.crashed /\ (TakeEvent \/ StartDrawing \/ Unlock \/ Save))
  /\ WF_videoVars(~srv.crashed /\ (Decode \/ Announce \/ Record))
  /\ SF_videoVars(~srv.crashed /\ Offer)
  /\ WF_videoVars(~srv.crashed /\ Recording) /\ WF_coreVars(MuxerCrash)
  /\ WF_videoVars(~srv.crashed /\ ClosingDown)
  /\ WF_videoVars(~srv.crashed /\ srv.closing /\ HangUp)
  /\ WF_coreVars(StreamStep) /\ WF_coreVars(Finish)

-----------------------------------------------------------------------------
(* Properties.                                                             *)

\* adb could not be started for the server's shell: nothing is reported then, and only
\* the service's watchdog ends the start.
Hung == srv.step = "execute" /\ srv.proc = "none"

\* Neither a start nor an end lasts for ever: a start is reported or ended, whichever of
\* its sockets, timers and processes fail; and the GUI thread comes back from
\* disconnectDevice, although it waits there for two threads while it draws nothing.
Settled == \/ srv.entry # "device" \/ srv.crashed \/ Hung
           \/ ~srv.closing /\ (srv.up \/ ~srv.held)

CoreSettles == []<>Settled

\* videobuffer.h:69, "offering a frame will never block".
OffersReturn == stream.at = "offering" ~> stream.at # "offering" \/ srv.crashed
=============================================================================

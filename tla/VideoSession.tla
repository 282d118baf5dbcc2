---------------------------- MODULE VideoSession ----------------------------
(***************************************************************************)
(* The video of one live session (QtScrcpyCore/src/device): the demuxer    *)
(* thread receives packets, decodes them into one of VideoBuffer's two     *)
(* frames and offers it; the GUI thread draws the offered frame when the   *)
(* queued newFrame event comes, takes screenshots and replays it; the      *)
(* recorder thread writes the packets to a file.  disconnectDevice, on the *)
(* GUI thread, waits for both threads.                                     *)
(*                                                                         *)
(* Left out as data: pixels, time stamps and durations.  The farm never    *)
(* renders expired frames (params.renderExpiredFrames is false and has no  *)
(* effect), so an offer does not wait for the drawing.                     *)
(***************************************************************************)
EXTENDS Integers, FiniteSets, SequencesExt

CONSTANTS
  MaxPackets,      \* bound: packets the phone sends in a session
  EarlyScreenshot, \* whether a screenshot may be asked for before the first frame
  Recorded         \* whether params.recordFile may be set

ASSUME VideoAssumption == /\ MaxPackets \in Nat
                          /\ EarlyScreenshot \in BOOLEAN
                          /\ Recorded \in BOOLEAN

VARIABLES
  gui,      \* where the GUI thread is with this session
  stream,   \* the demuxer thread, its socket and the packet in hand
  buf,      \* VideoBuffer, and the newFrame events posted
  rec       \* Recorder: its queue, its thread and the file

videoVars == <<gui, stream, buf, rec>>

Slots == {1, 2}

GuiStates == {"idle",       \* no session
              "free",       \* in its event loop
              "locking",    \* in onNewFrame, before the lock
              "drawing", "replaying", "saving",   \* holds the frame lock
              "waiting",    \* in Demuxer::stopDecode
              "joining",    \* in Recorder::wait
              "over"}       \* disconnectDevice is through

ThreadStates == {"idle", "receiving", "decoding", "offering", "announcing", "recording",
                 "ended"}

\* A packet: its number, and whether it is a config packet (it has no time stamp).
Packets == [n : 1 .. MaxPackets, config : BOOLEAN]
NoPacket == [n |-> 0, config |-> FALSE]

NewStream == [at |-> "idle", open |-> FALSE, sent |-> 0, packet |-> NoPacket]
NewBuffer == [decoding |-> 1, rendering |-> 2, frame |-> [i \in Slots |-> 0],
              consumed |-> TRUE, lock |-> "none", events |-> 0,
              offered |-> 0, drawn |-> 0]      \* history: the last frame offered, and drawn
NewRecorder == [at |-> "idle", queue |-> <<>>, previous |-> NoPacket, header |-> FALSE,
                stopped |-> FALSE, failed |-> FALSE, file |-> <<>>,
                opened |-> TRUE,     \* there is a muxer
                warned |-> FALSE,    \* history: "Could not record last packet" was logged
                accepted |-> <<>>]   \* history: packets push took

-----------------------------------------------------------------------------
(* Device, when the server has started: open everything, start the threads *)

\* Recorder::open may fail; the recorder's thread is started all the same.
OpenSession(recorded, opens) ==
  /\ gui' = "free"
  /\ stream' = [NewStream EXCEPT !.at = "receiving", !.open = TRUE]
  /\ buf' = NewBuffer
  /\ rec' = IF recorded THEN [NewRecorder EXCEPT !.at = "running", !.opened = opens]
            ELSE NewRecorder

-----------------------------------------------------------------------------
(* The demuxer thread: recvPacket, pushPacket, Decoder::push.              *)

\* The first packet of a stream is a config packet, later ones follow a rotation.
Receive ==
  /\ stream.at = "receiving" /\ stream.open /\ stream.sent < MaxPackets
  /\ \E config \in BOOLEAN :
       /\ stream.sent = 0 => config
       /\ stream' = [stream EXCEPT !.sent = @ + 1,
                                   !.packet = [n |-> stream.sent + 1, config |-> config],
                                   !.at = IF config THEN "recording" ELSE "decoding"]
  /\ UNCHANGED <<gui, buf, rec>>

\* avcodec_receive_frame writes the decoding frame, outside the lock, or has none to give.
Decode ==
  /\ stream.at = "decoding"
  /\ \/ /\ buf' = [buf EXCEPT !.frame[buf.decoding] = stream.packet.n]
        /\ stream' = [stream EXCEPT !.at = "offering"]
     \/ /\ stream' = [stream EXCEPT !.at = "recording"]
        /\ UNCHANGED buf
  /\ UNCHANGED <<gui, rec>>

\* Faulty variant: a frame that replaces one not drawn yet is announced again.
OfferAlways ==
  /\ stream.at = "offering" /\ buf.lock = "none"
  /\ buf' = [buf EXCEPT !.decoding = buf.rendering, !.rendering = buf.decoding,
                        !.consumed = FALSE, !.offered = stream.packet.n]
  /\ stream' = [stream EXCEPT !.at = "announcing"]
  /\ UNCHANGED <<gui, rec>>

\* offerDecodedFrame: under the lock, swap; the event of a frame not drawn yet will
\* draw this one.
Offer ==
  /\ stream.at = "offering" /\ buf.lock = "none"
  /\ buf' = [buf EXCEPT !.decoding = buf.rendering, !.rendering = buf.decoding,
                        !.consumed = FALSE, !.offered = stream.packet.n]
  /\ stream' = [stream EXCEPT !.at = IF buf.consumed THEN "announcing" ELSE "recording"]
  /\ UNCHANGED <<gui, rec>>

Announce ==
  /\ stream.at = "announcing"
  /\ buf' = [buf EXCEPT !.events = @ + 1]
  /\ stream' = [stream EXCEPT !.at = "recording"]
  /\ UNCHANGED <<gui, rec>>

\* Recorder::push; a recorder that failed takes nothing, and the stream goes on.
Record ==
  /\ stream.at = "recording"
  /\ rec' = IF rec.at = "idle" \/ rec.failed THEN rec
            ELSE [rec EXCEPT !.queue = Append(@, stream.packet),
                             !.accepted = Append(@, stream.packet)]
  /\ stream' = [stream EXCEPT !.at = "receiving", !.packet = NoPacket]
  /\ UNCHANGED <<gui, buf>>

\* The phone, or what is left of its server, closes the socket.
HangUp == /\ stream.open
          /\ stream' = [stream EXCEPT !.open = FALSE]
          /\ UNCHANGED <<gui, buf, rec>>

EndStream == /\ stream.at = "receiving" /\ ~stream.open
             /\ stream' = [stream EXCEPT !.at = "ended"]
             /\ UNCHANGED <<gui, buf, rec>>

-----------------------------------------------------------------------------
(* The GUI thread: onNewFrame, screenshot, replayLastFrame.                *)

Gui(from, to) == gui = from /\ gui' = to /\ UNCHANGED <<stream, rec>>

TakeEvent == /\ Gui("free", "locking") /\ buf.events > 0
             /\ buf' = [buf EXCEPT !.events = @ - 1]

StartDrawing ==
  /\ Gui("locking", "drawing") /\ buf.lock = "none"
  /\ buf' = [buf EXCEPT !.lock = "gui", !.consumed = TRUE,
                        !.drawn = buf.frame[buf.rendering]]

StartReplay == /\ Gui("free", "replaying") /\ buf.lock = "none"
               /\ buf' = [buf EXCEPT !.lock = "gui"]

StartSaving == /\ Gui("free", "saving") /\ buf.lock = "none"
               /\ EarlyScreenshot \/ buf.frame[buf.rendering] > 0
               /\ buf' = [buf EXCEPT !.lock = "gui"]

Unlock == /\ \E s \in {"drawing", "replaying"} : Gui(s, "free")
          /\ buf' = [buf EXCEPT !.lock = "none"]

\* peekRenderedFrame returns early, with the lock, when the frame cannot be converted:
\* the frame of a buffer that was never drawn has no size.
Save == /\ Gui("saving", "free")
        /\ buf' = [buf EXCEPT !.lock = IF buf.frame[buf.rendering] > 0 THEN "none" ELSE @]

-----------------------------------------------------------------------------
(* The recorder thread.                                                    *)

\* One packet of the file: data packets after the header, which the first config
\* packet is written as.
Write(r, p) ==
  CASE ~r.header /\ p.config -> [r EXCEPT !.header = TRUE]
    [] r.header /\ ~p.config -> [r EXCEPT !.file = Append(@, p)]
    [] OTHER -> r

Ignored(r, p)   == r.header /\ p.config      \* write has nothing to do
Misplaced(r, p) == ~r.header /\ ~p.config    \* write refuses it

\* Faulty variant: the packet in hand is forgotten when the recording stops.
DrainStoppingEarly ==
  /\ rec.at = "running" /\ rec.stopped /\ rec.queue = <<>>
  /\ rec' = [rec EXCEPT !.at = "ended"]
  /\ UNCHANGED <<gui, stream, buf>>

\* After the stop, the packet whose duration is not known is written, too.  A failure is
\* only warned of.  A config packet there has lost its mark: after the header, the muxer
\* takes or refuses it; before, write does.
Drain ==
  /\ rec.at = "running" /\ rec.stopped /\ rec.queue = <<>>
  /\ \/ rec.previous = NoPacket /\ rec' = [rec EXCEPT !.at = "ended"]
     \/ /\ rec.previous # NoPacket /\ rec.header
        /\ rec' = [rec EXCEPT !.at = "ended", !.file = Append(@, rec.previous)]
     \/ /\ rec.previous # NoPacket
        /\ rec' = [rec EXCEPT !.at = "ended", !.warned = TRUE]
  /\ UNCHANGED <<gui, stream, buf>>

\* A packet is written when the next one is there, since only then its duration is known.
WriteNext ==
  /\ rec.at = "running" /\ rec.queue # <<>>
  /\ rec.opened \/ rec.previous = NoPacket
  /\ LET next == [rec EXCEPT !.queue = Tail(@), !.previous = Head(rec.queue)]
     IN  IF rec.previous = NoPacket THEN rec' = next
         ELSE \/ /\ ~Misplaced(rec, rec.previous)
                 /\ rec' = Write(next, rec.previous)
              \/ /\ ~Ignored(rec, rec.previous)
                 /\ rec' = [next EXCEPT !.failed = TRUE, !.queue = <<>>, !.at = "ended"]
  /\ UNCHANGED <<gui, stream, buf>>

\* The first packet is to be the header of a file that was not opened: recorderWriteHeader
\* uses a null muxer.
WriteNowhere ==
  /\ rec.at = "running" /\ rec.queue # <<>> /\ ~rec.opened /\ rec.previous # NoPacket
  /\ UNCHANGED videoVars

-----------------------------------------------------------------------------
(* Device::disconnectDevice, from the kill of the server on.               *)

StartClosing == gui = "free" /\ gui' = "waiting" /\ UNCHANGED <<stream, buf, rec>>

\* The stream has ended: the decoder is closed, a recorder that runs is stopped.
StopRecorder ==
  /\ gui = "waiting" /\ stream.at = "ended"
  /\ rec' = [rec EXCEPT !.stopped = @ \/ rec.at = "running"]
  /\ gui' = "joining"
  /\ UNCHANGED <<stream, buf>>

\* Recorder::close: a file without a header is empty; its trailer may not be written.
CloseFile ==
  IF rec.at = "idle" THEN rec' = rec
  ELSE \E written \in BOOLEAN :
         rec' = [rec EXCEPT !.at = "closed",
                            !.failed = @ \/ (rec.opened /\ ~(rec.header /\ written))]

FinishClosing == /\ gui = "joining" /\ rec.at # "running"
                 /\ gui' = "over"
                 /\ CloseFile
                 /\ UNCHANGED <<stream, buf>>

VideoInit == gui = "idle" /\ stream = NewStream /\ buf = NewBuffer /\ rec = NewRecorder

Demuxing   == Receive \/ Decode \/ Offer \/ Announce \/ Record \/ EndStream
Drawing    == TakeEvent \/ StartDrawing \/ StartReplay \/ StartSaving \/ Unlock \/ Save
Recording  == Drain \/ WriteNext
ClosingDown == StopRecorder \/ FinishClosing

VideoNext == Demuxing \/ HangUp \/ Drawing \/ Recording \/ ClosingDown

-----------------------------------------------------------------------------
(* Properties.                                                             *)

InHand(b) == IF b THEN 1 ELSE 0

VideoTypeOK ==
  /\ gui \in GuiStates
  /\ stream.at \in ThreadStates /\ stream.packet \in Packets \cup {NoPacket}
  /\ buf.lock \in {"none", "gui"} /\ {buf.decoding, buf.rendering} = Slots
  /\ rec.at \in {"idle", "running", "ended", "closed"} /\ Range(rec.queue) \subseteq Packets

\* Exactly one newFrame event is on its way while an offered frame was not drawn, and
\* none otherwise (pushFrame, onNewFrame, and the assertion in consumeRenderedFrame): no
\* frame stays unseen because its event was thought to be there, and what is on the
\* screen is the newest frame, whichever thread was faster.
FramesReachTheScreen ==
  /\ buf.events + InHand(stream.at = "announcing") + InHand(gui = "locking")
       = InHand(~buf.consumed)
  /\ buf.consumed => buf.drawn = buf.offered
  /\ gui \in {"drawing", "replaying", "saving"} /\ stream.at = "decoding"
       => buf.decoding # buf.rendering

\* The file holds the data packets the recorder took, each once and in order; and a
\* recording that is not marked as failed when its thread ends, or when its file is closed,
\* holds them all (Recorder::run, write, close), but for the very last packet if the log
\* warned of it: neither the packet kept back for its duration nor a packet that comes
\* while the recording stops is lost unheard.
DataIn(s) ==
  LET data[i \in 0 .. Len(s)] ==      \* among the first i packets
        IF i = 0 THEN <<>> ELSE IF s[i].config THEN data[i - 1] ELSE Append(data[i - 1], s[i])
  IN  data

DataOf(s) == DataIn(s)[Len(s)]

RecordingIsComplete ==
  /\ VideoTypeOK
  /\ IsPrefix(DataOf(rec.file), DataOf(rec.accepted))
  /\ rec.at \in {"ended", "closed"} /\ ~rec.failed =>
       DataOf(rec.file) = DataIn(rec.accepted)[Len(rec.accepted) - InHand(rec.warned)]
  /\ rec.stopped => stream.at = "ended"
=============================================================================

------------------------------- MODULE Logs -------------------------------
(***************************************************************************)
(* What the program writes down about itself: the rotating files of FarmLog,  *)
(* the marker that tells a crash from a clean end, and ActivityLog with the    *)
(* page that shows it.                                                      *)
(*                                                                         *)
(* Lines and entries are numbers in the order they are made.                 *)
(***************************************************************************)
EXTENDS Integers, SequencesExt, FiniteSetsExt

CONSTANTS MaxFiles,   \* files of the log, two at least
          MaxLines,   \* lines of a full file
          Lines,      \* bound: lines or entries made
          Capacity    \* entries ActivityLog keeps
-----------------------------------------------------------------------------
(* The files: number 0 is adb-device-farm.log, n is adb-device-farm.n.log.  A file that is not
   there is an empty one. *)

Missing == <<>>
NewLog  == [files |-> [n \in 0..(MaxFiles - 1) |-> Missing], line |-> 0, up |-> TRUE, open |-> TRUE]

\* QFile::rename does not overwrite.
Rename(files, a, b) ==
    IF files[a] = Missing \/ files[b] # Missing THEN files
    ELSE [files EXCEPT ![b] = files[a], ![a] = Missing]

\* rotateIfNeeded up to its n-th step: the last file goes, and the others move up by one.
Steps == MaxFiles
Rotated(files, n) ==
    LET Move(f, a) == Rename(f, a, a + 1)
    IN  IF n = 0 THEN files
        ELSE FoldLeft(Move, [files EXCEPT ![MaxFiles - 1] = Missing],
                      [k \in 1..(n - 1) |-> MaxFiles - 1 - k])

\* A line that fills the file turns it over; the process may end at any step of that, and the
\* new file may not open: from then on nothing is written.
Write(s, n, opens) ==
    LET files == [s.files EXCEPT ![0] = Append(@, s.line + 1)]
        full  == Len(files[0]) >= MaxLines
    IN  IF ~s.open THEN [s EXCEPT !.line = @ + 1]
        ELSE [files |-> IF full THEN Rotated(files, n) ELSE files, line |-> s.line + 1,
              up |-> ~full \/ n = Steps, open |-> ~full \/ opens]

\* open, after an end at any point.
Boot(s) == [s EXCEPT !.up = TRUE, !.open = TRUE]

Writing(s, opens) ==
    IF s.line = Lines THEN {}
    ELSE {Boot(s)} \cup (IF s.up THEN {Write(s, n, o) : n \in 0..Steps, o \in opens} ELSE {})
-----------------------------------------------------------------------------
(* The marker.  `died`: a session ended unclean and none has started since.  Short runs that
   only list or scan neither look at the marker nor touch it. *)

NewMarker == [lock |-> FALSE, up |-> {}, died |-> FALSE, told |-> TRUE]

Begin(s, p) == [lock |-> TRUE, up |-> s.up \cup {p}, died |-> FALSE, told |-> s.lock = s.died]
MarkCleanShutdown(s, p) == [s EXCEPT !.lock = FALSE, !.up = @ \ {p}]
Die(s, p) == [s EXCEPT !.died = TRUE, !.up = @ \ {p}]

\* Two sessions, one after the other or side by side.
Marking(s, apart) ==
    {Begin(s, p) : p \in {q \in {1, 2} \ s.up : apart => s.up = {}}}
    \cup UNION {{MarkCleanShutdown(s, p), Die(s, p)} : p \in s.up}
-----------------------------------------------------------------------------
(* ActivityLog and its page.  An entry has the time it was posted at, the thread that posted it
   (0 is the GUI thread) and an id. *)

Threads  == {0, 1}
NewActivity == [entries |-> <<>>, next |-> 1, clock |-> 0, posted |-> <<>>, shown |-> Threads, rows |-> <<>>]

Passes(s, e) == e.by \in s.shown

\* append, and the page's slot of entryAdded.
Appended(s, at, by) ==
    LET e    == [id |-> s.next, at |-> at, by |-> by]
        kept == Append(s.entries, e)
    IN  [s EXCEPT !.entries = IF Len(kept) > Capacity THEN Tail(kept) ELSE kept, !.next = @ + 1,
                  !.rows = IF Passes(s, e) THEN Append(@, e) ELSE @]

\* A worker's entry is an event of the GUI thread.
Post(s, by) ==
    LET now == [s EXCEPT !.clock = @ + 1]
    IN  IF by = 0 THEN Appended(now, now.clock, 0)
        ELSE [now EXCEPT !.posted = Append(@, now.clock)]

Taken(s) == Appended([s EXCEPT !.posted = Tail(@)], Head(s.posted), 1)

Rebuild(s)        == [s EXCEPT !.rows = SelectSeq(s.entries, LAMBDA e : Passes(s, e))]
Clear(s)          == Rebuild([s EXCEPT !.entries = <<>>])
Filter(s, shown)  == Rebuild([s EXCEPT !.shown = shown])

Posting(s) ==
    {Clear(s)} \cup {Filter(s, shown) : shown \in {{1}, Threads}}
    \cup (IF s.posted = <<>> THEN {} ELSE {Taken(s)})
    \cup (IF s.clock = Lines THEN {} ELSE {Post(s, by) : by \in Threads})
-----------------------------------------------------------------------------
Following(what, s) ==
    CASE what = "writing"    -> Writing(s, {TRUE})
      [] what = "failing"    -> Writing(s, BOOLEAN)
      [] what = "one marked" -> Marking(s, TRUE)
      [] what = "two marked" -> Marking(s, FALSE)
      [] what = "posting"    -> Posting(s)

RECURSIVE Reached(_, _, _)

Reached(what, found, seen) ==
    IF found = {} THEN seen
    ELSE LET new == UNION {Following(what, s) : s \in found} \ seen
         IN  Reached(what, new, seen \cup new)
-----------------------------------------------------------------------------
(* Properties *)

\* The files are an unbroken run of lines up to the newest, however often a rotation was cut
\* short (rotateIfNeeded).
Kept(s) == FlattenSeq([n \in 1..MaxFiles |-> s.files[MaxFiles - n]])
LogIsUnbroken(s) ==
    /\ \A i \in 1..(Len(Kept(s)) - 1) : Kept(s)[i + 1] = Kept(s)[i] + 1
    /\ Kept(s) # <<>> => Last(Kept(s)) = s.line

\* A start says that the session before ended unclean just when it did.
CrashIsTold(s) == s.told

\* Entries are numbered without a gap, none but the newest are kept, and those of a thread are in
\* the order they were posted.
EntriesAreInOrder(s) ==
    /\ Len(s.entries) <= Capacity
    /\ \A i, j \in DOMAIN s.entries : LET a == s.entries[i] b == s.entries[j] IN
          i < j => b.id - a.id = j - i /\ (a.by = b.by => a.at < b.at)

\* The page ends with the entries of the log that pass its filter.
PageShowsLog(s) == IsSuffix(SelectSeq(s.entries, LAMBDA e : Passes(s, e)), s.rows)

\* What does not hold: times over several threads, and the bound for the page's rows.
TimesAreInOrder(s) == \A i, j \in DOMAIN s.entries : i < j => s.entries[i].at < s.entries[j].at
PageIsBounded(s)   == Len(s.rows) <= Capacity
=============================================================================

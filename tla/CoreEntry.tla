----------------------------- MODULE CoreEntry -----------------------------
(***************************************************************************)
(* What the farm's service relies on: the life of each serial's entry in   *)
(* the core.  A start is reported once, as up or as failed; a session that *)
(* was up ends once; an entry that is deleted during its start stays.      *)
(*                                                                         *)
(* CoreSession is shown to implement it, step by step of the server start, *)
(* and MirrorService to use the core only in this way.                     *)
(***************************************************************************)
CONSTANT Serial

VARIABLE
  entry   \* the entry of each serial

Entries == {"absent",    \* no entry
            "starting",  \* its Device is starting the server
            "zombie",    \* the server process ended before the start was reported
            "live",      \* the start was reported a success
            "null"}      \* the Device was deleted, the entry was not removed

Connected(s, t)    == s = "absent" /\ t = "starting"
ReportedUp(s, t)   == s = "starting" /\ t = "live"
ReportedBad(s, t)  == s = "starting" /\ t = "absent"
EndedUnheard(s, t) == s = "starting" /\ t = "zombie"
Ended(s, t)        == s = "live" /\ t = "absent"
Orphaned(s, t)     == s \in {"starting", "zombie"} /\ t = "null"

Moves(s, t) ==
  \/ t = s
  \/ Connected(s, t) \/ ReportedUp(s, t) \/ ReportedBad(s, t)
  \/ EndedUnheard(s, t) \/ Ended(s, t) \/ Orphaned(s, t)

Init == entry = [d \in Serial |-> "absent"]
Next == \A d \in Serial : Moves(entry[d], entry'[d])

Spec == Init /\ [][Next]_entry
=============================================================================

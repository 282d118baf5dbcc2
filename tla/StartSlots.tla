----------------------------- MODULE StartSlots -----------------------------
(***************************************************************************)
(* What DeviceService promises about mirror starts, without saying how:    *)
(* devices wait in a line for one of a bounded number of start slots       *)
(* (deviceservice.h:30), are let in from its front, hold a slot until the  *)
(* start ends, and become live only out of a slot.  MirrorService          *)
(* implements it.                                                          *)
(***************************************************************************)
EXTENDS Integers, FiniteSets, Sequences

CONSTANTS Dev, LimitRange

VARIABLES line,    \* the devices that wait, in order
          phase,   \* what a device that may or may not wait is doing
          limit    \* the number of slots

vars == <<line, phase, limit>>

Phases == {"idle", "starting", "live"}

Waiting == {line[i] : i \in DOMAIN line}

Busy == {d \in Dev : phase[d] = "starting"}

Init == line = <<>> /\ phase = [d \in Dev |-> "idle"] /\ limit \in LimitRange

\* The slots are the only way to a session.
Admitted == \A d \in Dev : phase'[d] = "live" => phase[d] \in {"starting", "live"}

\* New starts fit the limit, and nobody waits beside a free slot.
Bounded == /\ Cardinality(Busy') > Cardinality(Busy) => Cardinality(Busy') <= limit'
           /\ line' # <<>> => Cardinality(Busy') >= limit'

\* A device that starts leaves nobody behind who stood before it.
Fair == \A i, j \in DOMAIN line : i < j /\ line[i] \in Waiting' => phase'[line[j]] # "starting"

\* The line keeps its order: those who stay stay in front of those who come.
Ordered ==
  \A i, j \in DOMAIN line' :
    i < j /\ line'[j] \in Waiting =>
      \E m, n \in DOMAIN line : m < n /\ line[m] = line'[i] /\ line[n] = line'[j]

Step == /\ line' \in Seq(Dev)
        /\ phase' \in [Dev -> Phases]
        /\ limit' \in LimitRange
        /\ Admitted /\ Bounded /\ Fair /\ Ordered

Spec == Init /\ [][Step]_vars
=============================================================================

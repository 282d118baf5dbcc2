-------------------------------- MODULE Sweep --------------------------------
(***************************************************************************)
(* What the discovery service counts on when it starts a sweep of the       *)
(* network: a host is reported at most once and only while its own sweep is *)
(* on, the sweep ends by itself, once, with the hosts it reported, and the  *)
(* next one begins only after that.                                         *)
(***************************************************************************)
CONSTANT Hosts

VARIABLES
    scanning,  \* a sweep is on
    left,      \* the hosts it may still report
    found      \* the hosts the last sweep reported

sweep == <<scanning, left, found>>

Init == scanning = FALSE /\ left = {} /\ found = {}

Begin ==
    /\ ~scanning
    /\ scanning' = TRUE
    /\ left' = Hosts
    /\ found' = {}

Report(h) ==
    /\ scanning
    /\ h \in left
    /\ left' = left \ {h}
    /\ found' = found \cup {h}
    /\ UNCHANGED scanning

\* Hosts that do not answer, or that a cancel drops.
Miss(hosts) ==
    /\ scanning
    /\ left' = left \ hosts
    /\ UNCHANGED <<scanning, found>>

End ==
    /\ scanning
    /\ left = {}
    /\ scanning' = FALSE
    /\ UNCHANGED <<left, found>>

Spec ==
    /\ Init
    /\ [][Begin \/ (\E h \in Hosts : Report(h)) \/ (\E hosts \in SUBSET left : Miss(hosts)) \/ End]_sweep
    /\ WF_sweep((\E h \in Hosts : Report(h)) \/ \E hosts \in SUBSET left : Miss(hosts))
    /\ WF_sweep(End)
=============================================================================

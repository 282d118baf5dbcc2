---------------------------- MODULE MCBatchJobs ----------------------------
(***************************************************************************)
(* Instances of BatchJobs for TLC.                                         *)
(***************************************************************************)
EXTENDS BatchJobs

CONSTANTS j1, j2, d1, d2

TwoJobs   == {j1, j2}
TwoPhones == {d1, d2}

A(kind, targets, width) == [kind |-> kind, targets |-> targets, width |-> width]

\* Two recordings may meet on a device, and every shape of chain occurs.
Mix == {A("recording", <<d1, d2>>, 2), A("wallpaper", <<d2, d1>>, 1), A("push", <<d1>>, 1),
        A("direct", <<d1, d2>>, 1)}
=============================================================================

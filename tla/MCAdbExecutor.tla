--------------------------- MODULE MCAdbExecutor ---------------------------
(***************************************************************************)
(* Instances of AdbExecutor for TLC.                                       *)
(***************************************************************************)
EXTENDS AdbExecutor

CONSTANTS c1, c2, c3, w1, w2

\* The callback of c1 asks for c2.
Chain == [c \in Cmd |-> IF c = c1 /\ c2 \in Cmd THEN c2 ELSE NoCmd]
=============================================================================

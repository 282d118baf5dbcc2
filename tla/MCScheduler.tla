---------------------------- MODULE MCScheduler ----------------------------
(***************************************************************************)
(* Instances of Scheduler for TLC.                                         *)
(***************************************************************************)
EXTENDS Scheduler

CONSTANTS r1, r2, d1

TwoRuns  == {r1, r2}
OnePhone  == {d1}
OneList   == {<<d1>>}

Entry(kind, mode, period, slots, policy) ==
  [kind |-> kind, mode |-> mode, period |-> period, slots |-> slots, policy |-> policy,
   targets |-> <<d1>>]

Mixed == <<"every two", "at two", "on event">>

MixedPlan == [s \in Range(Mixed) |->
  CASE s = "every two" -> Entry("interval", "group", 2, {}, "immediate")
    [] s = "at two"    -> Entry("once", "all", 0, {2}, "nextStart")
    [] s = "on event"  -> Entry("event", "all", 0, {}, "skip")]
=============================================================================

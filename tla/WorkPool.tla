------------------------------ MODULE WorkPool ------------------------------
(***************************************************************************)
(* What a batch job and an automation run promise, each about its list of  *)
(* devices: devices go out to work in list order, never more than `width`  *)
(* at a time; while the pool is open none waits that could be out; and the *)
(* pool closes by itself, once, when nothing waits and nothing is out.     *)
(*                                                                         *)
(* BatchJobs and AutomationEngine are shown to implement it.               *)
(***************************************************************************)
EXTENDS Integers, FiniteSets, SequencesExt

CONSTANTS Pool, Item

VARIABLES
  pool   \* for each pool: its list and width, who waits, who is out, its mode, and
         \* how often it has said since it was opened that it closed

Modes == {"none",      \* not started
          "open",      \* hands out
          "held",      \* paused: hands nothing out
          "closing",   \* withdrawn: waits for what is out
          "closed",    \* finished, and said so
          "dropped"}   \* not kept any more

Unused  == [list |-> <<>>, width |-> 0, waiting |-> <<>>, out |-> {}, mode |-> "none",
            said |-> 0]
Dropped == [Unused EXCEPT !.mode = "dropped"]

Lesser(a, b) == IF a < b THEN a ELSE b

\* An open pool hands out the first that wait, as far as there is room.
Filled(s) ==
  LET room == s.width - Cardinality(s.out)
      n    == IF s.mode # "open" \/ room < 0 THEN 0 ELSE Lesser(room, Len(s.waiting))
  IN  [s EXCEPT !.waiting = SubSeq(@, n + 1, Len(@)),
                !.out     = @ \cup Range(SubSeq(s.waiting, 1, n))]

\* It closes when there is nothing left to wait for.
Closed(s) ==
  IF s.mode \in {"open", "closing"} /\ s.waiting = <<>> /\ s.out = {}
  THEN [s EXCEPT !.mode = "closed", !.said = @ + 1] ELSE s

\* A move of one pool, from s to t: what happened, and what follows from it at once.
After(s) == Closed(Filled(s))

Opens(s, t) ==
  /\ s.mode = "none" /\ t.list # <<>>
  /\ t = After([list |-> t.list, width |-> t.width, waiting |-> t.list, out |-> {},
                mode |-> "open", said |-> 0])

Settles(s, t) == \E i \in s.out : t = After([s EXCEPT !.out = @ \ {i}])

Holds(s, t)    == s.mode = "open" /\ t = After([s EXCEPT !.mode = "held"])
Releases(s, t) == s.mode = "held" /\ t = After([s EXCEPT !.mode = "open"])

Withdraws(s, t) ==
  /\ s.mode \in {"open", "held"}
  /\ t = After([s EXCEPT !.waiting = <<>>, !.mode = "closing"])

\* Some that are not out wait again.
Reopens(s, t) ==
  /\ s.mode \in {"closing", "closed"}
  /\ \E S \in SUBSET (Range(s.list) \ s.out) :
       /\ S # {}
       /\ t = After([s EXCEPT !.waiting = SelectSeq(s.list, LAMBDA i : i \in S),
                              !.mode = "open", !.said = 0])

\* To make room, a pool that was withdrawn or has finished is not kept.
Drops(s, t) == s.mode \in {"closing", "closed"} /\ t = Dropped

Moves(s, t) ==
  \/ t = s
  \/ Opens(s, t) \/ Settles(s, t) \/ Holds(s, t) \/ Releases(s, t)
  \/ Withdraws(s, t) \/ Reopens(s, t) \/ Drops(s, t)

Init == pool = [p \in Pool |-> Unused]
Next == \A p \in Pool : Moves(pool[p], pool'[p])

Spec == Init /\ [][Next]_pool
=============================================================================

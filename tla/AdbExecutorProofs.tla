------------------------- MODULE AdbExecutorProofs -------------------------
(***************************************************************************)
(* Proofs about AdbExecutor: types, the wakeups, the permits, and where    *)
(* the commands are.                                                       *)
(***************************************************************************)
EXTENDS AdbExecutor, FiniteSetTheorems, SequenceTheorems, TLAPS

\* The executor has a command in hand exactly between taking and answering one.
HandOK ==
  hand \in Cmd <=> at \in {"dequeued", "releasing", "permit", "delivering", "asking", "pushing"}

-----------------------------------------------------------------------------
(* Sequences.                                                              *)

LEMMA Ends ==
  ASSUME NEW S, NEW q \in Seq(S), q # <<>>
  PROVE  /\ Head(q) \in S /\ Tail(q) \in Seq(S)
         /\ q[1] = Head(q) /\ Len(Tail(q)) = Len(q) - 1 /\ Len(q) \in Nat \ {0}
         /\ \A i \in 1 .. Len(q) - 1 : Tail(q)[i] = q[i+1]
  BY HeadTailProperties, EmptySeq, LenProperties

LEMMA AppendIs ==
  ASSUME NEW S, NEW q \in Seq(S), NEW e \in S
  PROVE  /\ Append(q, e) \in Seq(S) /\ Len(Append(q, e)) = Len(q) + 1
         /\ \A i \in 1 .. Len(q) : Append(q, e)[i] = q[i]
         /\ Append(q, e)[Len(q) + 1] = e /\ Len(q) \in Nat
  BY AppendProperties, LenProperties

LEMMA WithinTail ==
  ASSUME NEW S, NEW q \in Seq(S), q # <<>>, Once(q)
  PROVE  /\ Within(q) = Within(Tail(q)) \cup {Head(q)}
         /\ Head(q) \notin Within(Tail(q)) /\ Once(Tail(q))
  <1>1. DOMAIN q = 1 .. Len(q) /\ DOMAIN Tail(q) = 1 .. Len(Tail(q))
    BY Ends, LenProperties
  <1>2. \A x \in Within(Tail(q)) : x \in Within(q)
    BY <1>1, Ends DEF Within
  <1>3. Head(q) \in Within(q)
    BY <1>1, Ends DEF Within
  <1>4. \A x \in Within(q) : x = Head(q) \/ x \in Within(Tail(q))
    <2> SUFFICES ASSUME NEW i \in 1 .. Len(q) PROVE q[i] = Head(q) \/ q[i] \in Within(Tail(q))
      BY <1>1 DEF Within
    <2>1. CASE i = 1 BY <2>1, Ends
    <2>2. CASE i # 1
      <3>1. i - 1 \in 1 .. Len(q) - 1 BY <2>2, Ends
      <3>2. Tail(q)[i - 1] = q[i] BY <3>1, Ends
      <3> QED BY <3>1, <3>2, <1>1, Ends DEF Within
    <2> QED BY <2>1, <2>2
  <1>5. Head(q) \notin Within(Tail(q))
    <2> SUFFICES ASSUME NEW i \in 1 .. Len(q) - 1, Tail(q)[i] = Head(q) PROVE FALSE
      BY <1>1, Ends DEF Within
    <2>1. q[i+1] = q[1] /\ i + 1 \in 1 .. Len(q) /\ 1 \in 1 .. Len(q) BY Ends
    <2> QED BY <2>1, <1>1 DEF Once
  <1>6. Once(Tail(q))
    <2> SUFFICES ASSUME NEW i \in 1 .. Len(q) - 1, NEW j \in 1 .. Len(q) - 1,
                        Tail(q)[i] = Tail(q)[j]
                 PROVE  i = j
      BY <1>1, Ends DEF Once
    <2>1. q[i+1] = q[j+1] /\ i + 1 \in 1 .. Len(q) /\ j + 1 \in 1 .. Len(q) BY Ends
    <2>2. i + 1 = j + 1 BY <2>1, <1>1 DEF Once
    <2> QED BY <2>2
  <1> QED BY <1>2, <1>3, <1>4, <1>5, <1>6

LEMMA WithinAppend ==
  ASSUME NEW S, NEW q \in Seq(S), NEW e \in S
  PROVE  /\ Within(Append(q, e)) = Within(q) \cup {e}
         /\ Once(q) /\ e \notin Within(q) => Once(Append(q, e))
  <1> DEFINE r == Append(q, e)
  <1>1. DOMAIN q = 1 .. Len(q) /\ DOMAIN r = 1 .. Len(q) + 1 /\ Len(q) \in Nat
    BY AppendIs, LenProperties
  <1>2. r[Len(q) + 1] = e /\ \A i \in 1 .. Len(q) : r[i] = q[i]
    BY AppendIs
  <1> HIDE DEF r
  <1>3. \A i \in 1 .. Len(q) + 1 : i \in 1 .. Len(q) \/ i = Len(q) + 1 BY <1>1
  <1>4. Within(r) = Within(q) \cup {e}
    <2>1. \A x \in Within(r) : x \in Within(q) \cup {e} BY <1>1, <1>2, <1>3 DEF Within
    <2>2. \A i \in 1 .. Len(q) : q[i] \in Within(r) BY <1>1, <1>2 DEF Within
    <2>3. e \in Within(r) BY <1>1, <1>2 DEF Within
    <2> QED BY <2>1, <2>2, <2>3, <1>1 DEF Within
  <1>5. ASSUME Once(q), e \notin Within(q) PROVE Once(r)
    <2> SUFFICES ASSUME NEW i \in 1 .. Len(q) + 1, NEW j \in 1 .. Len(q) + 1, r[i] = r[j]
                 PROVE  i = j
      BY <1>1 DEF Once
    <2>1. \A k \in 1 .. Len(q) : q[k] # e BY <1>5, <1>1 DEF Within
    <2> QED BY <2>1, <1>1, <1>2, <1>3, <1>5 DEF Once
  <1> QED BY <1>4, <1>5 DEF r

LEMMA WithinCons ==
  ASSUME NEW S, NEW q \in Seq(S), NEW e \in S
  PROVE  /\ Within(<<e>> \o q) = Within(q) \cup {e}
         /\ Once(q) /\ e \notin Within(q) => Once(<<e>> \o q)
  <1> DEFINE r == <<e>> \o q
  <1>1. /\ DOMAIN q = 1 .. Len(q) /\ DOMAIN r = 1 .. Len(q) + 1 /\ Len(q) \in Nat
        /\ r[1] = e /\ \A i \in 1 .. Len(q) : r[i + 1] = q[i]
    OBVIOUS
  <1> HIDE DEF r
  <1>2. \A i \in 1 .. Len(q) + 1 : i = 1 \/ (i - 1 \in 1 .. Len(q) /\ r[i] = q[i - 1])
    <2> TAKE i \in 1 .. Len(q) + 1
    <2>1. CASE i # 1
      <3>1. i - 1 \in 1 .. Len(q) BY <2>1, <1>1
      <3>2. r[(i - 1) + 1] = q[i - 1] BY <3>1, <1>1
      <3> QED BY <3>1, <3>2, <1>1
    <2> QED BY <2>1
  <1>3. Within(r) = Within(q) \cup {e}
    <2>1. \A x \in Within(r) : x \in Within(q) \cup {e} BY <1>1, <1>2 DEF Within
    <2>2. \A i \in 1 .. Len(q) : q[i] \in Within(r)
      <3> TAKE i \in 1 .. Len(q)
      <3>1. i + 1 \in DOMAIN r /\ r[i + 1] = q[i] BY <1>1
      <3> QED BY <3>1 DEF Within
    <2>3. e \in Within(r)
      <3>1. 1 \in DOMAIN r BY <1>1
      <3> QED BY <3>1, <1>1 DEF Within
    <2> QED BY <2>1, <2>2, <2>3, <1>1 DEF Within
  <1>4. ASSUME Once(q), e \notin Within(q) PROVE Once(r)
    <2> SUFFICES ASSUME NEW i \in 1 .. Len(q) + 1, NEW j \in 1 .. Len(q) + 1, r[i] = r[j]
                 PROVE  i = j
      BY <1>1 DEF Once
    <2>1. \A k \in 1 .. Len(q) : q[k] # e BY <1>4, <1>1 DEF Within
    <2>2. CASE i = 1 BY <2>1, <2>2, <1>1, <1>2
    <2>3. CASE j = 1 BY <2>1, <2>3, <1>1, <1>2
    <2>4. CASE i # 1 /\ j # 1
      <3>1. i - 1 \in 1 .. Len(q) /\ j - 1 \in 1 .. Len(q) /\ q[i - 1] = q[j - 1]
        BY <2>4, <1>2
      <3>2. i - 1 = j - 1 BY <3>1, <1>1, <1>4 DEF Once
      <3> QED BY <3>2
    <2> QED BY <2>2, <2>3, <2>4
  <1> QED BY <1>3, <1>4 DEF r

LEMMA PostIs ==
  ASSUME TypeOK, NEW e \in Cmd \cup {"pump", "delete"}
  PROVE  /\ Post(e) \in Seq(Cmd \cup {"pump", "delete"})
         /\ \A i \in DOMAIN posted : i \in DOMAIN Post(e) /\ Post(e)[i] = posted[i]
         /\ e = "pump" => \E i \in DOMAIN Post(e) : Post(e)[i] = "pump"
  <1> DEFINE S == Cmd \cup {"pump", "delete"}
  <1>1. posted \in Seq(S) BY DEF TypeOK
  <1>2. CASE e = "pump" /\ posted # <<>> /\ posted[Len(posted)] = "pump"
    <2>1. Post(e) = posted BY <1>2 DEF Post
    <2>2. Len(posted) \in DOMAIN posted BY <1>1, <1>2, Ends, LenProperties
    <2> QED BY <1>1, <1>2, <2>1, <2>2
  <1>3. CASE ~(e = "pump" /\ posted # <<>> /\ posted[Len(posted)] = "pump")
    <2>1. Post(e) = Append(posted, e) BY <1>3 DEF Post
    <2>2. DOMAIN posted = 1 .. Len(posted) /\ DOMAIN Post(e) = 1 .. Len(posted) + 1
      BY <1>1, <2>1, AppendIs, LenProperties
    <2> QED BY <1>1, <2>1, <2>2, AppendIs
  <1> QED BY <1>2, <1>3

-----------------------------------------------------------------------------
(* Types, and what is in hand.                                             *)

LEMMA InitTypes == Init => TypeOK /\ HandOK
  <1> SUFFICES ASSUME Init PROVE TypeOK /\ HandOK OBVIOUS
  <1>1. \A S : <<>> \in Seq(S) BY EmptySeq
  <1> QED BY <1>1, CommandAssumption, CapAssumption
          DEF Init, TypeOK, HandOK, ExecStates, WorkerStates, GuiStates

LEMMA GuiTypes ==
  ASSUME TypeOK, HandOK, Gui
  PROVE  TypeOK' /\ HandOK'
  <1> USE DEF TypeOK, HandOK, core, flags, ledger, stop
  <1>p. /\ \A c \in Cmd : Post(c) \in Seq(Cmd \cup {"pump", "delete"})
        /\ Post("pump") \in Seq(Cmd \cup {"pump", "delete"})
        /\ Post("delete") \in Seq(Cmd \cup {"pump", "delete"})
    BY PostIs
  <1>1. ASSUME NEW c \in Cmd, Ask(c) PROVE TypeOK' /\ HandOK'
    <2>1. Append(queue, c) \in Seq(Cmd) BY AppendIs
    <2> QED BY <1>1, <1>p, <2>1 DEF Ask
  <1>2. ASSUME NEW c \in Cmd, Revoke(c) PROVE TypeOK' /\ HandOK'
    BY <1>2 DEF Revoke
  <1>3. ASSUME NEW c \in Cmd, PostKill(c) PROVE TypeOK' /\ HandOK'
    BY <1>3, <1>p DEF PostKill
  <1>4. ASSUME NEW n \in CapRange, SetCap(n) PROVE TypeOK' /\ HandOK'
    <2>1. n \in Nat /\ cap \in Nat BY CapAssumption
    <2>2. permits' \in Nat /\ pendingShrink' \in Nat BY <1>4, <2>1 DEF SetCap, Min2
    <2> QED BY <1>4, <1>p, <2>2 DEF SetCap
  <1>5. CASE BeginStop BY <1>5 DEF BeginStop, GuiStates
  <1>6. CASE Drain
    <2>1. <<>> \in Seq(Cmd) BY EmptySeq
    <2> QED BY <1>6, <2>1 DEF Drain, GuiStates
  <1>7. CASE AnswerDrained
    <2> DEFINE c == Head(drained)
    <2>1. c \in Cmd /\ Tail(drained) \in Seq(Cmd) BY <1>7, Ends DEF AnswerDrained
    <2>2. answers' \in [Cmd -> Nat] BY <1>7, <2>1 DEF AnswerDrained
    <2>3. CASE Follow[c] = NoCmd BY <1>7, <2>1, <2>2, <2>3 DEF AnswerDrained
    <2>4. CASE Follow[c] # NoCmd
      <3>1. Follow[c] \in Cmd BY <2>1, <2>4, CommandAssumption
      <3>2. <<Follow[c]>> \o Tail(drained) \in Seq(Cmd) BY <2>1, <3>1, ConcatProperties
      <3> QED BY <1>7, <2>1, <2>2, <2>4, <3>1, <3>2 DEF AnswerDrained
    <2> QED BY <2>3, <2>4
  <1>8. CASE EndStarted BY <1>8 DEF EndStarted, GuiStates
  <1>9. CASE PostDelete BY <1>9, <1>p DEF PostDelete, GuiStates
  <1>10. CASE EndStop BY <1>10 DEF EndStop, GuiStates
  <1> QED BY <1>1, <1>2, <1>3, <1>4, <1>5, <1>6, <1>7, <1>8, <1>9, <1>10 DEF Gui

LEMMA ExecutorTypes ==
  ASSUME TypeOK, HandOK, Executor
  PROVE  TypeOK' /\ HandOK'
  <1> USE CommandAssumption DEF TypeOK, HandOK, core, flags, ledger, stop, ExecStates
  <1>p. Post("pump") \in Seq(Cmd \cup {"pump", "delete"}) BY PostIs
  <1>1. CASE TakeEvent
    <2>1. Tail(posted) \in Seq(Cmd \cup {"pump", "delete"})
      BY <1>1, Ends DEF TakeEvent
    <2>2. Head(posted) \in Cmd \cup {"pump", "delete"}
      BY <1>1, Ends DEF TakeEvent
    <2>3. (Head(posted) \in running) => Head(posted) # "pump"  OBVIOUS
    <2>4. at' \in ExecStates /\ hand' \in Cmd \cup {NoCmd} /\ gui' \in GuiStates
      BY <1>1 DEF TakeEvent, GuiStates
    <2>5. HandOK' BY <1>1, <2>3 DEF TakeEvent
    <2>6. running' \subseteq Cmd BY <1>1 DEF TakeEvent
    <2> QED BY <1>1, <2>1, <2>4, <2>5, <2>6 DEF TakeEvent
  <1>2. CASE Pump
    <2>1. CASE queue = <<>> \/ permits = 0 BY <1>2, <2>1 DEF Pump
    <2>2. CASE ~(queue = <<>> \/ permits = 0)
      <3>1. Head(queue) \in Cmd /\ Tail(queue) \in Seq(Cmd) BY <2>2, Ends
      <3>2. permits - 1 \in Nat BY <2>2
      <3> QED BY <1>2, <2>2, <3>1, <3>2 DEF Pump
    <2> QED BY <2>1, <2>2
  <1>3. CASE Launch BY <1>3 DEF Launch
  <1>4. CASE Retire
    <2>1. pendingShrink' \in Nat BY <1>4 DEF Retire
    <2> QED BY <1>4, <2>1 DEF Retire
  <1>5. CASE Release
    <2>1. permits' \in Nat BY <1>5 DEF Release
    <2> QED BY <1>5, <2>1 DEF Release
  <1>6. CASE Deliver
    <2>1. hand \in Cmd /\ Follow[hand] \in Cmd \cup {NoCmd} BY <1>6 DEF Deliver
    <2>2. answers' \in [Cmd -> Nat] BY <1>6, <2>1 DEF Deliver
    <2> QED BY <1>6, <2>1, <2>2 DEF Deliver
  <1>7. CASE Enqueue BY <1>7 DEF Enqueue
  <1>8. CASE Push
    <2>1. Append(queue, hand) \in Seq(Cmd) BY <1>8, AppendIs DEF Push
    <2> QED BY <1>8, <2>1 DEF Push
  <1>9. CASE Kick BY <1>9, <1>p DEF Kick
  <1>10. CASE Quit BY <1>10 DEF Quit
  <1>11. ASSUME NEW c \in Cmd, Finish(c) PROVE TypeOK' /\ HandOK' BY <1>11 DEF Finish
  <1> QED BY <1>1, <1>2, <1>3, <1>4, <1>5, <1>6, <1>7, <1>8, <1>9, <1>10, <1>11 DEF Executor

LEMMA WorkerTypes ==
  ASSUME TypeOK, HandOK, NEW w \in Worker, Call(w) \/ Sync(w)
  PROVE  TypeOK' /\ HandOK'
  <1> USE DEF TypeOK, HandOK, core, flags, ledger, stop, WorkerStates, Goto
  <1>p. Post("pump") \in Seq(Cmd \cup {"pump", "delete"}) BY PostIs
  <1>1. CASE Call(w)
    <2>1. calls' \in [Worker -> Nat] BY <1>1 DEF Call
    <2> QED BY <1>1, <2>1 DEF Call
  <1>2. CASE Acquire(w)
    <2>1. permits' \in Nat BY <1>2 DEF Acquire
    <2> QED BY <1>2, <2>1 DEF Acquire
  <1>3. CASE SyncEnds(w)
    <2>1. pendingShrink' \in Nat BY <1>3 DEF SyncEnds
    <2> QED BY <1>3, <2>1 DEF SyncEnds
  <1>4. CASE SyncReleases(w)
    <2>1. permits' \in Nat BY <1>4 DEF SyncReleases
    <2> QED BY <1>4, <2>1 DEF SyncReleases
  <1>5. CASE SyncKicks(w) BY <1>5, <1>p DEF SyncKicks
  <1> QED BY <1>1, <1>2, <1>3, <1>4, <1>5 DEF Sync

LEMMA TypesKept == TypeOK /\ HandOK /\ [Next]_vars => TypeOK' /\ HandOK'
  <1> SUFFICES ASSUME TypeOK, HandOK, [Next]_vars PROVE TypeOK' /\ HandOK' OBVIOUS
  <1>1. CASE UNCHANGED vars
    BY <1>1 DEF TypeOK, HandOK, vars, core, flags, ledger, stop
  <1> QED BY <1>1, GuiTypes, ExecutorTypes, WorkerTypes DEF Next

\* Every reachable state is well typed, whatever the commands, caps and workers are.
THEOREM AdbTypeOK == Spec => []TypeOK
  <1>1. Spec => [](TypeOK /\ HandOK) BY InitTypes, TypesKept, PTL DEF Spec
  <1> QED BY <1>1, PTL

-----------------------------------------------------------------------------
(* Wakeups.                                                                *)

PumpPosted == \E i \in DOMAIN posted : posted[i] = "pump"
Kicker     == \E w \in Worker : worker[w] = "kicking"

LEMMA WakeupKept ==
  ASSUME TypeOK, HandOK, TypeOK', NoLostWakeup, Next
  PROVE  NoLostWakeup'
  <1> USE DEF core, flags, ledger, stop
  <1>w. NoLostWakeup <=>
          (queue # <<>> /\ permits > 0 /\ at \notin {"restarted", "gone"}
             => at # "idle" \/ PumpPosted \/ Kicker)
    BY DEF NoLostWakeup, PumpPosted, Kicker
  <1>v. NoLostWakeup' <=>
          (queue' # <<>> /\ permits' > 0 /\ at' \notin {"restarted", "gone"}
             => at' # "idle" \/ PumpPosted' \/ Kicker')
    BY DEF NoLostWakeup, PumpPosted, Kicker
  <1>p. /\ \A e \in Cmd \cup {"pump", "delete"} : posted' = Post(e) /\ PumpPosted => PumpPosted'
        /\ posted' = Post("pump") => PumpPosted'
    BY PostIs DEF PumpPosted
  <1>k. worker' = worker => Kicker' = Kicker BY DEF Kicker
  <1>s. posted' = posted => PumpPosted' = PumpPosted BY DEF PumpPosted
  <1>1. CASE Gui
    <2>1. ASSUME NEW c \in Cmd, Ask(c) PROVE NoLostWakeup' BY <2>1, <1>v, <1>p DEF Ask
    <2>2. ASSUME NEW c \in Cmd, Revoke(c) PROVE NoLostWakeup'
      BY <2>2, <1>w, <1>v, <1>k, <1>s DEF Revoke
    <2>3. ASSUME NEW c \in Cmd, PostKill(c) PROVE NoLostWakeup'
      BY <2>3, <1>w, <1>v, <1>k, <1>p DEF PostKill
    <2>4. ASSUME NEW n \in CapRange, SetCap(n) PROVE NoLostWakeup' BY <2>4, <1>v, <1>p DEF SetCap
    <2>5. CASE BeginStop BY <2>5, <1>w, <1>v, <1>k, <1>s DEF BeginStop
    <2>6. CASE Drain BY <2>6, <1>v DEF Drain
    <2>7. CASE AnswerDrained BY <2>7, <1>w, <1>v, <1>k, <1>s DEF AnswerDrained
    <2>8. CASE EndStarted BY <2>8, <1>w, <1>v, <1>k, <1>s DEF EndStarted
    <2>9. CASE PostDelete BY <2>9, <1>w, <1>v, <1>k, <1>p DEF PostDelete
    <2>10. CASE EndStop BY <2>10, <1>w, <1>v, <1>k, <1>s DEF EndStop
    <2> QED BY <1>1, <2>1, <2>2, <2>3, <2>4, <2>5, <2>6, <2>7, <2>8, <2>9, <2>10 DEF Gui
  <1>2. CASE Executor
    <2>1. CASE TakeEvent
      <3>1. CASE Head(posted) = "pump" BY <2>1, <3>1, <1>v DEF TakeEvent
      <3>2. CASE Head(posted) # "pump"
        <4>1. posted \in Seq(Cmd \cup {"pump", "delete"}) /\ posted # <<>>
          BY <2>1 DEF TakeEvent, TypeOK
        <4>2. PumpPosted => PumpPosted'
          <5> SUFFICES ASSUME NEW i \in DOMAIN posted, posted[i] = "pump" PROVE PumpPosted'
            BY DEF PumpPosted
          <5>1. DOMAIN posted = 1 .. Len(posted) /\ posted[1] # "pump"
            BY <4>1, <3>2, Ends, LenProperties
          <5>2. i - 1 \in 1 .. Len(posted) - 1 BY <5>1, <4>1, Ends
          <5>3. Tail(posted)[i - 1] = "pump" /\ i - 1 \in DOMAIN Tail(posted)
            BY <5>2, <4>1, Ends, LenProperties
          <5> QED BY <5>3, <2>1 DEF PumpPosted, TakeEvent
        <4> QED BY <2>1, <3>2, <4>2, <1>w, <1>v, <1>k DEF TakeEvent
      <3> QED BY <3>1, <3>2
    <2>2. CASE Pump
      <3>1. permits \in Nat BY DEF TypeOK
      <3> QED BY <2>2, <3>1, <1>v DEF Pump
    <2>3. CASE Launch BY <2>3, <1>v DEF Launch
    <2>4. CASE Retire BY <2>4, <1>v DEF Retire
    <2>5. CASE Release BY <2>5, <1>v DEF Release
    <2>6. CASE Deliver BY <2>6, <1>v DEF Deliver
    <2>7. CASE Enqueue BY <2>7, <1>v DEF Enqueue
    <2>8. CASE Push BY <2>8, <1>v DEF Push
    <2>9. CASE Kick BY <2>9, <1>v DEF Kick
    <2>10. CASE Quit BY <2>10, <1>v DEF Quit
    <2>11. ASSUME NEW c \in Cmd, Finish(c) PROVE NoLostWakeup' BY <2>11, <1>v DEF Finish
    <2> QED BY <1>2, <2>1, <2>2, <2>3, <2>4, <2>5, <2>6, <2>7, <2>8, <2>9, <2>10, <2>11
            DEF Executor
  <1>3. ASSUME NEW w \in Worker, Call(w) \/ Sync(w) PROVE NoLostWakeup'
    <2> USE DEF Goto
    <2>0. worker \in [Worker -> WorkerStates] BY DEF TypeOK
    <2>1. CASE Call(w)
      <3>1. Kicker => Kicker' BY <2>0, <2>1 DEF Kicker, Call
      <3> QED BY <2>1, <3>1, <1>w, <1>v, <1>s DEF Call
    <2>2. CASE Acquire(w)
      <3>1. Kicker => Kicker' BY <2>0, <2>2 DEF Kicker, Acquire
      <3>2. permits > 0 BY <2>2 DEF Acquire
      <3> QED BY <2>2, <3>1, <3>2, <1>w, <1>v, <1>s DEF Acquire
    <2>3. CASE SyncEnds(w)
      <3>1. Kicker => Kicker' BY <2>0, <2>3 DEF Kicker, SyncEnds
      <3> QED BY <2>3, <3>1, <1>w, <1>v, <1>s DEF SyncEnds
    <2>4. CASE SyncReleases(w)
      <3>1. Kicker' BY <2>0, <2>4 DEF Kicker, SyncReleases
      <3> QED BY <3>1, <1>v
    <2>5. CASE SyncKicks(w) BY <2>5, <1>v, <1>p DEF SyncKicks
    <2> QED BY <1>3, <2>1, <2>2, <2>3, <2>4, <2>5 DEF Sync
  <1> QED BY <1>1, <1>2, <1>3 DEF Next

\* While a command waits and a permit is free, somebody is about to pump, for any number
\* of commands, worker threads and changes of the cap.
THEOREM AdbNoLostWakeup == Spec => []NoLostWakeup
  <1>1. Init => NoLostWakeup BY DEF Init, NoLostWakeup
  <1>2. TypeOK /\ HandOK /\ NoLostWakeup /\ [Next]_vars => NoLostWakeup'
    <2> SUFFICES ASSUME TypeOK, HandOK, NoLostWakeup, [Next]_vars PROVE NoLostWakeup' OBVIOUS
    <2>1. CASE UNCHANGED vars
      BY <2>1 DEF NoLostWakeup, vars, core, flags, ledger, stop
    <2> QED BY <2>1, WakeupKept, TypesKept
  <1> QED BY <1>1, <1>2, InitTypes, TypesKept, PTL DEF Spec

-----------------------------------------------------------------------------
(* Permits.                                                                *)

HandCount == IF HandHolds THEN 1 ELSE 0

LEMMA Counting ==
  ASSUME NEW S, IsFiniteSet(S), NEW x
  PROVE  /\ Cardinality(S) \in Nat
         /\ x \notin S => Cardinality(S \cup {x}) = Cardinality(S) + 1
         /\ x \in S => Cardinality(S \ {x}) = Cardinality(S) - 1
         /\ x \notin S => S \ {x} = S
  BY FS_CardinalityType, FS_AddElement, FS_RemoveElement

LEMMA FiniteParts ==
  ASSUME TypeOK
  PROVE  IsFiniteSet(running) /\ IsFiniteSet(Holders)
  <1>1. Holders \subseteq Worker BY DEF Holders
  <1> QED BY <1>1, CommandAssumption, ThreadAssumption, FS_Subset DEF TypeOK

LEMMA HeldIs == Held = Cardinality(running) + Cardinality(Holders) + HandCount
  BY DEF Held, HandCount

\* A worker that begins or stops to hold a permit.
LEMMA HoldersMove ==
  ASSUME TypeOK, NEW w \in Worker, NEW s \in WorkerStates, Goto(w, s)
  PROVE  /\ s \in {"holding", "permit"} => Holders' = Holders \cup {w}
         /\ s \notin {"holding", "permit"} => Holders' = Holders \ {w}
         /\ w \in Holders <=> worker[w] \in {"holding", "permit"}
  <1>1. \A v \in Worker : worker'[v] = IF v = w THEN s ELSE worker[v]
    BY DEF Goto, TypeOK
  <1> QED BY <1>1 DEF Holders

LEMMA PermitsKept ==
  ASSUME TypeOK, HandOK, TypeOK', PermitsConserved, Next,
         \* the executor launches what is not running yet
         at = "dequeued" => hand \notin running
  PROVE  PermitsConserved'
  <1> USE DEF core, flags, ledger, stop
  <1>n. permits \in Nat /\ cap \in Nat /\ pendingShrink \in Nat
    BY CapAssumption DEF TypeOK
  <1>f. /\ Cardinality(running) \in Nat /\ Cardinality(Holders) \in Nat
        /\ IsFiniteSet(running) /\ IsFiniteSet(Holders)
    BY FiniteParts, Counting
  <1>w. permits + (Cardinality(running) + Cardinality(Holders) + HandCount) = cap + pendingShrink
    BY HeldIs DEF PermitsConserved
  <1>v. PermitsConserved' <=>
          permits' + (Cardinality(running') + Cardinality(Holders') + HandCount')
            = cap' + pendingShrink'
    BY DEF PermitsConserved, Held, HandCount
  <1>k. worker' = worker => Holders' = Holders BY DEF Holders
  <1>h. /\ HandCount = IF at \in {"dequeued", "releasing", "permit"} THEN 1 ELSE 0
        /\ HandCount' = IF at' \in {"dequeued", "releasing", "permit"} THEN 1 ELSE 0
    BY DEF HandCount, HandHolds
  <1>g. UNCHANGED <<permits, cap, pendingShrink, running, worker>> /\ HandCount' = HandCount
          => PermitsConserved'
    BY <1>w, <1>v, <1>k
  <1>1. CASE Gui
    <2>1. ASSUME NEW c \in Cmd, Ask(c) PROVE PermitsConserved' BY <2>1, <1>g, <1>h DEF Ask
    <2>2. ASSUME NEW c \in Cmd, Revoke(c) PROVE PermitsConserved' BY <2>2, <1>g, <1>h DEF Revoke
    <2>3. ASSUME NEW c \in Cmd, PostKill(c) PROVE PermitsConserved'
      BY <2>3, <1>g, <1>h DEF PostKill
    <2>4. ASSUME NEW n \in CapRange, SetCap(n) PROVE PermitsConserved'
      <3>1. n \in Nat BY CapAssumption
      <3>2. permits' - permits = cap' + pendingShrink' - (cap + pendingShrink)
        BY <2>4, <3>1, <1>n DEF SetCap, Min2
      <3>3. permits' \in Nat /\ cap' \in Nat /\ pendingShrink' \in Nat
        BY CapAssumption DEF TypeOK
      <3>4. HandCount' = HandCount /\ Holders' = Holders /\ running' = running
        BY <2>4, <1>h, <1>k DEF SetCap
      <3>5. HandCount \in Nat BY <1>h
      <3> HIDE DEF HandCount
      <3> QED BY <3>2, <3>3, <3>4, <3>5, <1>w, <1>v, <1>n, <1>f
    <2>5. CASE BeginStop BY <2>5, <1>g, <1>h DEF BeginStop
    <2>6. CASE Drain BY <2>6, <1>g, <1>h DEF Drain
    <2>7. CASE AnswerDrained BY <2>7, <1>g, <1>h DEF AnswerDrained
    <2>8. CASE EndStarted BY <2>8, <1>g, <1>h DEF EndStarted
    <2>9. CASE PostDelete BY <2>9, <1>g, <1>h DEF PostDelete
    <2>10. CASE EndStop BY <2>10, <1>g, <1>h DEF EndStop
    <2> QED BY <1>1, <2>1, <2>2, <2>3, <2>4, <2>5, <2>6, <2>7, <2>8, <2>9, <2>10 DEF Gui
  <1>2. CASE Executor
    <2>1. CASE TakeEvent
      <3> DEFINE e == Head(posted)
      <3>1. CASE e \in running
        <4>1. Cardinality(running') = Cardinality(running) - 1
          BY <2>1, <3>1, <1>f, Counting DEF TakeEvent
        <4>2. HandCount = 0 /\ HandCount' = 1
          <5>1. e # "pump" BY <3>1, CommandAssumption DEF TypeOK
          <5> QED BY <2>1, <3>1, <5>1, <1>h DEF TakeEvent
        <4>3. permits' = permits /\ cap' = cap /\ pendingShrink' = pendingShrink /\ Holders' = Holders
          BY <2>1, <1>k DEF TakeEvent
        <4> QED BY <4>1, <4>2, <4>3, <1>w, <1>v, <1>n, <1>f
      <3>2. CASE e \notin running
        <4>1. running' = running BY <2>1, <3>2, <1>f, Counting DEF TakeEvent
        <4>2. HandCount' = HandCount BY <2>1, <3>2, <1>h DEF TakeEvent
        <4> QED BY <2>1, <4>1, <4>2, <1>g DEF TakeEvent
      <3> QED BY <3>1, <3>2
    <2>2. CASE Pump
      <3>1. CASE queue = <<>> \/ permits = 0 BY <2>2, <3>1, <1>g, <1>h DEF Pump
      <3>2. CASE ~(queue = <<>> \/ permits = 0)
        <4>1. /\ permits' = permits - 1 /\ cap' = cap /\ pendingShrink' = pendingShrink
              /\ Holders' = Holders /\ running' = running /\ HandCount = 0 /\ HandCount' = 1
          BY <2>2, <3>2, <1>h, <1>k DEF Pump
        <4>2. Cardinality(running') = Cardinality(running) /\ Cardinality(Holders') = Cardinality(Holders)
          BY <4>1
        <4>3. permits' + (Cardinality(running) + Cardinality(Holders) + 1) = cap + pendingShrink
          <5>1. permits' = permits - 1 /\ HandCount = 0 BY <4>1
          <5> QED BY <5>1, <1>w, <1>n, <1>f
        <4> QED BY <4>1, <4>2, <4>3, <1>v
      <3> QED BY <3>1, <3>2
    <2>3. CASE Launch
      <3>1. CASE hand \in revoked BY <2>3, <3>1, <1>g, <1>h DEF Launch
      <3>2. CASE hand \notin revoked
        <4>1. Cardinality(running') = Cardinality(running) + 1
          BY <2>3, <3>2, <1>f, Counting DEF Launch
        <4>2. /\ permits' = permits /\ cap' = cap /\ pendingShrink' = pendingShrink
              /\ Holders' = Holders /\ HandCount = 1 /\ HandCount' = 0
          BY <2>3, <3>2, <1>h, <1>k DEF Launch
        <4> QED BY <4>1, <4>2, <1>w, <1>v, <1>n, <1>f
      <3> QED BY <3>1, <3>2
    <2>4. CASE Retire
      <3>1. CASE pendingShrink > 0
        <4>1. /\ permits' = permits /\ cap' = cap /\ pendingShrink' = pendingShrink - 1
              /\ Holders' = Holders /\ running' = running /\ HandCount = 1 /\ HandCount' = 0
          BY <2>4, <3>1, <1>h, <1>k DEF Retire
        <4> QED BY <4>1, <1>w, <1>v, <1>n, <1>f
      <3>2. CASE ~(pendingShrink > 0) BY <2>4, <3>2, <1>g, <1>h DEF Retire
      <3> QED BY <3>1, <3>2
    <2>5. CASE Release
      <3>1. /\ permits' = permits + 1 /\ cap' = cap /\ pendingShrink' = pendingShrink
            /\ Holders' = Holders /\ running' = running /\ HandCount = 1 /\ HandCount' = 0
        BY <2>5, <1>h, <1>k DEF Release
      <3> QED BY <3>1, <1>w, <1>v, <1>n, <1>f
    <2>6. CASE Deliver BY <2>6, <1>g, <1>h DEF Deliver
    <2>7. CASE Enqueue BY <2>7, <1>g, <1>h DEF Enqueue
    <2>8. CASE Push BY <2>8, <1>g, <1>h DEF Push
    <2>9. CASE Kick BY <2>9, <1>g, <1>h DEF Kick
    <2>10. CASE Quit BY <2>10, <1>g, <1>h DEF Quit
    <2>11. ASSUME NEW c \in Cmd, Finish(c) PROVE PermitsConserved'
      <3>1. Cardinality(running') = Cardinality(running) - 1
        BY <2>11, <1>f, Counting DEF Finish
      <3>2. /\ permits' = permits /\ cap' = cap /\ pendingShrink' = pendingShrink
            /\ Holders' = Holders /\ HandCount = 0 /\ HandCount' = 1
        BY <2>11, <1>h, <1>k DEF Finish
      <3> QED BY <3>1, <3>2, <1>w, <1>v, <1>n, <1>f
    <2> QED BY <1>2, <2>1, <2>2, <2>3, <2>4, <2>5, <2>6, <2>7, <2>8, <2>9, <2>10, <2>11
            DEF Executor
  <1>3. ASSUME NEW w \in Worker, Call(w) \/ Sync(w) PROVE PermitsConserved'
    <2>0. /\ w \notin Holders => Cardinality(Holders \cup {w}) = Cardinality(Holders) + 1
          /\ w \in Holders => Cardinality(Holders \ {w}) = Cardinality(Holders) - 1
          /\ w \in Holders => Holders \cup {w} = Holders
          /\ w \notin Holders => Holders \ {w} = Holders
      BY <1>f, Counting
    <2>h. at' = at => HandCount' = HandCount BY <1>h
    <2>i. HandCount \in Nat BY <1>h
    <2>s. \A s \in {"waiting", "holding", "permit", "kicking", "out"} : s \in WorkerStates
      BY DEF WorkerStates
    <2> HIDE DEF HandCount
    <2>1. CASE Call(w)
      <3>1. Holders' = Holders BY <2>1, <2>0, <2>s, HoldersMove DEF Call
      <3> QED BY <2>1, <3>1, <2>h, <1>w, <1>v DEF Call
    <2>2. CASE Acquire(w)
      <3>1. Cardinality(Holders') = Cardinality(Holders) + 1
        BY <2>2, <2>0, <2>s, HoldersMove DEF Acquire
      <3>2. /\ permits' = permits - 1 /\ cap' = cap /\ pendingShrink' = pendingShrink
            /\ running' = running /\ HandCount' = HandCount
        BY <2>2, <2>h DEF Acquire
      <3> QED BY <3>1, <3>2, <2>i, <1>w, <1>v, <1>n, <1>f
    <2>3. CASE SyncEnds(w)
      <3>1. CASE pendingShrink > 0
        <4>1. Cardinality(Holders') = Cardinality(Holders) - 1
          BY <2>3, <3>1, <2>0, <2>s, HoldersMove DEF SyncEnds
        <4>2. /\ permits' = permits /\ cap' = cap /\ pendingShrink' = pendingShrink - 1
              /\ running' = running /\ HandCount' = HandCount
          BY <2>3, <3>1, <2>h DEF SyncEnds
        <4> QED BY <4>1, <4>2, <2>i, <1>w, <1>v, <1>n, <1>f
      <3>2. CASE ~(pendingShrink > 0)
        <4>1. Holders' = Holders BY <2>3, <3>2, <2>0, <2>s, HoldersMove DEF SyncEnds
        <4> QED BY <2>3, <3>2, <4>1, <2>h, <1>w, <1>v DEF SyncEnds
      <3> QED BY <3>1, <3>2
    <2>4. CASE SyncReleases(w)
      <3>1. Cardinality(Holders') = Cardinality(Holders) - 1
        BY <2>4, <2>0, <2>s, HoldersMove DEF SyncReleases
      <3>2. /\ permits' = permits + 1 /\ cap' = cap /\ pendingShrink' = pendingShrink
            /\ running' = running /\ HandCount' = HandCount
        BY <2>4, <2>h DEF SyncReleases
      <3> QED BY <3>1, <3>2, <2>i, <1>w, <1>v, <1>n, <1>f
    <2>5. CASE SyncKicks(w)
      <3>1. Holders' = Holders BY <2>5, <2>0, <2>s, HoldersMove DEF SyncKicks
      <3> QED BY <2>5, <3>1, <2>h, <1>w, <1>v DEF SyncKicks
    <2> QED BY <1>3, <2>1, <2>2, <2>3, <2>4, <2>5 DEF Sync
  <1> QED BY <1>1, <1>2, <1>3 DEF Next

-----------------------------------------------------------------------------
(* Where the commands are.                                                 *)

\* The disjointness of five sets, without the tuple.
Apart(a, b, c, d, e) ==
  /\ a \cap b = {} /\ a \cap c = {} /\ a \cap d = {} /\ a \cap e = {}
  /\ b \cap c = {} /\ b \cap d = {} /\ b \cap e = {}
  /\ c \cap d = {} /\ c \cap e = {} /\ d \cap e = {}

LEMMA FivePlaces ==
  ASSUME NEW a, NEW b, NEW c, NEW d, NEW e
  PROVE  /\ (\A i, j \in 1 .. 5 : i # j => <<a, b, c, d, e>>[i] \cap <<a, b, c, d, e>>[j] = {})
              <=> Apart(a, b, c, d, e)
         /\ UNION {<<a, b, c, d, e>>[i] : i \in 1 .. 5} = a \cup b \cup c \cup d \cup e
  <1> DEFINE p == <<a, b, c, d, e>>
  <1>1. p[1] = a /\ p[2] = b /\ p[3] = c /\ p[4] = d /\ p[5] = e OBVIOUS
  <1>2. 1 .. 5 = {1, 2, 3, 4, 5} OBVIOUS
  <1> HIDE DEF p
  <1>3. (\A i, j \in 1 .. 5 : i # j => p[i] \cap p[j] = {}) <=> Apart(a, b, c, d, e)
    BY <1>1, <1>2 DEF Apart
  <1>4. {p[i] : i \in 1 .. 5} = {a, b, c, d, e} BY <1>1, <1>2
  <1>5. UNION {p[i] : i \in 1 .. 5} = a \cup b \cup c \cup d \cup e BY <1>4
  <1> QED BY <1>3, <1>5 DEF p

Placed == /\ \A c \in Cmd : answers[c] <= 1
          /\ Once(queue) /\ Once(drained)
          /\ Apart(Within(queue), Within(drained), {hand} \ {NoCmd}, running, Answered)
          /\ asked = Within(queue) \cup Within(drained) \cup ({hand} \ {NoCmd})
                        \cup running \cup Answered

\* A callback asks only when it runs, and it runs once.
Followed == \A c \in Cmd : Follow[c] \in asked => c \in Answered

LEMMA PlacedIs == Accounted <=> Placed
  BY FivePlaces DEF Accounted, Placed, Places

LEMMA PlacedIsNext == Accounted' <=> Placed'
  BY PlacedIs, PTL

\* cancelAll has drained nothing before it ran.
Undrained == gui \in {"open", "stopping"} => drained = <<>>

\* One more answer for a command that had none.
LEMMA OneAnswer ==
  ASSUME TypeOK, Placed, NEW c \in Cmd, c \notin Answered,
         answers' = [answers EXCEPT ![c] = @ + 1]
  PROVE  Answered' = Answered \cup {c} /\ \A d \in Cmd : answers'[d] <= 1
  <1>1. answers[c] = 0
    <2>1. answers[c] \in Nat BY DEF TypeOK
    <2> QED BY <2>1 DEF Answered
  <1>2. \A d \in Cmd : answers'[d] = IF d = c THEN 1 ELSE answers[d]
    BY <1>1 DEF TypeOK
  <1> QED BY <1>1, <1>2 DEF Answered, Placed

LEMMA UndrainedKept == Undrained /\ [Next]_vars => Undrained'
  BY DEF Undrained, Next, Gui, Executor, Sync, Ask, Revoke, PostKill, SetCap, BeginStop, Drain,
         AnswerDrained, EndStarted, PostDelete, EndStop, TakeEvent, Finish, Pump, Launch,
         Retire, Release, Deliver, Enqueue, Push, Kick, Quit, Call, Acquire, SyncEnds,
         SyncReleases, SyncKicks, vars, core, flags, ledger, stop

LEMMA PlacedByGui ==
  ASSUME TypeOK, Placed, Followed, Undrained, Gui
  PROVE  Placed' /\ Followed'
  <1> USE DEF core, flags, ledger, stop
  <1>a. answers' = answers => Answered' = Answered BY DEF Answered
  <1>q. queue' = queue => Within(queue)' = Within(queue) /\ Once(queue)' = Once(queue)
    BY DEF Within, Once
  <1>d. drained' = drained => Within(drained)' = Within(drained) /\ Once(drained)' = Once(drained)
    BY DEF Within, Once
  <1>e. Within(<<>>) = {} /\ Once(<<>>) BY DEF Within, Once
  <1>n. NoCmd \notin Cmd BY CommandAssumption
  <1>f. asked' = asked /\ answers' = answers => Followed' BY <1>a DEF Followed
  <1>g. UNCHANGED <<queue, drained, hand, running, ledger>> => Placed' /\ Followed'
    BY <1>a, <1>q, <1>d, <1>f DEF Placed, Apart
  <1>1. ASSUME NEW c \in Cmd, Ask(c) PROVE Placed' /\ Followed'
    <2>1. c \notin asked /\ \A b \in Cmd : Follow[b] # c BY <1>1 DEF Ask, First
    <2>2. Within(queue)' = Within(queue) \cup {c} /\ Once(queue)'
      BY <1>1, <2>1, WithinAppend DEF Ask, TypeOK, Placed
    <2>3. Placed' BY <1>1, <2>1, <2>2, <1>a, <1>d DEF Ask, Placed, Apart
    <2>4. Followed' BY <1>1, <2>1, <1>a DEF Ask, Followed
    <2> QED BY <2>3, <2>4
  <1>2. ASSUME NEW c \in Cmd, Revoke(c) PROVE Placed' /\ Followed' BY <1>2, <1>g DEF Revoke
  <1>3. ASSUME NEW c \in Cmd, PostKill(c) PROVE Placed' /\ Followed' BY <1>3, <1>g DEF PostKill
  <1>4. ASSUME NEW n \in CapRange, SetCap(n) PROVE Placed' /\ Followed'
    BY <1>4, <1>g DEF SetCap
  <1>5. CASE BeginStop BY <1>5, <1>g DEF BeginStop
  <1>6. CASE Drain
    <2>1. queue' = <<>> /\ drained' = queue /\ drained = <<>> BY <1>6 DEF Drain, Undrained
    <2>2. Within(queue)' = {} /\ Once(queue)' BY <2>1, <1>e
    <2>3. Within(drained)' = Within(queue) /\ Once(drained)'
      BY <2>1 DEF Within, Once, Placed
    <2>4. Within(drained) = {} BY <2>1, <1>e
    <2> QED BY <1>6, <2>2, <2>3, <2>4, <1>a, <1>f DEF Drain, Placed, Apart
  <1>7. CASE AnswerDrained
    <2> DEFINE c == Head(drained)
               f == Follow[c]
    <2>1. drained # <<>> /\ drained \in Seq(Cmd) /\ c \in Cmd /\ Tail(drained) \in Seq(Cmd)
      BY <1>7, Ends DEF AnswerDrained, TypeOK
    <2>2. /\ Within(drained) = Within(Tail(drained)) \cup {c}
          /\ c \notin Within(Tail(drained)) /\ Once(Tail(drained))
      BY <2>1, WithinTail DEF Placed
    <2>3. c \notin Answered /\ c \in asked BY <2>2 DEF Placed, Apart
    <2>4. answers' = [answers EXCEPT ![c] = @ + 1] BY <1>7 DEF AnswerDrained
    <2>5. Answered' = Answered \cup {c} /\ \A b \in Cmd : answers'[b] <= 1
      BY <2>1, <2>3, <2>4, OneAnswer
    <2>6. UNCHANGED <<queue, hand, running>> BY <1>7 DEF AnswerDrained
    <2>7. CASE f = NoCmd
      <3>1. drained' = Tail(drained) /\ asked' = asked BY <1>7, <2>7 DEF AnswerDrained
      <3>2. Within(drained)' = Within(Tail(drained)) /\ Once(drained)'
        BY <3>1, <2>2 DEF Within, Once
      <3>3. Placed' BY <2>2, <2>5, <2>6, <3>1, <3>2, <1>q DEF Placed, Apart
      <3>4. Followed' BY <2>5, <3>1 DEF Followed
      <3> QED BY <3>3, <3>4
    <2>8. CASE f # NoCmd
      <3>1. drained' = <<f>> \o Tail(drained) /\ asked' = asked \cup {f}
        BY <1>7, <2>8 DEF AnswerDrained
      <3>2. f \in Cmd BY <2>1, <2>8, CommandAssumption
      <3>3. f \notin asked BY <2>1, <2>3 DEF Followed
      <3>4. f \notin Within(Tail(drained)) BY <3>3, <2>2 DEF Placed
      <3>a. /\ Within(<<f>> \o Tail(drained)) = Within(Tail(drained)) \cup {f}
            /\ Once(<<f>> \o Tail(drained))
        <4> DEFINE q == Tail(drained)
        <4>1. q \in Seq(Cmd) /\ f \in Cmd /\ f \notin Within(q) /\ Once(q)
          BY <3>2, <3>4, <2>1, <2>2
        <4> HIDE DEF q, c, f
        <4>2. Within(<<f>> \o q) = Within(q) \cup {f} /\ Once(<<f>> \o q)
          BY <4>1, WithinCons
        <4> QED BY <4>2 DEF q
      <3>5. Within(drained)' = Within(Tail(drained)) \cup {f} /\ Once(drained)'
        BY <3>1, <3>a DEF Within, Once
      <3>6. Placed' BY <2>2, <2>5, <2>6, <3>1, <3>3, <3>5, <1>q DEF Placed, Apart
      <3>7. \A b \in Cmd : Follow[b] = f => b = c
        BY <2>1, <2>8, CommandAssumption
      <3>8. Followed' BY <2>5, <3>1, <3>7 DEF Followed
      <3> QED BY <3>6, <3>8
    <2> QED BY <2>7, <2>8
  <1>8. CASE EndStarted BY <1>8, <1>g DEF EndStarted
  <1>9. CASE PostDelete BY <1>9, <1>g DEF PostDelete
  <1>10. CASE EndStop BY <1>10, <1>g DEF EndStop
  <1> QED BY <1>1, <1>2, <1>3, <1>4, <1>5, <1>6, <1>7, <1>8, <1>9, <1>10 DEF Gui

LEMMA PlacedByExecutor ==
  ASSUME TypeOK, HandOK, Placed, Followed, Executor
  PROVE  Placed' /\ Followed'
  <1> USE DEF core, flags, ledger, stop
  <1>a. answers' = answers => Answered' = Answered BY DEF Answered
  <1>q. queue' = queue => Within(queue)' = Within(queue) /\ Once(queue)' = Once(queue)
    BY DEF Within, Once
  <1>d. drained' = drained => Within(drained)' = Within(drained) /\ Once(drained)' = Once(drained)
    BY DEF Within, Once
  <1>n. NoCmd \notin Cmd /\ "pump" \notin Cmd /\ "delete" \notin Cmd BY CommandAssumption
  <1>h. hand \in Cmd \cup {NoCmd} /\ running \subseteq Cmd BY DEF TypeOK
  <1>f. asked' = asked /\ answers' = answers => Followed' BY <1>a DEF Followed
  <1>g. UNCHANGED <<queue, drained, hand, running, ledger>> => Placed' /\ Followed'
    BY <1>a, <1>q, <1>d, <1>f DEF Placed, Apart
  <1>1. CASE TakeEvent
    <2>1. hand = NoCmd BY <1>1, <1>h DEF TakeEvent, HandOK
    <2>2. CASE Head(posted) \in running
      <3>1. hand' = Head(posted) /\ running' = running \ {Head(posted)} BY <1>1, <2>2 DEF TakeEvent
      <3>2. UNCHANGED <<queue, drained, ledger>> BY <1>1 DEF TakeEvent
      <3> QED BY <2>1, <2>2, <3>1, <3>2, <1>h, <1>n, <1>a, <1>q, <1>d, <1>f DEF Placed, Apart
    <2>3. CASE Head(posted) \notin running
      <3>1. hand' = hand /\ running' = running BY <1>1, <2>3 DEF TakeEvent
      <3> QED BY <1>1, <3>1, <1>g DEF TakeEvent
    <2> QED BY <2>2, <2>3
  <1>2. ASSUME NEW c \in Cmd, Finish(c) PROVE Placed' /\ Followed'
    <2>1. hand = NoCmd BY <1>2, <1>h DEF Finish, HandOK
    <2> QED BY <1>2, <2>1, <1>h, <1>n, <1>a, <1>q, <1>d, <1>f DEF Finish, Placed, Apart
  <1>3. CASE Pump
    <2>1. CASE queue = <<>> \/ permits = 0
      BY <1>3, <2>1, <1>g DEF Pump
    <2>2. CASE ~(queue = <<>> \/ permits = 0)
      <3>1. hand = NoCmd BY <1>3, <1>h DEF Pump, HandOK
      <3>2. queue \in Seq(Cmd) /\ Head(queue) \in Cmd BY <2>2, Ends DEF TypeOK
      <3>3. /\ Within(queue) = Within(Tail(queue)) \cup {Head(queue)}
            /\ Head(queue) \notin Within(Tail(queue)) /\ Once(Tail(queue))
        BY <2>2, <3>2, WithinTail DEF Placed
      <3>4. queue' = Tail(queue) /\ hand' = Head(queue) /\ UNCHANGED <<drained, running, ledger>>
        BY <1>3, <2>2 DEF Pump
      <3>5. Within(queue)' = Within(Tail(queue)) /\ Once(queue)'
        BY <3>3, <3>4 DEF Within, Once
      <3> QED BY <3>1, <3>2, <3>3, <3>4, <3>5, <1>n, <1>a, <1>d, <1>f DEF Placed, Apart
    <2> QED BY <2>1, <2>2
  <1>4. CASE Launch
    <2>1. CASE hand \in revoked BY <1>4, <2>1, <1>g DEF Launch
    <2>2. CASE hand \notin revoked
      <3>1. running' = running \cup {hand} /\ hand' = NoCmd /\ UNCHANGED <<queue, drained, ledger>>
        BY <1>4, <2>2 DEF Launch
      <3>2. hand \in Cmd BY <1>4 DEF Launch, HandOK
      <3> QED BY <3>1, <3>2, <1>n, <1>a, <1>q, <1>d, <1>f DEF Placed, Apart
    <2> QED BY <2>1, <2>2
  <1>5. CASE Retire BY <1>5, <1>g DEF Retire
  <1>6. CASE Release BY <1>6, <1>g DEF Release
  <1>7. CASE Deliver
    <2> DEFINE f == Follow[hand]
    <2>1. hand \in Cmd BY <1>7 DEF Deliver, HandOK
    <2>2. hand \notin Answered BY <2>1, <1>n DEF Placed, Apart
    <2>3. Answered' = Answered \cup {hand} /\ \A b \in Cmd : answers'[b] <= 1
      BY <1>7, <2>1, <2>2, OneAnswer DEF Deliver
    <2>4. /\ UNCHANGED <<queue, drained, running>>
          /\ hand' = f /\ asked' = asked \cup ({f} \ {NoCmd})
      BY <1>7 DEF Deliver
    <2>5. f \in Cmd \cup {NoCmd} BY <2>1, CommandAssumption
    <2>6. f \notin asked
      <3>1. CASE f = NoCmd BY <3>1, <1>n, <2>5 DEF Placed, TypeOK
      <3>2. CASE f # NoCmd BY <3>2, <2>1, <2>2 DEF Followed
      <3> QED BY <3>1, <3>2
    <2>7. Placed'
      <3> DEFINE H == {f} \ {NoCmd}
      <3>1. {hand} \ {NoCmd} = {hand} /\ ({hand} \ {NoCmd})' = H
        BY <2>1, <2>4, <1>n
      <3>2. H \cap asked = {} BY <2>6
      <3>3. asked' = asked \cup H BY <2>4
      <3> HIDE DEF H
      <3>4. asked = Within(queue) \cup Within(drained) \cup {hand} \cup running \cup Answered
        BY <3>1 DEF Placed
      <3>5. Apart(Within(queue), Within(drained), {hand}, running, Answered) BY <3>1 DEF Placed
      <3>6. Apart(Within(queue), Within(drained), H, running, Answered \cup {hand})
        BY <3>2, <3>4, <3>5 DEF Apart
      <3>7. Apart(Within(queue), Within(drained), {hand} \ {NoCmd}, running, Answered)'
        BY <3>6, <3>1, <2>3, <2>4, <1>q, <1>d
      <3>8. (asked = Within(queue) \cup Within(drained) \cup ({hand} \ {NoCmd})
                        \cup running \cup Answered)'
        BY <3>1, <3>3, <3>4, <2>3, <2>4, <1>q, <1>d
      <3>9. (Once(queue) /\ Once(drained))' BY <2>4, <1>q, <1>d DEF Placed
      <3> QED BY <3>7, <3>8, <3>9, <2>3 DEF Placed
    <2>8. f # NoCmd => \A b \in Cmd : Follow[b] = f => b = hand
      BY <2>1, CommandAssumption
    <2>9. Followed' 
      <3> SUFFICES ASSUME NEW b \in Cmd, Follow[b] \in asked' PROVE b \in Answered'
        BY DEF Followed
      <3>1. CASE Follow[b] \in asked BY <3>1, <2>3 DEF Followed
      <3>2. CASE Follow[b] = f /\ f # NoCmd BY <3>2, <2>8, <2>3
      <3> QED BY <3>1, <3>2, <2>4
    <2> QED BY <2>7, <2>9
  <1>8. CASE Enqueue BY <1>8, <1>g DEF Enqueue
  <1>9. CASE Push
    <2>1. hand \in Cmd BY <1>9 DEF Push, HandOK
    <2>2. queue' = Append(queue, hand) /\ hand' = NoCmd /\ UNCHANGED <<drained, running, ledger>>
      BY <1>9 DEF Push
    <2>3. Within(queue)' = Within(queue) \cup {hand} /\ Once(queue)'
      BY <2>1, <2>2, <1>n, WithinAppend DEF TypeOK, Placed, Apart
    <2> QED BY <2>1, <2>2, <2>3, <1>n, <1>a, <1>d, <1>f DEF Placed, Apart
  <1>10. CASE Kick BY <1>10, <1>g DEF Kick
  <1>11. CASE Quit BY <1>11, <1>g DEF Quit
  <1> QED BY <1>1, <1>2, <1>3, <1>4, <1>5, <1>6, <1>7, <1>8, <1>9, <1>10, <1>11 DEF Executor

LEMMA PlacedKept ==
  ASSUME TypeOK, HandOK, Placed, Followed, Undrained, [Next]_vars
  PROVE  Placed' /\ Followed'
  <1>g. UNCHANGED <<queue, drained, hand, running, ledger>> => Placed' /\ Followed'
    BY DEF Placed, Apart, Within, Once, Answered, Followed, ledger
  <1>1. CASE Gui BY <1>1, PlacedByGui
  <1>2. CASE Executor BY <1>2, PlacedByExecutor
  <1>3. ASSUME NEW w \in Worker, Call(w) \/ Sync(w) PROVE Placed' /\ Followed'
    BY <1>3, <1>g DEF Call, Sync, Acquire, SyncEnds, SyncReleases, SyncKicks, core, ledger, stop
  <1>4. CASE UNCHANGED vars BY <1>4, <1>g DEF vars, core, ledger, stop
  <1> QED BY <1>1, <1>2, <1>3, <1>4 DEF Next

-----------------------------------------------------------------------------
(* The theorems about commands and permits.                                *)

Located == TypeOK /\ HandOK /\ Placed /\ Followed /\ Undrained

LEMMA AlwaysLocated == Spec => []Located
  <1>1. Init => Placed /\ Followed /\ Undrained
    <2> SUFFICES ASSUME Init PROVE Placed /\ Followed /\ Undrained OBVIOUS
    <2>1. Within(<<>>) = {} /\ Once(<<>>) BY DEF Within, Once
    <2>2. Answered = {} BY DEF Init, Answered
    <2>3. Within(queue) = {} /\ Once(queue) /\ Within(drained) = {} /\ Once(drained)
      BY <2>1 DEF Init
    <2> QED BY <2>2, <2>3 DEF Init, Placed, Apart, Followed, Undrained
  <1>2. Located /\ [Next]_vars => Located'
    BY TypesKept, UndrainedKept, PlacedKept DEF Located
  <1> QED BY <1>1, <1>2, InitTypes, PTL DEF Spec, Located

\* Spec => []Accounted: each command asked for is in exactly one place and answered at
\* most once, whichever of stop(), a kill, a token and the end of the process comes first
\* (enqueue, pump, launch, finish, deliver, cancelAll).
THEOREM AdbAccounted == Spec => []Accounted
  BY AlwaysLocated, PlacedIs, PTL DEF Located

\* Spec => []PermitsConserved: free and held permits always add up to the cap plus what a
\* lowered cap still has to take back (pump, releaseSlot, setMaxConcurrency, runSync).
THEOREM AdbPermitsConserved == Spec => []PermitsConserved
  <1>1. Init => PermitsConserved
    <2> SUFFICES ASSUME Init PROVE PermitsConserved OBVIOUS
    <2>1. Holders = {} BY DEF Init, Holders
    <2>2. Cardinality({}) = 0 BY FS_EmptySet
    <2>3. cap \in Nat BY CapAssumption DEF Init
    <2> QED BY <2>1, <2>2, <2>3 DEF Init, PermitsConserved, Held, HandHolds
  <1>2. Located /\ PermitsConserved /\ [Next]_vars => PermitsConserved'
    <2> SUFFICES ASSUME Located, PermitsConserved, [Next]_vars PROVE PermitsConserved' OBVIOUS
    <2>1. at = "dequeued" => hand \notin running
      BY CommandAssumption DEF Located, HandOK, Placed, Apart
    <2>2. TypeOK' BY TypesKept DEF Located
    <2>3. CASE Next BY <2>1, <2>2, <2>3, PermitsKept DEF Located
    <2>4. CASE UNCHANGED vars
      BY <2>4 DEF PermitsConserved, Held, HandHolds, Holders, vars, core
    <2> QED BY <2>3, <2>4
  <1> QED BY <1>1, <1>2, AlwaysLocated, PTL DEF Spec
=============================================================================

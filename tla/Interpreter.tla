------------------------------ MODULE Interpreter ------------------------------
(***************************************************************************)
(* The interpreter of farm/automation/workflowengine.cpp: how one worker     *)
(* walks the graph of a workflow on one device.                             *)
(*                                                                         *)
(* What a node does to the device is an outcome: `luck` is the sequence of   *)
(* outcomes in the order in which they are asked for, TRUE once it is used   *)
(* up.  Pauses and cancellation are in AutomationEngine.                     *)
(*                                                                         *)
(* A graph is any function from node ids and ports to node ids.  The second  *)
(* half of the module says what the graphs mean that a user draws from a     *)
(* program with nested loops.                                               *)
(***************************************************************************)
EXTENDS Naturals, SequencesExt

CONSTANTS
    MaxSteps,   \* maxSteps
    MaxDepth    \* how deep workflows may call workflows

None == <<>>    \* no node: node ids are non-empty sequences
-----------------------------------------------------------------------------
(* The walk *)

Luck(luck, k) == IF k <= Len(luck) THEN luck[k] ELSE TRUE

\* nextNode: the target of the first connection from this port.
Next(wf, id, port) == wf.next[id, port]

\* A chain that ends inside a loop goes back to the loop.
OrBack(to, loops) == IF to = None /\ loops # <<>> THEN Last(loops).node ELSE to

Goto(st, to, loops) == [st EXCEPT !.at = OrBack(to, loops), !.loops = loops]

\* A disabled node, and one that failed without stopping the run: its port
\* `out`, or the first it has.
Skip(wf, st) ==
    LET n == wf.node[st.at]
        out == Next(wf, st.at, "out")
    IN  Goto(st, IF out = None /\ n.outputs # <<>> THEN Next(wf, st.at, n.outputs[1]) ELSE out,
             st.loops)

\* logic.loop and logic.while.  A frame is made on the first visit and dropped when
\* the loop is left, or when nothing is wired to its body.
Loop(wf, st, luck) ==
    LET n == wf.node[st.at]
        mine == {i \in DOMAIN st.loops : st.loops[i].node = st.at}
        loops == IF mine = {} THEN Append(st.loops, [node |-> st.at, iteration |-> 0, limit |-> n.count])
                 ELSE st.loops
        j == IF mine = {} THEN Len(loops) ELSE CHOOSE i \in mine : \A k \in mine : k <= i
        within == loops[j].iteration < loops[j].limit
        asks == n.kind = "while" /\ within
        again == within /\ (asks => Luck(luck, st.used + 1))
        body == Next(wf, st.at, "body")
        asked == IF asks THEN [st EXCEPT !.used = @ + 1] ELSE st
    IN  IF again /\ body # None
        THEN [asked EXCEPT !.at = body, !.loops = [loops EXCEPT ![j].iteration = @ + 1]]
        ELSE Goto(asked, Next(wf, st.at, "done"), Front(loops))

Break(wf, st) ==
    IF st.loops = <<>> THEN Goto(st, Next(wf, st.at, "out"), <<>>)
    ELSE Goto(st, Next(wf, Last(st.loops).node, "done"), Front(st.loops))

Continue(wf, st) ==
    IF st.loops = <<>> THEN Goto(st, Next(wf, st.at, "out"), <<>>)
    ELSE [st EXCEPT !.at = Last(st.loops).node]

\* A node that does something, tried again retryCount times; flow.fail, and a node of no
\* known type, never succeed.
Attempts(n, st, luck) ==
    LET tries == {i \in 1..(n.retryCount + 1) : n.kind # "fail" /\ Luck(luck, st.used + i)}
    IN  IF tries = {} THEN [ok |-> FALSE, used |-> st.used + n.retryCount + 1]
        ELSE LET i == CHOOSE i \in tries : \A j \in tries : i <= j
             IN  [ok |-> TRUE, used |-> st.used + i]

Regular(wf, st, luck) ==
    LET n == wf.node[st.at]
        r == Attempts(n, st, luck)
        done == [st EXCEPT !.used = r.used, !.trace = Append(@, <<st.at, r.ok>>)]
    IN  CASE r.ok -> Goto(done, Next(wf, st.at, "out"), st.loops)
          [] ~r.ok /\ n.onFailure = "continue" -> Skip(wf, done)
          [] OTHER -> [done EXCEPT !.status = "failed"]

\* A node with the ports true and false.
Choice(wf, st, luck) ==
    Goto([st EXCEPT !.used = @ + 1],
         Next(wf, st.at, IF Luck(luck, st.used + 1) THEN "true" ELSE "false"), st.loops)

\* A workflow without a node has no start and fails.
Started(wf, st) ==
    [st EXCEPT !.at = wf.start, !.loops = <<>>, !.steps = 0,
               !.status = IF wf.start = None THEN "failed" ELSE @]

RECURSIVE ExecuteWorkflow(_, _, _)

\* flow.runWorkflow: the called workflow starts outside of any loop.
Call(wf, st, luck) ==
    IF st.depth >= MaxDepth THEN [st EXCEPT !.status = "failed"]
    ELSE LET sub == wf.node[st.at].sub
             r == ExecuteWorkflow(sub, Started(sub, [st EXCEPT !.depth = @ + 1]), luck)
         IN  IF r.status = "failed" THEN r
             ELSE Goto([r EXCEPT !.status = "running", !.depth = st.depth, !.steps = st.steps,
                                 !.at = st.at],
                       Next(wf, st.at, "out"), st.loops)

\* One turn of the while loop of executeWorkflow.
Turn(wf, st, luck) ==
    LET n == wf.node[st.at]
        s == [st EXCEPT !.steps = @ + 1]
    IN  CASE s.steps > MaxSteps -> [s EXCEPT !.status = "failed"]
          [] s.steps <= MaxSteps /\ n.disabled -> Skip(wf, s)
          [] s.steps <= MaxSteps /\ ~n.disabled ->
                CASE n.kind \in {"loop", "while"} -> Loop(wf, s, luck)
                  [] n.kind = "break"             -> Break(wf, s)
                  [] n.kind = "continue"          -> Continue(wf, s)
                  [] n.kind = "call"              -> Call(wf, s, luck)
                  [] n.kind = "end"               -> [s EXCEPT !.status = "done"]
                  [] n.kind = "if"                -> Choice(wf, s, luck)
                  [] n.kind \in {"act", "fail"}   -> Regular(wf, s, luck)

ExecuteWorkflow(wf, st, luck) ==
    IF st.status # "running" THEN st
    ELSE IF st.at = None THEN [st EXCEPT !.status = "done"]
    ELSE ExecuteWorkflow(wf, Turn(wf, st, luck), luck)

\* What a run does: the nodes that act with their outcomes, and how it ends.
RunOnDevice(wf, luck) ==
    LET r == ExecuteWorkflow(wf, Started(wf, [at |-> None, loops |-> <<>>, steps |-> 0, depth |-> 0,
                                              used |-> 0, trace |-> <<>>, status |-> "running"]), luck)
    IN  [trace |-> r.trace, status |-> r.status]
-----------------------------------------------------------------------------
(* Programs, and the graphs a user draws for them.  A block is a sequence of *)
(* statements; a statement has up to two blocks, the body of a loop or the   *)
(* called workflow, and the two branches of an if.                           *)

Statement(kind, a, b, n, disabled, onFailure) ==
    [kind |-> kind, blocks |-> <<a, b>>, n |-> n, disabled |-> disabled, onFailure |-> onFailure]

Act(retries, disabled, onFailure) == Statement("act", <<>>, <<>>, retries, disabled, onFailure)
Simple(kind)   == Statement(kind, <<>>, <<>>, 0, FALSE, "fail")
Repeat(n, a)   == Statement("loop", a, <<>>, n, FALSE, "fail")
While(n, a)    == Statement("while", a, <<>>, n, FALSE, "fail")
If(a, b)       == Statement("if", a, b, 0, FALSE, "fail")
Sub(a)         == Statement("call", a, <<>>, 0, FALSE, "fail")

\* The first node of a block whose statements have ids that begin with `id`.
First(block, id) == IF block = <<>> THEN None ELSE Append(id, 1)

RECURSIVE Ids(_, _), At(_, _), After(_, _, _)

\* The nodes of a workflow: a called workflow is one of its own.
Ids(block, id) ==
    UNION {{Append(id, i)} \cup
           (IF block[i].kind = "call" THEN {}
            ELSE UNION {Ids(block[i].blocks[b], id \o <<i, b>>) : b \in 1..2}) : i \in DOMAIN block}

\* The statement with this id.
At(block, id) ==
    IF Len(id) = 1 THEN block[id[1]]
    ELSE At(block[id[1]].blocks[id[2]], SubSeq(id, 3, Len(id)))

\* What a statement is connected to: the next one, after the last one of a branch
\* what follows the if, and after the last one of a loop nothing, or, if the user
\* draws it, the loop.
After(block, id, drawn) ==
    LET up == SubSeq(id, 1, Len(id) - 2)
        mine == IF Len(id) = 1 THEN block ELSE At(block, up).blocks[id[Len(id) - 1]]
    IN  IF id[Len(id)] < Len(mine) THEN [id EXCEPT ![Len(id)] = @ + 1]
        ELSE IF Len(id) = 1 THEN None
        ELSE IF At(block, up).kind = "if" THEN After(block, up, drawn)
        ELSE IF drawn THEN up ELSE None

Ports == {"out", "true", "false", "body", "done"}

RECURSIVE Graph(_, _)

Graph(block, drawn) ==
    LET ids == Ids(block, <<>>)
        Inner(id, b) == LET inner == First(At(block, id).blocks[b], id \o <<b>>)
                        IN  IF inner = None /\ At(block, id).kind = "if" THEN After(block, id, drawn)
                            ELSE inner
        Target(id, port) ==
            LET kind == At(block, id).kind IN
            CASE kind \in {"act", "call"} /\ port = "out"      -> After(block, id, drawn)
              [] kind = "if" /\ port = "true"                  -> Inner(id, 1)
              [] kind = "if" /\ port = "false"                 -> Inner(id, 2)
              [] kind \in {"loop", "while"} /\ port = "body"   -> Inner(id, 1)
              [] kind \in {"loop", "while"} /\ port = "done"   -> After(block, id, drawn)
              [] OTHER -> None
        Node(s) == [kind |-> s.kind, disabled |-> s.disabled, onFailure |-> s.onFailure,
                    count |-> s.n, retryCount |-> s.n,
                    outputs |-> CASE s.kind = "if" -> <<"true", "false">>
                                  [] s.kind \in {"act", "call"} -> <<"out">>
                                  [] s.kind \in {"loop", "while"} -> <<"body", "done">>
                                  [] OTHER -> <<>>,
                    sub |-> IF s.kind = "call" THEN Graph(s.blocks[1], drawn) ELSE <<>>]
    IN  [start |-> First(block, <<>>),
         node  |-> [id \in ids |-> Node(At(block, id))],
         next  |-> [e \in ids \X Ports |-> Target(e[1], e[2])]]
-----------------------------------------------------------------------------
(* What a program means.  A result says how a block ended: it went through,  *)
(* or it left a loop or an iteration, the workflow, or the run.              *)

RECURSIVE Meaning(_, _, _, _), Repeated(_, _, _, _)

\* The loop s with id `id` from iteration i on.
Repeated(s, id, i, m) ==
    LET asks == s.kind = "while" /\ i < s.n
        asked == IF asks THEN [m EXCEPT !.used = @ + 1] ELSE m
        again == i < s.n /\ (asks => Luck(m.luck, m.used + 1))
        r == Meaning(s.blocks[1], 1, id \o <<1>>, asked)
    IN  CASE ~again \/ s.blocks[1] = <<>> -> asked
          [] again /\ s.blocks[1] # <<>> /\ r.how \in {"through", "continue"} ->
                Repeated(s, id, i + 1, [r EXCEPT !.how = "through"])
          [] again /\ s.blocks[1] # <<>> /\ r.how = "break" -> [r EXCEPT !.how = "through"]
          [] again /\ s.blocks[1] # <<>> /\ r.how \in {"end", "failed"} -> r

\* The statements of a block from the i-th on.  m has the outcomes used and the trace
\* so far.
Meaning(block, i, id, m) ==
    IF i > Len(block) THEN m
    ELSE
    LET s == block[i]
        me == Append(id, i)
        tried == Attempts([kind |-> s.kind, retryCount |-> s.n], m, m.luck)
        called == Meaning(s.blocks[1], 1, <<>>, [m EXCEPT !.depth = @ + 1])
        r == CASE s.disabled /\ s.kind = "if" -> Meaning(s.blocks[1], 1, me \o <<1>>, m)
               [] s.disabled /\ s.kind # "if" -> m
               [] ~s.disabled /\ s.kind \in {"act", "fail"} ->
                     [m EXCEPT !.used = tried.used, !.trace = Append(@, <<me, tried.ok>>),
                               !.how = IF tried.ok \/ s.onFailure = "continue" THEN "through"
                                       ELSE "failed"]
               [] ~s.disabled /\ s.kind = "if" ->
                     LET b == IF Luck(m.luck, m.used + 1) THEN 1 ELSE 2
                     IN  Meaning(s.blocks[b], 1, me \o <<b>>, [m EXCEPT !.used = @ + 1])
               [] ~s.disabled /\ s.kind \in {"loop", "while"} -> Repeated(s, me, 0, m)
               [] ~s.disabled /\ s.kind = "call" ->
                     IF m.depth >= MaxDepth \/ s.blocks[1] = <<>> THEN [m EXCEPT !.how = "failed"]
                     ELSE [called EXCEPT !.depth = m.depth,
                                         !.how = IF @ = "failed" THEN @ ELSE "through"]
               [] ~s.disabled /\ s.kind \in {"break", "continue", "end"} -> [m EXCEPT !.how = s.kind]
    IN  IF r.how = "through" THEN Meaning(block, i + 1, id, r) ELSE r

Means(block, luck) ==
    LET r == Meaning(block, 1, <<>>, [luck |-> luck, used |-> 0, trace |-> <<>>, how |-> "through",
                                      depth |-> 0])
    IN  [trace |-> r.trace, status |-> IF r.how = "failed" \/ block = <<>> THEN "failed" ELSE "done"]

\* docs/AUTOMATION.md:53-57, the loop wiring rules: whether the way back to a loop is
\* drawn or not, the graph of a program runs as the program says, through nested loops,
\* break and continue, disabled and failing nodes at the end of a body, empty bodies,
\* and called workflows, and it comes to an end.
RunsAsWritten(block, luck) ==
    \A drawn \in BOOLEAN : RunOnDevice(Graph(block, drawn), luck) = Means(block, luck)
=============================================================================

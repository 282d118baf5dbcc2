------------------------- MODULE MCAutomationEngine -------------------------
(***************************************************************************)
(* Instances of AutomationEngine for TLC, and the checks of what a worker   *)
(* does with a workflow: of the documents the editor makes, of their         *)
(* interpretation on programs with nested loops, of conditions and of nodes,  *)
(* and of the page the workflows are kept on.                                *)
(***************************************************************************)
EXTENDS AutomationEngine, SequencesExt

CONSTANTS r1, r2, d1, d2

TwoRuns   == {r1, r2}
TwoPhones == {d1, d2}
OneList   == {<<d1, d2>>}
-----------------------------------------------------------------------------
Flow == INSTANCE Interpreter WITH MaxSteps <- 60, MaxDepth <- 1

\* Outcomes of the first four questions; the later ones are TRUE.
Lucks == [1..4 -> BOOLEAN]

Works == Flow!Act(0, FALSE, "continue")

\* Single statements, and the ends of a block that a way back to a loop hangs on.
Plain ==
    {Flow!Act(0, FALSE, "fail"), Flow!Act(1, FALSE, "continue"), Flow!Act(0, TRUE, "fail"),
     Flow!Simple("break"), Flow!Simple("continue"), Flow!Simple("fail")}

Tails ==
    {<<s>> : s \in Plain}
    \cup {<<>>, <<Works, Works>>, <<Flow!If(<<Flow!Simple("break")>>, <<>>)>>,
          <<Flow!If(<<Works>>, <<Flow!Simple("continue")>>), Works>>}

\* Each of them as the body of a loop, as a called workflow, as a branch.
Nested ==
    UNION {{Flow!Repeat(2, t), Flow!While(2, t), Flow!Sub(t), Flow!If(t, <<Flow!Simple("end")>>)} :
              t \in Tails}

\* And these once more inside a loop, or called.
Programs ==
    {<<s, Works>> : s \in Nested \cup {Flow!Sub(<<s>>) : s \in Nested}}
    \cup {<<Flow!Repeat(2, <<s>> \o t), Works>> : s \in Nested, t \in Tails}
    \cup {<<Flow!While(2, t \o <<s>>), Works>> : s \in Nested, t \in {<<>>, <<Works>>}}

ASSUME ProgramsRunAsWritten == \A p \in Programs, l \in Lucks : Flow!RunsAsWritten(p, l)
-----------------------------------------------------------------------------
NodeTypes == [start |-> <<"out">>, act |-> <<"out">>, loop |-> <<"body", "done">>, end |-> <<>>,
              switch |-> <<"body", "done">>]

\* A history of two documents is soon full.
Scene == INSTANCE WorkflowScene WITH Catalog <- NodeTypes, MaxUndo <- 2

Sources == {<<<<1>>, "out">>, <<<<2>>, "out">>, <<<<3>>, "body">>, <<<<3>>, "done">>}

\* A start, a node that acts, a loop and an end, wired in every way, also to a node that
\* does not exist.
Workflows ==
    LET Wire(target) ==
            LET wired == {s \in Sources : target[s] # Scene!None}
            IN  SetToSeq({[from |-> s[1], port |-> s[2], to |-> target[s]] : s \in wired})
    IN  {[nodes |-> <<Scene!NodeOf(<<1>>, "start"), Scene!NodeOf(<<2>>, "act"),
                      Scene!NodeOf(<<3>>, "loop"), Scene!NodeOf(<<4>>, "end")>>,
          connections |-> Wire(target)] :
            target \in [Sources -> {<<>>, <<2>>, <<3>>, <<4>>, <<5>>}]}

\* The graph the interpreter walks; what is not there is a node of no known type.
GraphOf(w) ==
    LET ids == Scene!Ids(w) \cup {<<5>>}
        Kind(id) == IF id \notin Scene!Ids(w) THEN "fail"
                    ELSE CASE Scene!Node(w, id).type = "start" -> "act"
                           [] Scene!Node(w, id).type # "start" -> Scene!Node(w, id).type
    IN  [start |-> Scene!StartNodeId(w),
         node  |-> [id \in ids |-> [kind |-> Kind(id), disabled |-> FALSE, onFailure |-> "fail",
                                    count |-> 2, retryCount |-> 0, outputs |-> <<>>]],
         next  |-> [e \in ids \X Flow!Ports |-> Scene!NextNode(w, e[1], e[2])]]

\* A valid workflow leads a worker to its nodes only, however it is wired, out of loops
\* and into them.
ValidWorkflowsRun(w) ==
    Scene!IsValid(w) =>
        \A i \in DOMAIN Flow!RunOnDevice(GraphOf(w), <<>>).trace :
            Flow!RunOnDevice(GraphOf(w), <<>>).trace[i][1] \in Scene!Ids(w)

ASSUME WorkflowsAreEdited ==
    \A w \in Workflows : Scene!EditsKeepWorkflows(w, Scene!NodeOf(<<6>>, "act"))
ASSUME WorkflowsAreValidated == \A w \in Workflows : ValidWorkflowsRun(w)
-----------------------------------------------------------------------------
(* The editor, from a workflow of two nodes and a case that goes nowhere.   *)

SceneStart == [nodes |-> <<Scene!NodeOf(<<1>>, "start"), Scene!NodeOf(<<2>>, "switch")>>,
               connections |-> <<[from |-> <<1>>, port |-> "out", to |-> <<2>>],
                                 [from |-> <<2>>, port |-> "done", to |-> <<1>>]>>]

ASSUME EditsAreUndone ==
    \A s \in Scene!Reached({Scene!Opened(SceneStart)}, {Scene!Opened(SceneStart)}, 4) :
        Scene!HistoryIsKept(s, SceneStart) /\ Scene!DocumentIsSound(s)
-----------------------------------------------------------------------------
(* Conditions, over the texts that the code reads anything in.              *)

Words == <<"", "0", "1", "10", "11", "12", "1a", "2", "3", "9", "?", "ABC", "abc", "false", "no", "true">>

Readings == ("0" :> 0) @@ ("1" :> 1) @@ ("2" :> 2) @@ ("3" :> 3) @@ ("9" :> 9)
            @@ ("10" :> 10) @@ ("11" :> 11) @@ ("12" :> 12)
NumberOf  == [t \in ToSet(Words) |-> IF t \in DOMAIN Readings THEN <<Readings[t]>> ELSE <<>>]
FoldedOf  == [t \in ToSet(Words) |-> IF t = "ABC" THEN "abc" ELSE t]
RankOf    == [t \in ToSet(Words) |-> CHOOSE i \in DOMAIN Words : Words[i] = t]
SpelledOf == [n \in {Readings[t] : t \in DOMAIN Readings} |-> CHOOSE t \in DOMAIN Readings : Readings[t] = n]

\* Numbers of these sizes are told apart, and those ten of a digit are not.
Cond  == INSTANCE Expression WITH Rank <- RankOf, Folded <- FoldedOf, Number <- NumberOf,
                                  Spelled <- SpelledOf, Precision <- 20
Large == INSTANCE Expression WITH Rank <- RankOf, Folded <- FoldedOf, Number <- NumberOf,
                                  Spelled <- SpelledOf, Precision <- 10

Numbers == {Cond!Num(n) : n \in DOMAIN SpelledOf}
Scalars == {Cond!Unset} \cup {Cond!Bool(b) : b \in BOOLEAN} \cup {Cond!Text(t) : t \in ToSet(Words)}
Values  == Scalars \cup Numbers \cup {Cond!List(<<Cond!Num(1), Cond!Text("abc")>>), Cond!List(<<>>)}

ASSUME NumbersAreOrdered ==
    \A a, b \in Numbers \cup {Cond!Text(t) : t \in ToSet(Words)} : Cond!NumbersAreOrdered(a, b)
ASSUME EqualityIsFair == \A a, b \in Values : Cond!EqualityIsFair(a, b)

Vars == ("n" :> Cond!Num(9)) @@ ("f" :> Cond!Bool(FALSE))
        @@ ("l" :> Cond!List(<<Cond!Text("3"), Cond!Bool(TRUE)>>)) @@ ("m" :> Cond!Table("x" :> Cond!Text("abc")))

Operands == {Cond!Ref(key) : key \in {<<"n">>, <<"f">>, <<"l", "0">>, <<"l", "size">>, <<"m", "x">>, <<"none">>}}
            \cup {Cond!Lit("10"), Cond!Lit("true"), Cond!Quoted("no")}
Few      == {Cond!Ref(<<"n">>), Cond!Ref(<<"f">>), Cond!Ref(<<"none">>), Cond!Lit("10")}

ClausesOf(signs, operands) ==
    ({"is", "not"} \X operands) \cup {<<sign, o, p>> : sign \in signs, o, p \in operands}

\* A condition means what is written, whatever single clause it is, and || binds less than &&.
ASSUME ConditionsMean ==
    \A q \in ClausesOf(Cond!Signs, Operands) : Cond!MeansWhatIsWritten(<<<<q>>>>, Vars)
ASSUME ConditionsBind ==
    \A p, q, r \in ClausesOf({"<"}, Few) :
        /\ Cond!MeansWhatIsWritten(<<<<p>>, <<q, r>>>>, Vars)
        /\ Cond!MeansWhatIsWritten(<<<<p, q>>, <<r>>>>, Vars)

\* What it does not promise: large numbers are alike, an unset variable is less than a
\* number, small and large letters are alike but not in order, texts and numbers go in a
\* circle, every list equals every other, and ! does not reach over a comparison.
ASSUME ConditionGaps ==
    /\ \E a, b \in Numbers : ~Large!NumbersAreOrdered(a, b)
    /\ Cond!Compare(Cond!Unset, "<", Cond!Num(10))
    /\ Cond!Compare(Cond!Text("abc"), "==", Cond!Text("ABC"))
    /\ ~Cond!Compare(Cond!Text("abc"), "<=", Cond!Text("ABC"))
    /\ \A p \in {<<"9", "10">>, <<"10", "1a">>, <<"1a", "9">>} :
           Cond!Compare(Cond!Text(p[1]), "<", Cond!Text(p[2]))
    /\ Cond!Compare(Cond!List(<<>>), "==", Cond!List(<<Cond!Num(1)>>))
    /\ Cond!Evaluate(<<Cond!Sign("!"), Cond!Ref(<<"n">>), Cond!Sign("=="), Cond!Lit("true")>>, Vars)
-----------------------------------------------------------------------------
(* The nodes, in time steps: those that wait look for what comes and goes at  *)
(* any time, for a command that fails, and for a stop.                       *)

Step == INSTANCE Nodes

Waits ==
    {w \in [looksFirst : BOOLEAN, again : BOOLEAN, gone : BOOLEAN, timeout : {0, 3, 7}, interval : {1, 3}] :
        (w.gone => w.looksFirst) /\ (~w.looksFirst => w.again)}
Theres ==
    [from : {0, 2, 5}, until : {4, 7, Step!Never}, cost : {1, 2}, cancel : {0, 4, Step!Never},
     broken : {3, Step!Never}]

ASSUME NodesAnswerTheirPorts == \A type \in Step!Types : Step!AnswersArePorts(type)
ASSUME WaitsEnd              == \A w \in Waits, t \in Theres : Step!WaitsEnd(w, t)
ASSUME FoundIsThere          == \A w \in Waits, t \in Theres : Step!FoundIsThere(w, t)
ASSUME SleepsEnd             ==
    \A ms \in 0..7, slice \in 1..3, from \in 0..4, until \in {0, 3, 6, 9}, cancel \in {0, 2, 5, 8, Step!Never} :
        Step!SleepsEnd(ms, slice, [from |-> from, until |-> until], cancel)

Typed(prompt) == Step!Typed({Step!Typing(2)}, {Step!Typing(2)}, prompt)

ASSUME TextsAreTypedOnce  == \A s \in Typed(TRUE) : Step!TypedOnce(s)
ASSUME PlacesAreOnScreen  ==
    \A x, y \in 0..100, screen \in {<<1080, 1920>>, <<7, 3>>, <<720, 1281>>} :
        Step!PlacesAreOnScreen(x, y, screen, 100)

\* Two questions say no when they are not answered, a text is typed twice when the thread
\* of the mirrors is late, or after the stop, and the whole of a screen is beyond it.
ASSUME NodeGaps ==
    /\ {type \in Step!Types : Step!AnswersInTheDark(type)} = {"app.isForeground", "file.exists"}
    /\ \E s \in Typed(FALSE) : s.times = 2
    /\ \E s \in Typed(FALSE) : s.stopped /\ s.worker = "failed" /\ s.times = 1
    /\ ~Step!OnScreen(Step!ToPixels(100, 100, <<1080, 1920>>, 100), <<1080, 1920>>)
-----------------------------------------------------------------------------
(* The page of the workflows, from one that is stored; and its panel, of an    *)
(* engine that keeps two runs.                                              *)

Pages == INSTANCE AutomationsPage WITH Ids <- 1..3, MaxEdits <- 4
Brief == INSTANCE AutomationsPage WITH Ids <- 1..3, MaxEdits <- 3

PagesWith(faults)   == LET s == Pages!Started(<<1, -1, -1>>) IN Pages!Pages({s}, {s}, faults)
BrieflyWith(faults) == LET s == Brief!Started(<<1, -1, -1>>) IN Brief!Pages({s}, {s}, faults)

\* Whatever the user does, saves, gives up or deletes, with an assistant that answers between.
ASSUME EditsAreKept ==
    \A s \in PagesWith({}) :
        Pages!NothingIsLost(s) /\ Pages!DeletesWhatItNames(s) /\ Pages!EditorIsMarked(s) /\ Pages!RunsAreSaved(s)
ASSUME PanelsAreTrue == \A p \in Pages!Panels({Pages!Panel}, {Pages!Panel}, 2, 4) : Pages!PanelIsTrue(p)

\* An answer that comes while a question is open, one that names a stored workflow, and a
\* database that fails are exceptions.
ASSUME PageGaps ==
    /\ \E s \in BrieflyWith({"late"}) : ~Brief!DeletesWhatItNames(s)
    /\ \E s \in BrieflyWith({"late"}) : ~Brief!EditorIsMarked(s)
    /\ \E s \in BrieflyWith({"names"}) : ~Brief!NothingIsLost(s)
    /\ \E s \in BrieflyWith({"database"}) : ~Brief!NothingIsLost(s)
=============================================================================

----------------------------- MODULE Expression ------------------------------
(***************************************************************************)
(* The conditions of workflows, farm/automation/expression.cpp: how a        *)
(* condition is taken apart, what its operands are worth, and how values of   *)
(* different types compare.                                                 *)
(*                                                                         *)
(* Texts are opaque: the constants say what the code reads in them.  A       *)
(* condition is a sequence of tokens, for the words it is written with, and   *)
(* an operand is one reference or one literal.                              *)
(***************************************************************************)
EXTENDS Integers, SequencesExt, FiniteSetsExt

CONSTANTS
    Rank,        \* texts in the order of their characters
    Folded,      \* the text in small letters
    Number,      \* the number a text reads as, NoNumber if none
    Spelled,     \* the text of a number
    Precision    \* the digits qFuzzyCompare looks at: 10^12

NoNumber == <<>>
-----------------------------------------------------------------------------
(* Values: a type and what it is.                                           *)

Unset     == [type |-> "unset", is |-> <<>>]
Bool(b)   == [type |-> "bool", is |-> b]
Num(n)    == [type |-> "number", is |-> n]
Text(t)   == [type |-> "text", is |-> t]
List(vs)  == [type |-> "list", is |-> vs]
Table(kv) == [type |-> "map", is |-> kv]    \* from texts

\* QVariant::toString
ToText(v) ==
    CASE v.type = "text"   -> v.is
      [] v.type = "bool"   -> IF v.is THEN "true" ELSE "false"
      [] v.type = "number" -> Spelled[v.is]
      [] OTHER             -> ""

\* isNumber, and the number
AsNumber(v) ==
    IF v.type = "number" THEN <<v.is>> ELSE Number[ToText(v)]

ToBool(v) ==
    CASE v.type = "bool"           -> v.is
      [] v.type # "bool" /\ AsNumber(v) # NoNumber -> AsNumber(v) # <<0>>
      [] OTHER                     -> Folded[ToText(v)] \notin {"", "false", "no"}

\* A key is a sequence of names; `size` of a list or a text, `length` the same.
Step(v, name) ==
    CASE name \in {"length", "size"} /\ v.type # "map" /\ v.type # "unset" ->
             Num(IF v.type = "list" THEN Len(v.is) ELSE Len(ToText(v)))
      [] v.type = "map"  -> IF name \in DOMAIN v.is THEN v.is[name] ELSE Unset
      [] v.type = "list" -> IF Number[name] # NoNumber /\ Number[name][1] + 1 \in DOMAIN v.is
                            THEN v.is[Number[name][1] + 1] ELSE Unset
      [] OTHER           -> Unset

Lookup(vars, key) ==
    FoldLeft(Step, IF key[1] \in DOMAIN vars THEN vars[key[1]] ELSE Unset, Tail(key))

\* autoType; a text in quotes stays one.
AutoType(t) ==
    IF Folded[t] \in {"true", "false"} THEN Bool(Folded[t] = "true")
    ELSE IF Number[t] # NoNumber THEN Num(Number[t][1])
    ELSE Text(t)
-----------------------------------------------------------------------------
(* Comparison *)

Distance(m, n) == IF m > n THEN m - n ELSE n - m
Size(n)        == IF n < 0 THEN -n ELSE n

\* qFuzzyCompare of both numbers and one
Alike(m, n) == Distance(m, n) * Precision <= Min({Size(m + 1), Size(n + 1)})

Equal(a, b) ==
    IF AsNumber(a) # NoNumber /\ AsNumber(b) # NoNumber THEN Alike(AsNumber(a)[1], AsNumber(b)[1])
    ELSE IF "bool" \in {a.type, b.type} THEN ToBool(a) = ToBool(b)
    ELSE Folded[ToText(a)] = Folded[ToText(b)]

Less(a, b) ==
    IF AsNumber(a) # NoNumber /\ AsNumber(b) # NoNumber THEN AsNumber(a)[1] < AsNumber(b)[1]
    ELSE Rank[ToText(a)] < Rank[ToText(b)]

NotMore(a, b) ==
    IF AsNumber(a) # NoNumber /\ AsNumber(b) # NoNumber THEN AsNumber(a)[1] <= AsNumber(b)[1]
    ELSE Rank[ToText(a)] <= Rank[ToText(b)]

\* Of the operators on texts only what a list contains.
Compare(a, op, b) ==
    CASE op = "=="       -> Equal(a, b)
      [] op = "!="       -> ~Equal(a, b)
      [] op = "<"        -> Less(a, b)
      [] op = "<="       -> NotMore(a, b)
      [] op = ">"        -> Less(b, a)
      [] op = ">="       -> NotMore(b, a)
      [] op = "contains" -> a.type = "list" /\ \E i \in DOMAIN a.is : Equal(a.is[i], b)

\* Numbers are ordered, and every value is or is not equal to another, true or not.
NumbersAreOrdered(a, b) ==
    LET m == AsNumber(a)
        n == AsNumber(b)
    IN  m # NoNumber /\ n # NoNumber =>
            /\ Cardinality({op \in {"<", "==", ">"} : Compare(a, op, b)}) = 1
            /\ \A op \in {"<", ">"} : Compare(a, op \o "=", b) = (Compare(a, op, b) \/ Compare(a, "==", b))
            /\ Compare(a, "==", b) = (m = n)
EqualityIsFair(a, b) ==
    /\ Compare(a, "==", a)
    /\ Compare(a, "==", b) = Compare(b, "==", a)
    /\ ToBool(a) = Compare(a, "==", Bool(TRUE))
    /\ ToBool(a) = Compare(a, "!=", Bool(FALSE))
-----------------------------------------------------------------------------
(* Conditions.  A token is a sign, or an operand; the code cuts at every ||,  *)
(* then at every &&, then at the first comparison.                           *)

Signs == {"==", "!=", "<", "<=", ">", ">=", "contains"}

Sign(s)   == [sign |-> s, ref |-> <<>>, literal |-> "", quoted |-> FALSE]
Ref(key)  == [sign |-> "", ref |-> key, literal |-> "", quoted |-> FALSE]
Lit(t)    == [sign |-> "", ref |-> <<>>, literal |-> t, quoted |-> FALSE]
Quoted(t) == [sign |-> "", ref |-> <<>>, literal |-> t, quoted |-> TRUE]

Cuts(c, sign) ==
    LET at == SetToSortSeq({0, Len(c) + 1} \cup {i \in DOMAIN c : c[i].sign = sign}, <)
    IN  {SubSeq(c, at[i] + 1, at[i + 1] - 1) : i \in 1..(Len(at) - 1)}

\* What is not one operand is a text that means nothing.
ValueOf(c, vars) ==
    IF Len(c) # 1 \/ (Len(c) = 1 /\ c[1].sign # "") THEN Text(IF c = <<>> THEN "" ELSE "?")
    ELSE IF c[1].ref # <<>> THEN Lookup(vars, c[1].ref)
    ELSE IF c[1].quoted THEN Text(c[1].literal)
    ELSE AutoType(c[1].literal)

Holds(c, vars) ==
    LET signs == {i \in DOMAIN c : c[i].sign \in Signs}
        i     == Min(signs)
    IN  IF c = <<>> THEN FALSE
        ELSE IF signs # {} THEN Compare(ValueOf(SubSeq(c, 1, i - 1), vars), c[i].sign,
                                        ValueOf(SubSeq(c, i + 1, Len(c)), vars))
        ELSE IF c[1].sign = "!" THEN ~ToBool(ValueOf(Tail(c), vars))
        ELSE ToBool(ValueOf(c, vars))

Evaluate(c, vars) == \E p \in Cuts(c, "||") : \A q \in Cuts(p, "&&") : Holds(q, vars)

\* What is written means: some line of which all clauses hold, a clause being an operand, one
\* negated, or two compared.
Written(lines) ==
    LET Clause(q) == CASE q[1] = "is"  -> <<q[2]>>
                       [] q[1] = "not" -> <<Sign("!"), q[2]>>
                       [] OTHER        -> <<q[2], Sign(q[1]), q[3]>>
        Joined(cs, sign) == FoldLeft(LAMBDA s, c : IF s = <<>> THEN c ELSE s \o <<Sign(sign)>> \o c, <<>>, cs)
    IN  Joined([i \in DOMAIN lines |-> Joined([j \in DOMAIN lines[i] |-> Clause(lines[i][j])], "&&")], "||")

MeansWhatIsWritten(lines, vars) ==
    LET Value(operand) == ValueOf(<<operand>>, vars)
        True(q) == CASE q[1] = "is"  -> ToBool(Value(q[2]))
                     [] q[1] = "not" -> ~ToBool(Value(q[2]))
                     [] OTHER        -> Compare(Value(q[2]), q[1], Value(q[3]))
    IN  Evaluate(Written(lines), vars) =
            \E i \in DOMAIN lines : \A j \in DOMAIN lines[i] : True(lines[i][j])
=============================================================================

------------------------ MODULE AutomationEngineProofs ------------------------
(***************************************************************************)
(* Proofs about AutomationEngine: the devices of a run that are in         *)
(* progress are those with a worker out, each with one, so that no run is  *)
(* deleted under a worker and a stop reaches them all.  First what the     *)
(* operators on sequences keep, then what each handler does to the pairs   *)
(* of a run and a device in progress, then the steps.                      *)
(***************************************************************************)
EXTENDS AutomationEngine, FiniteSetTheorems, WellFoundedInduction, TLAPS

-----------------------------------------------------------------------------
(* Sequences without repetition.                                           *)

LEMMA RangeIs ==
  ASSUME NEW T, NEW s \in Seq(T)
  PROVE  /\ Range(s) = {s[i] : i \in 1 .. Len(s)}
         /\ Range(s) \subseteq T
  BY DEF Range

LEMMA AppendDistinct ==
  ASSUME NEW T, NEW s \in Seq(T), NEW x \in T
  PROVE  /\ Append(s, x) \in Seq(T)
         /\ Range(Append(s, x)) = Range(s) \cup {x}
         /\ IsInjective(s) /\ x \notin Range(s) => IsInjective(Append(s, x))
  <1> SUFFICES ASSUME NEW t, t = Append(s, x)
               PROVE  /\ t \in Seq(T)
                      /\ Range(t) = Range(s) \cup {x}
                      /\ IsInjective(s) /\ x \notin Range(s) => IsInjective(t)
    OBVIOUS
  <1>1. /\ t \in Seq(T) /\ Len(t) = Len(s) + 1 /\ t[Len(s) + 1] = x
        /\ \A i \in 1 .. Len(s) : t[i] = s[i]
        /\ DOMAIN t = 1 .. Len(t) /\ DOMAIN s = 1 .. Len(s) /\ Len(s) \in Nat
    OBVIOUS
  <1>2. \A i \in DOMAIN t : i = Len(s) + 1 \/ i \in DOMAIN s BY <1>1
  <1>3. DOMAIN s \subseteq DOMAIN t /\ Len(s) + 1 \in DOMAIN t BY <1>1
  <1>4. Range(t) = Range(s) \cup {x} BY <1>1, <1>2, <1>3 DEF Range
  <1>5. IsInjective(s) /\ x \notin Range(s) => IsInjective(t)
    <2>1. x \notin Range(s) => \A i \in DOMAIN s : t[i] = s[i] /\ s[i] # x BY <1>1 DEF Range
    <2> QED BY <1>1, <1>2, <2>1 DEF IsInjective
  <1> QED BY <1>1, <1>4, <1>5

LEMMA ConcatDistinct ==
  ASSUME NEW T, NEW s \in Seq(T), NEW t \in Seq(T)
  PROVE  /\ s \o t \in Seq(T)
         /\ Range(s \o t) = Range(s) \cup Range(t)
         /\ IsInjective(s) /\ IsInjective(t) /\ Range(s) \cap Range(t) = {} => IsInjective(s \o t)
  <1> DEFINE u == s \o t
  <1>1. /\ u \in Seq(T) /\ Len(u) = Len(s) + Len(t) /\ Len(s) \in Nat /\ Len(t) \in Nat
        /\ \A i \in 1 .. Len(s) : u[i] = s[i]
        /\ \A i \in 1 .. Len(t) : u[Len(s) + i] = t[i]
        /\ DOMAIN u = 1 .. Len(u) /\ DOMAIN s = 1 .. Len(s) /\ DOMAIN t = 1 .. Len(t)
    OBVIOUS
  <1> HIDE DEF u
  <1>2. \A i \in DOMAIN u : (i \in DOMAIN s /\ u[i] = s[i])
                            \/ (i - Len(s) \in DOMAIN t /\ u[i] = t[i - Len(s)])
    <2> TAKE i \in DOMAIN u
    <2>1. CASE i <= Len(s) BY <1>1, <2>1
    <2>2. CASE ~(i <= Len(s))
      <3>1. i - Len(s) \in 1 .. Len(t) /\ Len(s) + (i - Len(s)) = i BY <1>1, <2>2
      <3> QED BY <1>1, <3>1
    <2> QED BY <2>1, <2>2
  <1>3. \A i \in DOMAIN s : i \in DOMAIN u /\ u[i] = s[i] BY <1>1
  <1>4. \A i \in DOMAIN t : Len(s) + i \in DOMAIN u /\ u[Len(s) + i] = t[i] BY <1>1
  <1>5. Range(u) = Range(s) \cup Range(t) BY <1>2, <1>3, <1>4 DEF Range
  <1>6. ASSUME IsInjective(s), IsInjective(t), Range(s) \cap Range(t) = {},
               NEW i \in DOMAIN u, NEW j \in DOMAIN u, u[i] = u[j]
        PROVE  i = j
    <2>1. \A a \in DOMAIN s, b \in DOMAIN t : s[a] # t[b] BY <1>6 DEF Range
    <2>2. CASE i \in DOMAIN s /\ u[i] = s[i] /\ j \in DOMAIN s /\ u[j] = s[j]
      BY <1>6, <2>2 DEF IsInjective
    <2>3. CASE /\ i - Len(s) \in DOMAIN t /\ u[i] = t[i - Len(s)]
               /\ j - Len(s) \in DOMAIN t /\ u[j] = t[j - Len(s)]
      <3>1. i - Len(s) = j - Len(s) BY <1>6, <2>3 DEF IsInjective
      <3>2. i \in Int /\ j \in Int BY <1>1
      <3> QED BY <1>1, <3>1, <3>2
    <2> QED BY <1>2, <1>6, <2>1, <2>2, <2>3
  <1> QED BY <1>1, <1>5, <1>6 DEF u, IsInjective

LEMMA FirstDistinct ==
  ASSUME NEW T, NEW s \in Seq(T), NEW n \in 0 .. Len(s)
  PROVE  /\ SubSeq(s, 1, n) \in Seq(T) /\ Len(SubSeq(s, 1, n)) = n
         /\ \A i \in 1 .. n : SubSeq(s, 1, n)[i] = s[i]
         /\ Range(SubSeq(s, 1, n)) \subseteq Range(s)
         /\ IsInjective(s) => IsInjective(SubSeq(s, 1, n))
  <1> DEFINE t == SubSeq(s, 1, n)
  <1>1. /\ t \in Seq(T) /\ Len(t) = n /\ DOMAIN t = 1 .. n /\ DOMAIN s = 1 .. Len(s)
        /\ \A i \in 1 .. n : t[i] = s[i]
    OBVIOUS
  <1> HIDE DEF t
  <1>2. DOMAIN t \subseteq DOMAIN s BY <1>1
  <1>3. Range(t) \subseteq Range(s) BY <1>1, <1>2 DEF Range
  <1>4. IsInjective(s) => IsInjective(t) BY <1>1, <1>2 DEF IsInjective
  <1> QED BY <1>1, <1>3, <1>4 DEF t

LEMMA TailDistinct ==
  ASSUME NEW T, NEW s \in Seq(T), s # <<>>
  PROVE  /\ Tail(s) \in Seq(T) /\ Head(s) \in T
         /\ Range(s) = {Head(s)} \cup Range(Tail(s))
         /\ IsInjective(s) => IsInjective(Tail(s)) /\ Head(s) \notin Range(Tail(s))
  <1> DEFINE t == Tail(s)
  <1>1. /\ t \in Seq(T) /\ Len(t) = Len(s) - 1 /\ Len(s) \in Nat \ {0}
        /\ Head(s) = s[1] /\ Head(s) \in T
        /\ DOMAIN t = 1 .. Len(t) /\ DOMAIN s = 1 .. Len(s)
        /\ \A i \in 1 .. Len(t) : t[i] = s[i + 1]
    OBVIOUS
  <1> HIDE DEF t
  <1>2. \A i \in DOMAIN t : i + 1 \in DOMAIN s /\ i + 1 # 1 /\ t[i] = s[i + 1] BY <1>1
  <1>3. \A i \in DOMAIN s : i = 1 \/ (i - 1 \in DOMAIN t /\ t[i - 1] = s[i]) BY <1>1
  <1>4. 1 \in DOMAIN s BY <1>1
  <1>5. Range(s) = {Head(s)} \cup Range(t)
    <2>1. Range(t) \subseteq Range(s) BY <1>2 DEF Range
    <2>2. Head(s) \in Range(s) BY <1>1, <1>4 DEF Range
    <2>3. \A i \in DOMAIN s : s[i] \in {Head(s)} \cup Range(t) BY <1>1, <1>3 DEF Range
    <2>4. Range(s) \subseteq {Head(s)} \cup Range(t) BY <2>3 DEF Range
    <2> QED BY <2>1, <2>2, <2>4
  <1>6. ASSUME IsInjective(s) PROVE IsInjective(t) /\ Head(s) \notin Range(t)
    <2>1. Head(s) \notin Range(t) BY <1>1, <1>2, <1>4, <1>6 DEF IsInjective, Range
    <2>2. ASSUME NEW i \in DOMAIN t, NEW j \in DOMAIN t, t[i] = t[j] PROVE i = j
      <3>1. i + 1 = j + 1 BY <1>2, <1>6, <2>2 DEF IsInjective
      <3> QED BY <1>1, <3>1
    <2> QED BY <2>1, <2>2 DEF IsInjective
  <1> QED BY <1>1, <1>5, <1>6 DEF t

\* A set of numbers that is not empty has a least one.
LEMMA LeastNat ==
  ASSUME NEW T \in SUBSET Nat, T # {}
  PROVE  \E n \in T : \A m \in T : n <= m
  <1> DEFINE U == {1 .. n : n \in T}
             R == StrictSubsetOrdering(Nat)
  <1>1. U \subseteq FiniteSubsetsOf(Nat)
    <2>1. \A n \in T : IsFiniteSet(1 .. n) /\ 1 .. n \subseteq Nat BY FS_Interval
    <2> QED BY <2>1 DEF FiniteSubsetsOf
  <1>2. U # {} OBVIOUS
  <1>3. IsWellFoundedOn(R, FiniteSubsetsOf(Nat)) BY FS_StrictSubsetOrderingWellFounded
  <1> HIDE DEF U, R
  <1>4. PICK x \in U : \A y \in U : <<y, x>> \notin R BY <1>1, <1>2, <1>3, WFMin
  <1>5. PICK n \in T : x = 1 .. n BY DEF U
  <1>6. ASSUME NEW m \in T, m < n PROVE FALSE
    <2>1. 1 .. m \in U /\ <<1 .. m, 1 .. n>> \notin R BY <1>4, <1>5 DEF U
    <2>2. n \in 1 .. n /\ n \notin 1 .. m /\ 1 .. m \subseteq 1 .. n BY <1>6
    <2>3. 1 .. m \in SUBSET Nat /\ 1 .. n \in SUBSET Nat OBVIOUS
    <2> QED BY <2>1, <2>2, <2>3 DEF R, StrictSubsetOrdering
  <1> QED BY <1>6

\* The members that are kept of the first i of s, from those kept of the first i - 1.
KeptStep(s, S, kept, i) == IF s[i] \in S THEN Append(kept[i - 1], s[i]) ELSE kept[i - 1]

HasKept(T, s, S, n) ==
  \E g \in [0 .. n -> Seq(T)] : g[0] = <<>> /\ \A i \in 1 .. n : g[i] = KeptStep(s, S, g, i)

\* What KeptIn is defined by has a solution, of sequences, up to every n.
LEMMA KeptExists ==
  ASSUME NEW T, NEW s \in Seq(T), NEW S
  PROVE  \A n \in 0 .. Len(s) : HasKept(T, s, S, n)
  <1> USE DEF HasKept
  <1> DEFINE P(n) == HasKept(T, s, S, n)
             B == {n \in 0 .. Len(s) : ~P(n)}
  <1>1. P(0)
    <2> DEFINE g == [i \in 0 .. 0 |-> <<>>]
    <2>1. g \in [0 .. 0 -> Seq(T)] /\ g[0] = <<>> OBVIOUS
    <2>2. \A i \in 1 .. 0 : g[i] = KeptStep(s, S, g, i) OBVIOUS
    <2> HIDE DEF g
    <2> QED BY <2>1, <2>2
  <1>2. ASSUME NEW n \in 1 .. Len(s), P(n - 1) PROVE P(n)
    <2>1. PICK g \in [0 .. n - 1 -> Seq(T)] :
             g[0] = <<>> /\ \A i \in 1 .. n - 1 : g[i] = KeptStep(s, S, g, i)
      BY <1>2
    <2> DEFINE h == [i \in 0 .. n |-> IF i = n THEN KeptStep(s, S, g, n) ELSE g[i]]
    <2>2. s[n] \in T /\ g[n - 1] \in Seq(T) OBVIOUS
    <2>3. KeptStep(s, S, g, n) \in Seq(T) BY <2>2 DEF KeptStep
    <2>4. \A i \in 0 .. n : i # n => i \in 0 .. n - 1 OBVIOUS
    <2>5. h \in [0 .. n -> Seq(T)] BY <2>3, <2>4
    <2>6. \A i \in 0 .. n - 1 : h[i] = g[i] OBVIOUS
    <2>7. h[0] = <<>> BY <2>1, <2>6
    <2>8. \A i \in 1 .. n : h[i] = KeptStep(s, S, h, i)
      <3> TAKE i \in 1 .. n
      <3>1. h[i - 1] = g[i - 1] BY <2>6
      <3>2. CASE i = n BY <3>1, <3>2 DEF KeptStep
      <3>3. CASE i # n
        <4>1. i \in 1 .. n - 1 /\ i \in 0 .. n - 1 BY <3>3
        <4>2. h[i] = KeptStep(s, S, g, i) BY <2>1, <2>6, <4>1
        <4> HIDE DEF h
        <4> QED BY <3>1, <4>2 DEF KeptStep
      <3> QED BY <3>2, <3>3
    <2> QED BY <2>5, <2>7, <2>8
  <1> HIDE DEF P
  <1>3. ASSUME B # {} PROVE FALSE
    <2>1. B \in SUBSET Nat OBVIOUS
    <2>2. PICK n \in B : \A m \in B : n <= m BY <1>3, <2>1, LeastNat
    <2>3. n # 0 BY <1>1, <2>2
    <2>4. n \in 1 .. Len(s) /\ n - 1 \in 0 .. Len(s) BY <2>2, <2>3
    <2>5. P(n - 1) BY <2>2, <2>4
    <2> QED BY <1>2, <2>2, <2>4, <2>5
  <1>4. \A n \in 0 .. Len(s) : P(n) BY <1>3
  <1> HIDE DEF HasKept
  <1> QED BY <1>4 DEF P

LEMMA KeptInIs ==
  ASSUME NEW T, NEW s \in Seq(T), NEW S
  PROVE  /\ KeptIn(s, S) \in [0 .. Len(s) -> Seq(T)]
         /\ KeptIn(s, S)[0] = <<>>
         /\ \A i \in 1 .. Len(s) : KeptIn(s, S)[i] = KeptStep(s, S, KeptIn(s, S), i)
  <1> DEFINE F(f) == [i \in 0 .. Len(s) |-> IF i = 0 THEN <<>>
                        ELSE IF s[i] \in S THEN Append(f[i - 1], s[i]) ELSE f[i - 1]]
  <1>0. Len(s) \in Nat /\ Len(s) \in 0 .. Len(s) OBVIOUS
  <1>1. PICK g \in [0 .. Len(s) -> Seq(T)] :
           g[0] = <<>> /\ \A i \in 1 .. Len(s) : g[i] = KeptStep(s, S, g, i)
    <2>1. HasKept(T, s, S, Len(s)) BY <1>0, KeptExists
    <2> QED BY <2>1 DEF HasKept
  <1>2. g = F(g)
    <2>1. \A i \in 0 .. Len(s) : g[i] = F(g)[i]
      <3> TAKE i \in 0 .. Len(s)
      <3>1. CASE i = 0 BY <1>1, <3>1
      <3>2. CASE i # 0
        <4>1. i \in 1 .. Len(s) BY <1>0, <3>2
        <4> QED BY <1>1, <3>2, <4>1 DEF KeptStep
      <3> QED BY <3>1, <3>2
    <2>2. g = [i \in 0 .. Len(s) |-> g[i]] OBVIOUS
    <2>3. F(g) = [i \in 0 .. Len(s) |-> F(g)[i]] OBVIOUS
    <2> HIDE DEF F
    <2> QED BY <2>1, <2>2, <2>3
  <1>3. \E f : f = F(f) BY <1>2
  <1>4. KeptIn(s, S) = F(KeptIn(s, S)) BY <1>3 DEF KeptIn
  <1> DEFINE K == KeptIn(s, S)
             B == {n \in 0 .. Len(s) : K[n] # g[n]}
  <1>5. K[0] = <<>> /\ \A i \in 1 .. Len(s) : K[i] = KeptStep(s, S, K, i)
    <2>1. K = F(K) BY <1>4
    <2>2. F(K)[0] = <<>> BY <1>0
    <2>3. \A i \in 1 .. Len(s) : F(K)[i] = KeptStep(s, S, K, i) BY <1>0 DEF KeptStep
    <2> HIDE DEF K, F
    <2> QED BY <2>1, <2>2, <2>3
  <1>6. DOMAIN K = 0 .. Len(s) BY <1>4
  <1> HIDE DEF K
  <1>7. ASSUME B # {} PROVE FALSE
    <2>1. B \in SUBSET Nat OBVIOUS
    <2>2. PICK n \in B : \A m \in B : n <= m BY <1>7, <2>1, LeastNat
    <2>3. n # 0 BY <1>1, <1>5, <2>2
    <2>4. n \in 1 .. Len(s) /\ n - 1 \in 0 .. Len(s) /\ n - 1 \notin B BY <2>2, <2>3
    <2>5. K[n - 1] = g[n - 1] BY <2>4
    <2> QED BY <1>1, <1>5, <2>2, <2>4, <2>5 DEF KeptStep
  <1>8. \A n \in 0 .. Len(s) : K[n] = g[n] BY <1>7
  <1>9. K = [i \in 0 .. Len(s) |-> K[i]] BY <1>4, <1>6 DEF K
  <1> QED BY <1>5, <1>8, <1>9 DEF K

\* What is kept of a sequence.
LEMMA KeptIs ==
  ASSUME NEW T, NEW s \in Seq(T), NEW S
  PROVE  /\ Kept(s, S) \in Seq(T)
         /\ Range(Kept(s, S)) = Range(s) \cap S
         /\ IsInjective(s) => IsInjective(Kept(s, S))
  <1> DEFINE K == KeptIn(s, S)
             P(n) == /\ Range(K[n]) = {s[i] : i \in 1 .. n} \cap S
                     /\ IsInjective(s) => IsInjective(K[n])
             B == {n \in 0 .. Len(s) : ~P(n)}
  <1>0. Len(s) \in Nat /\ DOMAIN s = 1 .. Len(s) OBVIOUS
  <1>1. /\ K \in [0 .. Len(s) -> Seq(T)] /\ K[0] = <<>>
        /\ \A i \in 1 .. Len(s) : K[i] = KeptStep(s, S, K, i)
    BY KeptInIs
  <1> HIDE DEF K
  <1>2. P(0)
    <2>1. Range(<<>>) = {} /\ IsInjective(<<>>) BY DEF Range, IsInjective
    <2>2. {s[i] : i \in 1 .. 0} = {} OBVIOUS
    <2> QED BY <1>1, <2>1, <2>2
  <1>3. ASSUME NEW n \in 1 .. Len(s), P(n - 1) PROVE P(n)
    <2>1. s[n] \in T /\ K[n - 1] \in Seq(T) /\ K[n] = KeptStep(s, S, K, n) BY <1>1
    <2>2. 1 .. n = (1 .. n - 1) \cup {n} /\ n \in Nat BY <1>0
    <2>3. {s[i] : i \in 1 .. n} = {s[i] : i \in 1 .. n - 1} \cup {s[n]} BY <2>2
    <2>4. CASE s[n] \in S
      <3>1. K[n] = Append(K[n - 1], s[n]) BY <2>1, <2>4 DEF KeptStep
      <3>2. /\ Range(K[n]) = Range(K[n - 1]) \cup {s[n]}
            /\ IsInjective(K[n - 1]) /\ s[n] \notin Range(K[n - 1]) => IsInjective(K[n])
        BY <2>1, <3>1, AppendDistinct
      <3>3. Range(K[n]) = {s[i] : i \in 1 .. n} \cap S BY <1>3, <2>3, <2>4, <3>2
      <3>4. IsInjective(s) => s[n] \notin {s[i] : i \in 1 .. n - 1} BY <1>0 DEF IsInjective
      <3>5. IsInjective(s) => s[n] \notin Range(K[n - 1]) BY <1>3, <3>4
      <3>6. IsInjective(s) => IsInjective(K[n]) BY <1>3, <3>2, <3>5
      <3> QED BY <3>3, <3>6
    <2>5. CASE s[n] \notin S
      <3>1. K[n] = K[n - 1] BY <2>1, <2>5 DEF KeptStep
      <3> QED BY <1>3, <2>3, <2>5, <3>1
    <2> QED BY <2>4, <2>5
  <1> HIDE DEF P
  <1>4. ASSUME B # {} PROVE FALSE
    <2>1. B \in SUBSET Nat OBVIOUS
    <2>2. PICK n \in B : \A m \in B : n <= m BY <1>4, <2>1, LeastNat
    <2>3. n # 0 BY <1>2, <2>2
    <2>4. n \in 1 .. Len(s) /\ n - 1 \in 0 .. Len(s) BY <2>2, <2>3
    <2>5. P(n - 1) BY <2>2, <2>4
    <2> QED BY <1>3, <2>2, <2>4, <2>5
  <1>5. Len(s) \in 0 .. Len(s) BY <1>0
  <1>6. P(Len(s)) BY <1>4, <1>5
  <1>7. Range(s) = {s[i] : i \in 1 .. Len(s)} BY RangeIs
  <1>8. Kept(s, S) = K[Len(s)] BY DEF Kept, K
  <1> QED BY <1>1, <1>5, <1>6, <1>7, <1>8 DEF P

-----------------------------------------------------------------------------
(* What holds of a run, and of the engine.                                 *)

Alive(R) == R.status \notin {"none", "gone"}

\* The workers a run counts are its devices in progress, and it has none before it starts.
RunOK(R) ==
  /\ R \in RunState
  /\ IsInjective(R.targets)
  /\ R.workers = Running(R)
  /\ ~Alive(R) => In(R, "running") = {}

\* A run is listed until it is removed, and deleted when its last worker has reported.
EngineOK(E) ==
  /\ E \in Engine
  /\ \A r \in Run : RunOK(E.run[r])
  /\ IsInjective(E.runs)
  /\ \A r \in Range(E.runs) : Alive(E.run[r]) /\ ~E.run[r].deleting
  /\ \A r \in E.doomed : Alive(E.run[r]) /\ E.run[r].deleting /\ E.run[r].workers = 0

\* The devices in progress, of all runs.
Pairs(E) == {p \in Run \X Dev : E.run[p[1]].progress[p[2]] = "running"}

\* The token of no run with a worker out is reset.
TokensHold(E, F) ==
  \A r \in Run : E.run[r].token /\ ~F.run[r].token => In(E.run[r], "running") = {}

\* A handler that leads from E to F: the pairs G end, and those that begin are handed to
\* the lane, each once.
Leads(E, F, G) ==
  /\ EngineOK(F)
  /\ IsInjective(F.ready)
  /\ Range(F.ready) \cap (Pairs(E) \ G) = {}
  /\ Pairs(F) = (Pairs(E) \ G) \cup Range(F.ready)
  /\ TokensHold(E, F)

-----------------------------------------------------------------------------
(* The invariant.                                                          *)

Key(k) == <<k.run, k.dev>>

\* No device of a run has two workers out.
WorksOnce ==
  /\ IsInjective(lane)
  /\ \A b, c \in busy : Key(b) = Key(c) => b = c
  /\ \A m, n \in inbox : Key(m) = Key(n) => m = n
  /\ \A b \in busy : Key(b) \notin Range(lane)
  /\ \A m \in inbox : Key(m) \notin Range(lane)
  /\ \A b \in busy, m \in inbox : Key(b) # Key(m)

AtWork == Range(lane) \cup {Key(b) : b \in busy} \cup {Key(m) : m \in inbox}

AutomationInv ==
  /\ EngineTypeOK
  /\ EngineOK(engine) /\ engine.ready = <<>>
  /\ WorksOnce
  /\ AtWork \subseteq Pairs(engine)
  /\ ~down => Pairs(engine) \subseteq AtWork

-----------------------------------------------------------------------------
(* Handlers of one run.                                                    *)

LEMMA RunTypes ==
  ASSUME NEW R \in RunState
  PROVE  /\ \A s \in {"none", "gone"} \cup Active \cup Finished : [R EXCEPT !.status = s] \in RunState
         /\ \A f \in [Dev -> Progress] : [R EXCEPT !.progress = f] \in RunState
         /\ \A n \in Nat : [R EXCEPT !.workers = n] \in RunState
         /\ \A b \in BOOLEAN : /\ [R EXCEPT !.token = b] \in RunState
                               /\ [R EXCEPT !.stopping = b] \in RunState
                               /\ [R EXCEPT !.paused = b] \in RunState
                               /\ [R EXCEPT !.ended = b] \in RunState
                               /\ [R EXCEPT !.deleting = b] \in RunState
                               /\ [R EXCEPT !.owed = b] \in RunState
  BY DEF RunState

LEMMA RunningIs ==
  ASSUME NEW R
  PROVE  /\ IsFiniteSet(In(R, "running")) /\ Running(R) \in Nat
         /\ Running(R) = 0 <=> In(R, "running") = {}
  <1>1. In(R, "running") \subseteq Dev BY DEF In
  <1>2. IsFiniteSet(In(R, "running")) BY <1>1, RunAssumption, FS_Subset
  <1> QED BY <1>2, FS_CardinalityType, FS_EmptySet DEF Running

\* A run that changes and keeps its devices in progress.
LEMMA CalmRun ==
  ASSUME NEW R, RunOK(R), NEW S, S \in RunState,
         S.targets = R.targets, S.workers = R.workers,
         In(S, "running") = In(R, "running"),
         ~Alive(S) => ~Alive(R)
  PROVE  RunOK(S)
  <1>1. Running(S) = Running(R) BY DEF Running
  <1> QED BY <1>1 DEF RunOK

LEMMA StatusIs ==
  ASSUME NEW R, R \in RunState, NEW s \in Active \cup Finished
  PROVE  LET S == SetStatus(R, s)
         IN  /\ S \in RunState /\ S.status = s
             /\ S.targets = R.targets /\ S.workers = R.workers /\ S.progress = R.progress
             /\ S.token = R.token /\ S.deleting = R.deleting /\ S.width = R.width
             /\ S.stopping = R.stopping /\ S.paused = R.paused
  <1> DEFINE e == R.ended \/ s \in Finished
             o == R.owed /\ s \notin Finished
             A == [R EXCEPT !.status = s]
             B == [A EXCEPT !.ended = e]
             C == [B EXCEPT !.owed = o]
  <1>1. e \in BOOLEAN /\ o \in BOOLEAN BY DEF RunState
  <1>2. C = [R EXCEPT !.status = s, !.ended = e, !.owed = o] BY DEF RunState
  <1>3. SetStatus(R, s) = IF R.status = s THEN R ELSE C BY <1>2 DEF SetStatus
  <1> HIDE DEF e, o
  <1>4. A \in RunState BY RunTypes
  <1> HIDE DEF A
  <1>5. B \in RunState BY <1>1, <1>4, RunTypes
  <1> HIDE DEF B
  <1>6. C \in RunState BY <1>1, <1>5, RunTypes
  <1>7. /\ C.status = s /\ C.targets = R.targets /\ C.workers = R.workers
        /\ C.progress = R.progress /\ C.token = R.token /\ C.deleting = R.deleting
        /\ C.width = R.width /\ C.stopping = R.stopping /\ C.paused = R.paused
    BY DEF A, B, RunState
  <1> HIDE DEF C
  <1> QED BY <1>3, <1>6, <1>7

\* The devices pump starts next.
LEMMA ChosenIs ==
  ASSUME NEW R, RunOK(R)
  PROVE  /\ Chosen(R) \in Seq(Dev) /\ IsInjective(Chosen(R))
         /\ Range(Chosen(R)) \subseteq In(R, "queued")
         /\ IsFiniteSet(Range(Chosen(R))) /\ Cardinality(Range(Chosen(R))) = Len(Chosen(R))
  <1> DEFINE room == IF R.stopping \/ R.width < Running(R) THEN 0 ELSE R.width - Running(R)
             n == Len(Waiting(R))
             m == IF room < n THEN room ELSE n
  <1>1. /\ Waiting(R) \in Seq(Dev) /\ IsInjective(Waiting(R))
        /\ Range(Waiting(R)) \subseteq In(R, "queued")
    <2>1. R.targets \in Seq(Dev) /\ IsInjective(R.targets) BY DEF RunOK, RunState
    <2> QED BY <2>1, KeptIs DEF Waiting
  <1>2. room \in Nat BY RunningIs DEF RunOK, RunState
  <1>3. n \in Nat BY <1>1
  <1> HIDE DEF room, n
  <1>4. m \in 0 .. n BY <1>2, <1>3
  <1>5. Chosen(R) = SubSeq(Waiting(R), 1, m) BY DEF Chosen, room, n
  <1> HIDE DEF m
  <1>6. /\ Chosen(R) \in Seq(Dev) /\ IsInjective(Chosen(R))
        /\ Range(Chosen(R)) \subseteq In(R, "queued")
    BY <1>1, <1>4, <1>5, FirstDistinct DEF n
  <1> DEFINE c == Chosen(R)
  <1> HIDE DEF c
  <1>7. c \in Seq(Dev) /\ IsInjective(c) BY <1>6 DEF c
  <1>8. DOMAIN c = 1 .. Len(c) /\ Len(c) \in Nat BY <1>7
  <1>i. \A k \in Nat : IsFiniteSet(1 .. k) /\ Cardinality(1 .. k) = k BY FS_Interval
  <1>9. IsFiniteSet(DOMAIN c) /\ Cardinality(DOMAIN c) = Len(c) BY <1>8, <1>i
  <1>10. c \in [DOMAIN c -> Range(c)] BY <1>7 DEF Range
  <1>11. c \in Surjection(DOMAIN c, Range(c)) BY <1>10 DEF Surjection, Range
  <1>12. c \in Injection(DOMAIN c, Range(c)) BY <1>7, <1>10 DEF Injection, IsInjective
  <1>13. IsFiniteSet(Range(c)) /\ Cardinality(Range(c)) = Cardinality(DOMAIN c)
    BY <1>9, <1>11, <1>12, FS_Surjection
  <1> QED BY <1>6, <1>9, <1>13 DEF c

\* What follows for the engine when one run changes.
LEMMA RunChanges ==
  ASSUME NEW E, EngineOK(E), NEW r \in Run, NEW F, F \in Engine, RunOK(F.run[r]),
         \A x \in Run : x # r => F.run[x] = E.run[x],
         F.runs = E.runs, F.doomed \subseteq E.doomed \cup {r},
         r \in Range(E.runs) => Alive(F.run[r]) /\ ~F.run[r].deleting,
         r \in F.doomed => Alive(F.run[r]) /\ F.run[r].deleting /\ F.run[r].workers = 0
  PROVE  /\ EngineOK(F)
         /\ Pairs(F) = {p \in Pairs(E) : p[1] # r} \cup {<<r, d>> : d \in In(F.run[r], "running")}
         /\ (E.run[r].token /\ ~F.run[r].token => In(E.run[r], "running") = {}) => TokensHold(E, F)
  <1>1. Range(E.runs) \subseteq Run BY RangeIs DEF EngineOK, Engine
  <1>2. F.doomed \subseteq Run /\ E.doomed \subseteq Run BY DEF Engine, EngineOK
  <1>3. \A x \in Run : RunOK(F.run[x]) BY DEF EngineOK
  <1>4. IsInjective(F.runs) BY DEF EngineOK
  <1>5. \A x \in Range(F.runs) : Alive(F.run[x]) /\ ~F.run[x].deleting BY <1>1 DEF EngineOK
  <1>6. \A x \in F.doomed : Alive(F.run[x]) /\ F.run[x].deleting /\ F.run[x].workers = 0
    BY <1>2 DEF EngineOK
  <1>7. Pairs(F) = {p \in Pairs(E) : p[1] # r} \cup {<<r, d>> : d \in In(F.run[r], "running")}
    BY DEF Pairs, In
  <1> QED BY <1>3, <1>4, <1>5, <1>6, <1>7 DEF EngineOK, TokensHold

-----------------------------------------------------------------------------
(* pump.                                                                   *)

\* What pump and what it calls leave alone.
Keeping(E, F) ==
  /\ F.runs = E.runs
  /\ \A x \in Run : F.run[x].token = E.run[x].token /\ F.run[x].deleting = E.run[x].deleting

\* A run that gets its chosen devices in progress.
LEMMA DispatchedRun ==
  ASSUME NEW R, RunOK(R), Alive(R), NEW S,
         S = [R EXCEPT !.progress = [d \in Dev |-> IF d \in Range(Chosen(R)) THEN "running" ELSE @[d]],
                       !.workers = @ + Len(Chosen(R))]
  PROVE  /\ RunOK(S) /\ S.status = R.status /\ S.token = R.token /\ S.deleting = R.deleting
         /\ S.targets = R.targets
         /\ In(S, "running") = In(R, "running") \cup Range(Chosen(R))
         /\ In(R, "running") \cap Range(Chosen(R)) = {}
  <1> DEFINE C == Range(Chosen(R))
             f == [d \in Dev |-> IF d \in C THEN "running" ELSE R.progress[d]]
             A == [R EXCEPT !.progress = f]
             n == R.workers + Len(Chosen(R))
  <1>1. R \in RunState BY DEF RunOK
  <1>2. /\ Chosen(R) \in Seq(Dev) /\ C \subseteq In(R, "queued") /\ IsFiniteSet(C)
        /\ Cardinality(C) = Len(Chosen(R)) /\ Len(Chosen(R)) \in Nat
    BY ChosenIs
  <1>3. R.progress \in [Dev -> Progress] /\ R.workers \in Nat BY <1>1 DEF RunState
  <1>4. f \in [Dev -> Progress] /\ n \in Nat BY <1>2, <1>3 DEF Progress
  <1>5. S = [A EXCEPT !.workers = n] BY <1>1 DEF RunState
  <1> HIDE DEF C, n
  <1>6. A \in RunState BY <1>1, <1>4, RunTypes
  <1>7. /\ A.progress = f /\ A.status = R.status /\ A.token = R.token /\ A.deleting = R.deleting
        /\ A.targets = R.targets
    BY <1>1 DEF RunState
  <1> HIDE DEF f, A
  <1>8. S \in RunState BY <1>4, <1>5, <1>6, RunTypes
  <1>9. /\ S.progress = f /\ S.status = R.status /\ S.token = R.token /\ S.deleting = R.deleting
        /\ S.targets = R.targets /\ S.workers = n
    BY <1>5, <1>6, <1>7 DEF RunState
  <1>10. C \subseteq Dev BY <1>2 DEF In
  <1>11. In(S, "running") = In(R, "running") \cup C BY <1>3, <1>9, <1>10 DEF In, f
  <1>12. In(R, "running") \cap C = {} BY <1>2 DEF In
  <1>13. Running(S) = Running(R) + Cardinality(C)
    <2>1. IsFiniteSet(In(R, "running")) /\ Cardinality(In(R, "running")) \in Nat
      BY RunningIs DEF Running
    <2>2. Cardinality(In(R, "running") \cap C) = 0 BY <1>12, FS_EmptySet
    <2>3. Cardinality(C) \in Nat BY <1>2
    <2>4. Cardinality(In(R, "running") \cup C)
             = Cardinality(In(R, "running")) + Cardinality(C) - Cardinality(In(R, "running") \cap C)
      BY <1>2, <2>1, FS_Union
    <2>5. Running(S) = Cardinality(In(R, "running") \cup C) BY <1>11 DEF Running
    <2> DEFINE a == Cardinality(In(R, "running"))
               b == Cardinality(C)
    <2>6. a \in Nat /\ b \in Nat /\ Running(R) = a /\ Running(S) = a + b - 0
      BY <2>1, <2>2, <2>3, <2>4, <2>5, Zenon DEF Running
    <2> HIDE DEF a, b
    <2>7. Running(S) = Running(R) + b BY <2>6
    <2> QED BY <2>7 DEF b
  <1>14. S.workers = Running(S) BY <1>2, <1>9, <1>13 DEF RunOK, n
  <1>15. RunOK(S) BY <1>8, <1>9, <1>14 DEF RunOK, Alive
  <1> QED BY <1>9, <1>11, <1>12, <1>15 DEF C

LEMMA DispatchLeads ==
  ASSUME NEW E, EngineOK(E), E.ready = <<>>, NEW r \in Run, Alive(E.run[r]), ~E.run[r].deleting
  PROVE  /\ Leads(E, Dispatch(r, E), {}) /\ Keeping(E, Dispatch(r, E))
         /\ Alive(Dispatch(r, E).run[r])
  <1> DEFINE R == E.run[r]
             c == Chosen(R)
             S == [R EXCEPT !.progress = [d \in Dev |-> IF d \in Range(c) THEN "running" ELSE @[d]],
                            !.workers = @ + Len(c)]
             q == [i \in DOMAIN c |-> <<r, c[i]>>]
             D == Dispatch(r, E)
  <1>1. E \in Engine /\ RunOK(R) BY DEF EngineOK
  <1>2. D = [E EXCEPT !.run[r] = S, !.ready = @ \o q] BY <1>1 DEF Dispatch, Engine
  <1>3. /\ RunOK(S) /\ S.status = R.status /\ S.token = R.token /\ S.deleting = R.deleting
        /\ In(S, "running") = In(R, "running") \cup Range(c)
        /\ In(R, "running") \cap Range(c) = {}
    BY <1>1, DispatchedRun
  <1>4. c \in Seq(Dev) /\ IsInjective(c) BY <1>1, ChosenIs
  <1> HIDE DEF S, c
  <1>5. q \in Seq(Run \X Dev) /\ Len(q) = Len(c) /\ DOMAIN q = DOMAIN c
        /\ \A i \in DOMAIN c : q[i] = <<r, c[i]>>
    <2>1. DOMAIN c = 1 .. Len(c) /\ Len(c) \in Nat /\ \A i \in DOMAIN c : c[i] \in Dev BY <1>4
    <2>2. q \in [1 .. Len(c) -> Run \X Dev] BY <2>1
    <2> QED BY <2>1, <2>2
  <1> HIDE DEF q
  <1>6. <<>> \o q = q BY <1>5
  <1>7. IsInjective(q) BY <1>4, <1>5 DEF IsInjective
  <1>8. Range(q) = {<<r, d>> : d \in Range(c)} BY <1>5 DEF Range
  <1>9. S \in RunState BY <1>3 DEF RunOK
  <1>10. /\ D \in Engine /\ D.ready = q /\ D.runs = E.runs /\ D.doomed = E.doomed
         /\ D.run[r] = S /\ \A x \in Run : x # r => D.run[x] = E.run[x]
    <2> DEFINE run == [E.run EXCEPT ![r] = S]
    <2>1. run \in [Run -> RunState] /\ run[r] = S /\ \A x \in Run : x # r => run[x] = E.run[x]
      BY <1>1, <1>9 DEF Engine
    <2>2. D = [E EXCEPT !.run = run, !.ready = q] BY <1>1, <1>2, <1>6 DEF Engine
    <2> HIDE DEF run, D
    <2> QED BY <1>1, <1>5, <2>1, <2>2 DEF Engine
  <1> HIDE DEF D
  <1>11. r \notin E.doomed BY DEF EngineOK
  <1>12. Alive(S) BY <1>3 DEF Alive
  <1>13. /\ EngineOK(D)
         /\ Pairs(D) = {p \in Pairs(E) : p[1] # r} \cup {<<r, d>> : d \in In(S, "running")}
         /\ TokensHold(E, D)
    BY <1>1, <1>3, <1>10, <1>11, <1>12, RunChanges
  <1>14. Pairs(E) = {p \in Pairs(E) : p[1] # r} \cup {<<r, d>> : d \in In(R, "running")}
    BY DEF Pairs, In
  <1>15. Pairs(D) = Pairs(E) \cup Range(q) BY <1>3, <1>8, <1>13, <1>14
  <1>16. Range(q) \cap Pairs(E) = {} BY <1>3, <1>8, <1>14
  <1>17. Leads(E, D, {}) BY <1>7, <1>10, <1>13, <1>15, <1>16 DEF Leads
  <1>18. Keeping(E, D) BY <1>3, <1>10 DEF Keeping
  <1> QED BY <1>10, <1>12, <1>17, <1>18 DEF D

\* The run changes and keeps its devices in progress.
Calmly(R, S) ==
  /\ S \in RunState
  /\ S.targets = R.targets /\ S.workers = R.workers /\ S.deleting = R.deleting
  /\ In(S, "running") = In(R, "running")
  /\ Alive(S) <=> Alive(R)
  /\ R.token /\ ~S.token => In(R, "running") = {}

\* The engine with another state of one run, and other marks of devices.
Put(E, r, S, f) == [E EXCEPT !.run[r] = S, !.flagged = f]

LEMMA RunReplaced ==
  ASSUME NEW E, E \in Engine, NEW r \in Run, NEW S \in RunState, NEW f \in SUBSET Dev
  PROVE  LET F == Put(E, r, S, f)
         IN  /\ F \in Engine /\ F.ready = E.ready /\ F.runs = E.runs /\ F.doomed = E.doomed
             /\ F.run[r] = S /\ \A x \in Run : x # r => F.run[x] = E.run[x]
  <1> DEFINE run == [E.run EXCEPT ![r] = S]
             F == Put(E, r, S, f)
  <1>1. run \in [Run -> RunState] /\ run[r] = S /\ \A x \in Run : x # r => run[x] = E.run[x]
    BY DEF Engine
  <1>2. F = [E EXCEPT !.run = run, !.flagged = f] BY DEF Engine, Put
  <1> HIDE DEF run, F
  <1>3. /\ F \in Engine /\ F.ready = E.ready /\ F.runs = E.runs /\ F.doomed = E.doomed
        /\ F.run[r] = S /\ \A x \in Run : x # r => F.run[x] = E.run[x]
    BY <1>1, <1>2 DEF Engine
  <1> QED BY <1>3 DEF F

\* A step within a handler, of one run.
LEMMA CalmStep ==
  ASSUME NEW E, EngineOK(E), NEW r \in Run, NEW S, Calmly(E.run[r], S), NEW f \in SUBSET Dev
  PROVE  LET F == Put(E, r, S, f)
         IN  /\ EngineOK(F) /\ Pairs(F) = Pairs(E) /\ TokensHold(E, F)
             /\ F.run[r] = S /\ F.ready = E.ready
             /\ S.token = E.run[r].token => Keeping(E, F)
  <1> DEFINE F == Put(E, r, S, f)
  <1>1. E \in Engine /\ RunOK(E.run[r]) /\ S \in RunState BY DEF EngineOK, Calmly
  <1>2. /\ F \in Engine /\ F.ready = E.ready /\ F.runs = E.runs /\ F.doomed = E.doomed
        /\ F.run[r] = S /\ \A x \in Run : x # r => F.run[x] = E.run[x]
    BY <1>1, RunReplaced
  <1> HIDE DEF F
  <1>3. RunOK(F.run[r]) BY <1>1, <1>2, CalmRun DEF Calmly
  <1>4. /\ r \in Range(E.runs) => Alive(F.run[r]) /\ ~F.run[r].deleting
        /\ r \in F.doomed => Alive(F.run[r]) /\ F.run[r].deleting /\ F.run[r].workers = 0
        /\ E.run[r].token /\ ~F.run[r].token => In(E.run[r], "running") = {}
    BY <1>2 DEF EngineOK, Calmly
  <1>5. /\ EngineOK(F)
        /\ Pairs(F) = {p \in Pairs(E) : p[1] # r} \cup {<<r, d>> : d \in In(F.run[r], "running")}
        /\ TokensHold(E, F)
    BY <1>2, <1>3, <1>4, RunChanges
  <1>6. Pairs(E) = {p \in Pairs(E) : p[1] # r} \cup {<<r, d>> : d \in In(E.run[r], "running")}
    BY DEF Pairs, In
  <1>7. In(F.run[r], "running") = In(E.run[r], "running") BY <1>2 DEF Calmly
  <1>8. Pairs(F) = Pairs(E) BY <1>5, <1>6, <1>7
  <1>9. S.token = E.run[r].token => Keeping(E, F) BY <1>2 DEF Keeping, Calmly
  <1>10. /\ EngineOK(F) /\ Pairs(F) = Pairs(E) /\ TokensHold(E, F)
         /\ F.run[r] = S /\ F.ready = E.ready
         /\ S.token = E.run[r].token => Keeping(E, F)
    BY <1>2, <1>5, <1>8, <1>9
  <1> QED BY <1>10 DEF F

\* A handler whose first step ends the pairs G and hands nothing out, and its second step.
LEMMA LeadsOn ==
  ASSUME NEW E, NEW F, NEW H, NEW G,
         Pairs(F) = Pairs(E) \ G, TokensHold(E, F),
         Leads(F, H, {}), Keeping(F, H)
  PROVE  Leads(E, H, G)
  BY DEF Leads, Keeping, TokensHold

\* A step after which there is no more to do.
LEMMA LeadsNowhere ==
  ASSUME NEW E, NEW F, NEW G, EngineOK(F), F.ready = <<>>,
         Pairs(F) = Pairs(E) \ G, TokensHold(E, F)
  PROVE  Leads(E, F, G)
  <1>1. Range(<<>>) = {} /\ IsInjective(<<>>) BY DEF Range, IsInjective
  <1> QED BY <1>1 DEF Leads

LEMMA ConcludeLeads ==
  ASSUME NEW E, NEW D, EngineOK(E), Leads(E, D, {}), Keeping(E, D), NEW r \in Run, Alive(D.run[r])
  PROVE  Leads(E, Conclude(r, D), {}) /\ Keeping(E, Conclude(r, D))
  <1> DEFINE R == D.run[r]
             S == SetStatus(R, Outcome(R))
             f == D.flagged \ Range(R.targets)
             F == Put(D, r, S, f)
  <1>1. EngineOK(D) /\ D \in Engine /\ RunOK(R) /\ R \in RunState BY DEF Leads, EngineOK, RunOK
  <1>2. Outcome(R) \in Active \cup Finished BY DEF Outcome, Finished
  <1>3. /\ S \in RunState /\ S.status = Outcome(R) /\ S.targets = R.targets
        /\ S.workers = R.workers /\ S.progress = R.progress /\ S.token = R.token
        /\ S.deleting = R.deleting
    BY <1>1, <1>2, StatusIs
  <1>4. In(S, "running") = In(R, "running") BY <1>3 DEF In
  <1>5. Alive(S) BY <1>3 DEF Alive, Outcome
  <1>6. f \in SUBSET Dev BY <1>1 DEF Engine
  <1>7. Conclude(r, D) = D \/ Conclude(r, D) = F BY DEF Conclude, Put
  <1> HIDE DEF S, f
  <1>c. Calmly(R, S) BY <1>3, <1>4, <1>5 DEF Calmly
  <1>8. /\ EngineOK(F) /\ Pairs(F) = Pairs(D) /\ F.ready = D.ready /\ Keeping(D, F)
    BY <1>1, <1>3, <1>6, <1>c, CalmStep
  <1> HIDE DEF F, R
  <1>9. Leads(E, F, {}) /\ Keeping(E, F) BY <1>8 DEF Leads, Keeping, TokensHold
  <1> QED BY <1>7, <1>9

LEMMA WindUpLeads ==
  ASSUME NEW E, EngineOK(E), E.ready = <<>>, NEW r \in Run
  PROVE  Leads(E, WindUp(r, E), {}) /\ Keeping(E, WindUp(r, E))
  <1> DEFINE R == E.run[r]
             A == [R EXCEPT !.ended = TRUE]
             S == [A EXCEPT !.owed = FALSE]
             f == E.flagged \ Range(R.targets)
             F == Put(E, r, S, f)
  <1>1. E \in Engine /\ RunOK(R) /\ R \in RunState BY DEF EngineOK, RunOK
  <1>2. A \in RunState BY <1>1, RunTypes
  <1>3. S \in RunState BY <1>2, RunTypes
  <1>4. /\ S.targets = R.targets /\ S.workers = R.workers /\ S.progress = R.progress
        /\ S.token = R.token /\ S.deleting = R.deleting /\ S.status = R.status
    BY <1>1 DEF RunState
  <1>5. In(S, "running") = In(R, "running") BY <1>4 DEF In
  <1>6. f \in SUBSET Dev BY <1>1 DEF Engine
  <1>7. WindUp(r, E) = E \/ WindUp(r, E) = F
    <2>1. [E EXCEPT !.run[r].ended = TRUE, !.run[r].owed = FALSE, !.flagged = @ \ Range(R.targets)] = F
      BY <1>1 DEF Engine, RunState, Put
    <2> QED BY <2>1 DEF WindUp
  <1> HIDE DEF S, f
  <1>c. Calmly(R, S) BY <1>3, <1>4, <1>5 DEF Calmly, Alive
  <1>8. /\ EngineOK(F) /\ Pairs(F) = Pairs(E) /\ TokensHold(E, F) /\ F.ready = E.ready
        /\ Keeping(E, F)
    BY <1>4, <1>6, <1>c, CalmStep
  <1> HIDE DEF F, R
  <1>9. Leads(E, F, {}) BY <1>8, LeadsNowhere
  <1>10. Leads(E, E, {}) /\ Keeping(E, E)
    <2>1. TokensHold(E, E) BY DEF TokensHold
    <2> QED BY <2>1, LeadsNowhere DEF Keeping
  <1> QED BY <1>7, <1>8, <1>9, <1>10

\* pump of a run that has not been removed.
LEMMA PumpLeads ==
  ASSUME NEW E, EngineOK(E), E.ready = <<>>, NEW r \in Run, ~E.run[r].deleting
  PROVE  Leads(E, Pump(r, E), {}) /\ Keeping(E, Pump(r, E))
  <1>1. CASE E.run[r].status = "Running"
    <2>1. Alive(E.run[r]) BY <1>1 DEF Alive
    <2>2. Leads(E, Dispatch(r, E), {}) /\ Keeping(E, Dispatch(r, E)) /\ Alive(Dispatch(r, E).run[r])
      BY <2>1, DispatchLeads
    <2>3. Pump(r, E) = Conclude(r, Dispatch(r, E)) BY <1>1 DEF Pump
    <2> QED BY <2>2, <2>3, ConcludeLeads
  <1>2. CASE E.run[r].status # "Running"
    <2>1. Pump(r, E) = WindUp(r, E) BY <1>2 DEF Pump
    <2> QED BY <2>1, WindUpLeads
  <1> QED BY <1>1, <1>2

-----------------------------------------------------------------------------
(* The commands to a run, and the report of a worker.                      *)

PutRun(E, r, S) == [E EXCEPT !.run[r] = S]

\* A handler that changes one run calmly and leaves the rest.
LEMMA CalmLeads ==
  ASSUME NEW E, EngineOK(E), E.ready = <<>>, NEW r \in Run, NEW S, Calmly(E.run[r], S)
  PROVE  LET F == PutRun(E, r, S)
         IN  /\ Leads(E, F, {}) /\ F.run[r] = S
             /\ EngineOK(F) /\ F.ready = <<>> /\ Pairs(F) = Pairs(E) \ {} /\ TokensHold(E, F)
  <1> DEFINE f == E.flagged
             F == Put(E, r, S, f)
  <1>1. E \in Engine BY DEF EngineOK
  <1>2. f \in SUBSET Dev BY <1>1 DEF Engine
  <1>3. PutRun(E, r, S) = F BY <1>1 DEF Put, PutRun, Engine
  <1> HIDE DEF f
  <1>4. /\ EngineOK(F) /\ Pairs(F) = Pairs(E) /\ TokensHold(E, F)
        /\ F.run[r] = S /\ F.ready = E.ready
        /\ S.token = E.run[r].token => Keeping(E, F)
    <2> HIDE DEF F
    <2>1. f \in SUBSET Dev /\ Calmly(E.run[r], S) BY <1>2
    <2> QED BY <2>1, CalmStep DEF F
  <1> HIDE DEF F
  <1>5. Pairs(F) = Pairs(E) \ {} BY <1>4
  <1>6. Leads(E, F, {}) BY <1>4, <1>5, LeadsNowhere
  <1>7. /\ Leads(E, F, {}) /\ F.run[r] = S
        /\ EngineOK(F) /\ F.ready = <<>> /\ Pairs(F) = Pairs(E) \ {} /\ TokensHold(E, F)
    BY <1>4, <1>5, <1>6
  <1> QED BY <1>3, <1>7

LEMMA StillLeads ==
  ASSUME NEW E, EngineOK(E), E.ready = <<>>
  PROVE  Leads(E, E, {})
  <1>1. TokensHold(E, E) /\ Pairs(E) = Pairs(E) \ {} BY DEF TokensHold
  <1> QED BY <1>1, LeadsNowhere

LEMMA PauseLeads ==
  ASSUME NEW E, EngineOK(E), E.ready = <<>>, NEW r \in Run
  PROVE  Leads(E, Pause(r, E), {})
  <1> DEFINE R == E.run[r]
             A == SetStatus(R, "Paused")
             S == [A EXCEPT !.paused = TRUE]
  <1>1. E \in Engine /\ R \in RunState BY DEF EngineOK, RunOK
  <1>2. CASE R.status = "Running"
    <2>1. /\ A \in RunState /\ A.status = "Paused" /\ A.targets = R.targets
          /\ A.workers = R.workers /\ A.progress = R.progress /\ A.token = R.token
          /\ A.deleting = R.deleting
      BY <1>1, StatusIs DEF Active
    <2>2. Pause(r, E) = PutRun(E, r, S) BY <1>1, <1>2 DEF Pause, Engine, PutRun
    <2> HIDE DEF A
    <2>3. S \in RunState BY <2>1, RunTypes
    <2>4. /\ S.status = "Paused" /\ S.targets = R.targets /\ S.workers = R.workers
          /\ S.progress = R.progress /\ S.token = R.token /\ S.deleting = R.deleting
      BY <2>1 DEF RunState
    <2>5. Calmly(R, S) BY <1>2, <2>3, <2>4 DEF Calmly, In, Alive
    <2> HIDE DEF S
    <2> QED BY <2>2, <2>5, CalmLeads
  <1>3. CASE R.status # "Running"
    <2>1. Pause(r, E) = E BY <1>3 DEF Pause
    <2> QED BY <2>1, StillLeads
  <1> QED BY <1>2, <1>3

LEMMA ResumeLeads ==
  ASSUME NEW E, EngineOK(E), E.ready = <<>>, NEW r \in Run, ~E.run[r].deleting
  PROVE  Leads(E, Resume(r, E), {})
  <1> DEFINE R == E.run[r]
             A == SetStatus(R, "Running")
             S == [A EXCEPT !.paused = FALSE]
             F == PutRun(E, r, S)
  <1>1. E \in Engine /\ R \in RunState BY DEF EngineOK, RunOK
  <1>2. CASE R.status = "Paused"
    <2>1. /\ A \in RunState /\ A.status = "Running" /\ A.targets = R.targets
          /\ A.workers = R.workers /\ A.progress = R.progress /\ A.token = R.token
          /\ A.deleting = R.deleting
      BY <1>1, StatusIs DEF Active
    <2>2. Resume(r, E) = Pump(r, F) BY <1>1, <1>2 DEF Resume, Engine, PutRun
    <2> HIDE DEF A
    <2>3. S \in RunState BY <2>1, RunTypes
    <2>4. /\ S.status = "Running" /\ S.targets = R.targets /\ S.workers = R.workers
          /\ S.progress = R.progress /\ S.token = R.token /\ S.deleting = R.deleting
      BY <2>1 DEF RunState
    <2>5. Calmly(R, S) BY <1>2, <2>3, <2>4 DEF Calmly, In, Alive
    <2> HIDE DEF S
    <2>6. /\ F.run[r] = S /\ EngineOK(F) /\ F.ready = <<>> /\ Pairs(F) = Pairs(E) \ {}
          /\ TokensHold(E, F)
      BY <2>5, CalmLeads
    <2> HIDE DEF F
    <2>7. Leads(F, Pump(r, F), {}) /\ Keeping(F, Pump(r, F)) BY <2>4, <2>6, PumpLeads
    <2> QED BY <2>2, <2>6, <2>7, LeadsOn
  <1>3. CASE R.status # "Paused"
    <2>1. Resume(r, E) = E BY <1>3 DEF Resume
    <2> QED BY <2>1, StillLeads
  <1> QED BY <1>2, <1>3

LEMMA StoppedIsCalm ==
  ASSUME NEW R, R \in RunState
  PROVE  Calmly(R, Stopped(R)) /\ (R.token => Stopped(R).token)
  <1> DEFINE f == [d \in Dev |-> IF R.progress[d] = "queued" THEN "cancelled" ELSE R.progress[d]]
             A == [R EXCEPT !.stopping = TRUE]
             B == [A EXCEPT !.paused = FALSE]
             C == [B EXCEPT !.token = TRUE]
             S == [C EXCEPT !.progress = f]
             T == SetStatus(S, "Cancelled")
             U == [S EXCEPT !.status = "Cancelled"]
  <1>1. CASE R.status \notin Active
    <2>1. Stopped(R) = R BY <1>1 DEF Stopped
    <2> QED BY <2>1 DEF Calmly
  <1>2. CASE R.status \in Active
    <2>1. f \in [Dev -> Progress] BY DEF RunState, Progress
    <2>2. S = [R EXCEPT !.stopping = TRUE, !.paused = FALSE, !.token = TRUE,
                        !.progress = [d \in Dev |-> IF @[d] = "queued" THEN "cancelled" ELSE @[d]]]
      BY DEF RunState
    <2>3. Stopped(R) = T \/ Stopped(R) = U BY <1>2, <2>2 DEF Stopped
    <2>4. A \in RunState BY RunTypes
    <2>5. B \in RunState BY <2>4, RunTypes
    <2>6. C \in RunState BY <2>5, RunTypes
    <2> HIDE DEF f
    <2>7. /\ C.targets = R.targets /\ C.workers = R.workers /\ C.deleting = R.deleting /\ C.token
      BY DEF RunState
    <2> HIDE DEF C
    <2>8. S \in RunState BY <2>1, <2>6, RunTypes
    <2>9. /\ S.targets = R.targets /\ S.workers = R.workers /\ S.deleting = R.deleting /\ S.token
          /\ S.progress = f
      BY <2>6, <2>7 DEF RunState
    <2> HIDE DEF S
    <2>10. /\ T \in RunState /\ T.status = "Cancelled" /\ T.targets = R.targets
           /\ T.workers = R.workers /\ T.deleting = R.deleting /\ T.token /\ T.progress = f
      BY <2>8, <2>9, StatusIs DEF Finished
    <2>11. U \in RunState
      <3>1. "Cancelled" \in {"none", "gone"} \cup Active \cup Finished BY DEF Finished
      <3> QED BY <2>8, <3>1, RunTypes
    <2>12. /\ U.status = "Cancelled" /\ U.targets = R.targets
           /\ U.workers = R.workers /\ U.deleting = R.deleting /\ U.token /\ U.progress = f
      BY <2>8, <2>9 DEF RunState
    <2> HIDE DEF T, U
    <2>13. \A P : P.progress = f => In(P, "running") = In(R, "running") BY DEF In, f
    <2>14. Alive(R) BY <1>2 DEF Alive, Active
    <2>15. Calmly(R, T) /\ Calmly(R, U) BY <2>10, <2>11, <2>12, <2>13, <2>14 DEF Calmly, Alive
    <2> QED BY <2>3, <2>10, <2>12, <2>15
  <1> QED BY <1>1, <1>2

LEMMA StopLeads ==
  ASSUME NEW E, EngineOK(E), E.ready = <<>>, NEW r \in Run
  PROVE  Leads(E, Stop(r, E), {})
  <1>1. E \in Engine /\ E.run[r] \in RunState BY DEF EngineOK, RunOK
  <1>2. Stop(r, E) = PutRun(E, r, Stopped(E.run[r])) BY <1>1 DEF Stop, Engine, PutRun
  <1>3. Calmly(E.run[r], Stopped(E.run[r])) BY <1>1, StoppedIsCalm
  <1> QED BY <1>2, <1>3, CalmLeads

LEMMA RetriedIsCalm ==
  ASSUME NEW R, R \in RunState, Alive(R), In(R, "running") = {}
  PROVE  LET S == SetStatus(Retried(R), "Running") IN Calmly(R, S)
  <1> DEFINE f == [d \in Dev |-> IF R.progress[d] \in {"failed", "cancelled"} THEN "queued"
                                                                            ELSE R.progress[d]]
             A == [R EXCEPT !.progress = f]
             B == [A EXCEPT !.ended = FALSE]
             C == [B EXCEPT !.token = FALSE]
             D == [C EXCEPT !.stopping = FALSE]
             T == [D EXCEPT !.owed = TRUE]
             S == SetStatus(T, "Running")
  <1>1. f \in [Dev -> Progress] BY DEF RunState, Progress
  <1>2. T = Retried(R) BY DEF Retried, RunState
  <1> HIDE DEF f
  <1>3. A \in RunState BY <1>1, RunTypes
  <1>4. B \in RunState BY <1>3, RunTypes
  <1>5. C \in RunState BY <1>4, RunTypes
  <1>6. C.targets = R.targets /\ C.workers = R.workers /\ C.deleting = R.deleting /\ C.progress = f
    BY DEF RunState
  <1> HIDE DEF C
  <1>7. D \in RunState BY <1>5, RunTypes
  <1>8. T \in RunState BY <1>7, RunTypes
  <1>9. T.targets = R.targets /\ T.workers = R.workers /\ T.deleting = R.deleting /\ T.progress = f
    BY <1>5, <1>6 DEF RunState
  <1> HIDE DEF T
  <1>10. /\ S \in RunState /\ S.status = "Running" /\ S.targets = R.targets
         /\ S.workers = R.workers /\ S.deleting = R.deleting /\ S.progress = f
    BY <1>8, <1>9, StatusIs DEF Active
  <1> HIDE DEF S
  <1>11. In(S, "running") = In(R, "running") BY <1>10 DEF In, f
  <1>12. Calmly(R, S) BY <1>10, <1>11 DEF Calmly, Alive
  <1> QED BY <1>2, <1>12 DEF S

LEMMA RetryLeads ==
  ASSUME NEW E, EngineOK(E), E.ready = <<>>, NEW r \in Run, Alive(E.run[r]), ~E.run[r].deleting
  PROVE  Leads(E, RetryFailed(r, E), {})
  <1> DEFINE R == E.run[r]
             S == SetStatus(Retried(R), "Running")
             F == PutRun(E, r, S)
  <1>1. E \in Engine /\ R \in RunState BY DEF EngineOK, RunOK
  <1>2. CASE Running(R) > 0 \/ In(R, "failed") \cup In(R, "cancelled") = {}
    <2>1. RetryFailed(r, E) = E BY <1>2 DEF RetryFailed
    <2> QED BY <2>1, StillLeads
  <1>3. CASE ~(Running(R) > 0 \/ In(R, "failed") \cup In(R, "cancelled") = {})
    <2>1. RetryFailed(r, E) = Pump(r, F) BY <1>3 DEF RetryFailed, PutRun
    <2>2. In(R, "running") = {} BY <1>3, RunningIs
    <2>3. Calmly(R, S) BY <1>1, <2>2, RetriedIsCalm
    <2> HIDE DEF S
    <2>4. /\ F.run[r] = S /\ EngineOK(F) /\ F.ready = <<>> /\ Pairs(F) = Pairs(E) \ {}
          /\ TokensHold(E, F)
      BY <2>3, CalmLeads
    <2>5. ~S.deleting BY <2>3 DEF Calmly
    <2> HIDE DEF F
    <2>6. Leads(F, Pump(r, F), {}) /\ Keeping(F, Pump(r, F)) BY <2>4, <2>5, PumpLeads
    <2> QED BY <2>1, <2>4, <2>6, LeadsOn
  <1> QED BY <1>2, <1>3

\* A run after the report of a worker.
SettledOf(R, d, v) == [R EXCEPT !.progress[d] = v, !.workers = @ - 1]

LEMMA SettledRun ==
  ASSUME NEW R, RunOK(R), NEW d \in Dev, d \in In(R, "running"), NEW v \in Progress, v # "running",
         NEW S, S = SettledOf(R, d, v)
  PROVE  /\ RunOK(S) /\ Alive(S) /\ S.token = R.token /\ S.deleting = R.deleting
         /\ S.workers = R.workers - 1 /\ R.workers \in Nat
         /\ In(S, "running") = In(R, "running") \ {d}
  <1> DEFINE f == [R.progress EXCEPT ![d] = v]
             n == R.workers - 1
             A == [R EXCEPT !.progress = f]
  <1>1. R \in RunState /\ R.workers = Running(R) /\ Alive(R) BY DEF RunOK
  <1>2. R.progress \in [Dev -> Progress] /\ R.workers \in Nat BY <1>1 DEF RunState
  <1>3. IsFiniteSet(In(R, "running")) BY RunningIs
  <1>4. Cardinality(In(R, "running") \ {d}) = Cardinality(In(R, "running")) - 1
    BY <1>3, FS_RemoveElement
  <1>5. Running(R) # 0 BY RunningIs
  <1>6. n \in Nat BY <1>1, <1>2, <1>5
  <1>7. f \in [Dev -> Progress] BY <1>2
  <1>8. \A e \in Dev : f[e] = "running" <=> R.progress[e] = "running" /\ e # d BY <1>2
  <1>9. S = [A EXCEPT !.workers = n] BY <1>1 DEF RunState, SettledOf
  <1> HIDE DEF f, n
  <1>10. A \in RunState BY <1>1, <1>7, RunTypes
  <1>11. S \in RunState BY <1>6, <1>9, <1>10, RunTypes
  <1>12. /\ S.progress = f /\ S.status = R.status /\ S.token = R.token
         /\ S.deleting = R.deleting /\ S.targets = R.targets /\ S.workers = n
    BY <1>1, <1>9 DEF RunState
  <1>13. In(S, "running") = In(R, "running") \ {d} BY <1>8, <1>12 DEF In
  <1>14. Running(S) = Cardinality(In(R, "running") \ {d}) BY <1>13 DEF Running
  <1>15. Running(S) = n BY <1>1, <1>4, <1>14 DEF Running, n
  <1>16. RunOK(S) /\ Alive(S) BY <1>1, <1>11, <1>12, <1>15 DEF RunOK, Alive
  <1> QED BY <1>2, <1>12, <1>13, <1>16 DEF n

LEMMA FinishedLeads ==
  ASSUME NEW E, EngineOK(E), E.ready = <<>>, NEW r \in Run, NEW d \in Dev, <<r, d>> \in Pairs(E),
         NEW ok \in BOOLEAN
  PROVE  Leads(E, DeviceFinished(r, d, ok, E), {<<r, d>>})
  <1> DEFINE R == E.run[r]
             v == Result(R, ok)
             S == SettledOf(R, d, v)
             f == E.flagged \ {d}
             F == Put(E, r, S, f)
             G == [F EXCEPT !.doomed = @ \cup {r}]
  <1>1. E \in Engine /\ RunOK(R) /\ R \in RunState BY DEF EngineOK, RunOK
  <1>2. d \in In(R, "running") BY DEF Pairs, In
  <1>3. v \in Progress /\ v # "running" BY DEF Result, Progress
  <1>4. Settled(r, d, ok, E) = F BY <1>1 DEF Settled, SettledOf, Put, Engine, RunState
  <1> HIDE DEF v
  <1>5. /\ RunOK(S) /\ Alive(S) /\ S.token = R.token /\ S.deleting = R.deleting
        /\ S.workers = R.workers - 1 /\ R.workers \in Nat
        /\ In(S, "running") = In(R, "running") \ {d}
    BY <1>1, <1>2, <1>3, SettledRun
  <1>6. S \in RunState BY <1>5 DEF RunOK
  <1> HIDE DEF S
  <1>7. f \in SUBSET Dev BY <1>1 DEF Engine
  <1> HIDE DEF f
  <1>8. /\ F \in Engine /\ F.ready = <<>> /\ F.runs = E.runs /\ F.doomed = E.doomed
        /\ F.run[r] = S /\ \A x \in Run : x # r => F.run[x] = E.run[x]
    BY <1>1, <1>6, <1>7, RunReplaced
  <1> HIDE DEF F
  <1>9. Running(R) # 0 /\ R.workers = Running(R) BY <1>1, <1>2, RunningIs DEF RunOK
  <1>10. r \notin E.doomed BY <1>9 DEF EngineOK
  <1>11. Pairs(E) \ {<<r, d>>} = {p \in Pairs(E) : p[1] # r} \cup {<<r, e>> : e \in In(S, "running")}
    BY <1>5 DEF Pairs, In
  <1>12. /\ EngineOK(F) /\ Pairs(F) = Pairs(E) \ {<<r, d>>} /\ TokensHold(E, F)
    <2>1. r \in Range(E.runs) => Alive(F.run[r]) /\ ~F.run[r].deleting
      BY <1>5, <1>8 DEF EngineOK
    <2>2. /\ EngineOK(F) /\ TokensHold(E, F)
          /\ Pairs(F) = {p \in Pairs(E) : p[1] # r} \cup {<<r, e>> : e \in In(F.run[r], "running")}
      BY <1>5, <1>8, <1>10, <2>1, RunChanges
    <2> QED BY <1>8, <1>11, <2>2
  <1>13. CASE ~R.deleting
    <2>1. DeviceFinished(r, d, ok, E) = Pump(r, F) BY <1>4, <1>13 DEF DeviceFinished
    <2>2. Leads(F, Pump(r, F), {}) /\ Keeping(F, Pump(r, F))
      BY <1>5, <1>8, <1>12, <1>13, PumpLeads
    <2> QED BY <1>12, <2>1, <2>2, LeadsOn
  <1>14. CASE R.deleting /\ R.workers = 1
    <2>1. DeviceFinished(r, d, ok, E) = G BY <1>4, <1>14 DEF DeviceFinished
    <2>2. /\ G \in Engine /\ G.ready = <<>> /\ G.runs = E.runs /\ G.doomed = E.doomed \cup {r}
          /\ G.run = F.run
      BY <1>8 DEF Engine
    <2> HIDE DEF G
    <2>a. G.run[r] = S /\ \A x \in Run : x # r => G.run[x] = E.run[x] BY <1>8, <2>2
    <2>b. r \notin Range(E.runs) BY <1>14 DEF EngineOK
    <2>c. S.workers = 0 /\ S.deleting BY <1>5, <1>14
    <2>d. RunOK(G.run[r]) /\ Alive(G.run[r]) /\ G.run[r].deleting /\ G.run[r].workers = 0
      BY <1>5, <2>a, <2>c
    <2>e. E.run[r].token /\ ~G.run[r].token => In(E.run[r], "running") = {} BY <1>5, <2>a
    <2>3. /\ r \in Range(E.runs) => Alive(G.run[r]) /\ ~G.run[r].deleting
          /\ G.doomed \subseteq E.doomed \cup {r}
      BY <2>2, <2>b
    <2>4. /\ EngineOK(G) /\ TokensHold(E, G)
          /\ Pairs(G) = {p \in Pairs(E) : p[1] # r} \cup {<<r, e>> : e \in In(G.run[r], "running")}
      BY <2>2, <2>3, <2>a, <2>d, <2>e, RunChanges
    <2>5. Pairs(G) = Pairs(E) \ {<<r, d>>} BY <1>8, <1>11, <2>2, <2>4
    <2> QED BY <2>1, <2>2, <2>4, <2>5, LeadsNowhere
  <1>15. CASE R.deleting /\ R.workers # 1
    <2>1. DeviceFinished(r, d, ok, E) = F BY <1>4, <1>15 DEF DeviceFinished
    <2> QED BY <1>8, <1>12, <2>1, LeadsNowhere
  <1> QED BY <1>13, <1>14, <1>15

-----------------------------------------------------------------------------
(* Handlers of several runs: start, clearFinished, stopAll; deletion.      *)

\* A beginning of the numbers from one is the numbers up to its size.
LEMMA Beginning ==
  ASSUME NEW L \in Nat, NEW T \in SUBSET (1 .. L), \A i \in T : 1 .. i \subseteq T
  PROVE  Cardinality(T) \in 0 .. L /\ T = 1 .. Cardinality(T)
  <1> DEFINE U == (1 .. L + 1) \ T
  <1>1. L + 1 \in U /\ U \in SUBSET Nat OBVIOUS
  <1>2. PICK n \in U : \A m \in U : n <= m BY <1>1, LeastNat
  <1>3. n \in 1 .. L + 1 /\ n \notin T BY <1>2
  <1>4. \A m \in 1 .. n - 1 : m \in T BY <1>2, <1>3
  <1>5. \A m \in T : m \in 1 .. n - 1 BY <1>3
  <1>6. T = 1 .. n - 1 BY <1>4, <1>5
  <1>7. Cardinality(1 .. n - 1) = n - 1
    <2>1. n - 1 \in Nat BY <1>3
    <2>2. \A k \in Nat : Cardinality(1 .. k) = k BY FS_Interval
    <2> QED BY <2>1, <2>2
  <1>8. Cardinality(T) = n - 1 BY <1>6, <1>7
  <1> QED BY <1>3, <1>6, <1>8

\* What deleteWhenIdle makes of a run.
Removed(R) == [R EXCEPT !.deleting = TRUE, !.token = TRUE]

LEMMA RemovedRun ==
  ASSUME NEW R, RunOK(R)
  PROVE  LET S == Removed(R)
         IN  /\ RunOK(S) /\ S.status = R.status /\ S.deleting /\ S.token
             /\ S.workers = R.workers /\ S.progress = R.progress
  <1> DEFINE A == [R EXCEPT !.deleting = TRUE]
             S == Removed(R)
  <1>1. R \in RunState BY DEF RunOK
  <1>2. A \in RunState BY <1>1, RunTypes
  <1>3. S = [A EXCEPT !.token = TRUE] BY <1>1 DEF RunState, Removed
  <1>4. S \in RunState BY <1>2, <1>3, RunTypes
  <1>5. /\ S.status = R.status /\ S.deleting /\ S.token /\ S.targets = R.targets
        /\ S.workers = R.workers /\ S.progress = R.progress
    BY <1>1 DEF RunState, Removed
  <1> HIDE DEF S
  <1>6. In(S, "running") = In(R, "running") BY <1>5 DEF In
  <1>7. RunOK(S) BY <1>4, <1>5, <1>6, CalmRun DEF Alive
  <1> QED BY <1>5, <1>7 DEF S

\* The runs S are removed, and q is listed.
Removing(S, E, q) == DeleteWhenIdle(S, [E EXCEPT !.runs = q])

Freed(E, S, q, G) ==
  /\ G \in Engine /\ G.runs = q /\ G.ready = E.ready
  /\ \A x \in Run : RunOK(G.run[x]) /\ G.run[x].status = E.run[x].status
  /\ \A x \in Run \ S : G.run[x] = E.run[x]
  /\ G.doomed \subseteq E.doomed \cup S
  /\ \A x \in G.doomed : Alive(G.run[x]) /\ G.run[x].deleting /\ G.run[x].workers = 0
  /\ Pairs(G) = Pairs(E) /\ TokensHold(E, G)

LEMMA RemovingIs ==
  ASSUME NEW E, EngineOK(E), NEW S \in SUBSET Run, NEW q \in Seq(Run), \A x \in S : Alive(E.run[x])
  PROVE  Freed(E, S, q, Removing(S, E, q))
  <1> DEFINE run == [x \in Run |-> IF x \in S THEN Removed(E.run[x]) ELSE E.run[x]]
             D == {x \in S : E.run[x].workers = 0}
             G == Removing(S, E, q)
  <1>1. E \in Engine /\ E.run \in [Run -> RunState] /\ E.doomed \subseteq Run
    BY DEF EngineOK, Engine
  <1>2. \A x \in Run : RunOK(E.run[x]) BY DEF EngineOK
  <1>3. G = [E EXCEPT !.runs = q, !.run = run, !.doomed = @ \cup D]
    BY <1>1 DEF Removing, DeleteWhenIdle, Removed, Engine
  <1>4. \A x \in Run : run[x] = IF x \in S THEN Removed(E.run[x]) ELSE E.run[x] OBVIOUS
  <1>5. DOMAIN run = Run /\ run = [x \in Run |-> run[x]] OBVIOUS
  <1> HIDE DEF run
  <1>6. \A x \in Run : /\ RunOK(run[x]) /\ run[x].status = E.run[x].status
                       /\ run[x].workers = E.run[x].workers
                       /\ run[x].progress = E.run[x].progress
                       /\ E.run[x].token => run[x].token
                       /\ E.run[x].deleting => run[x].deleting
    BY <1>2, <1>4, RemovedRun
  <1>7. \A x \in S : run[x].deleting BY <1>2, <1>4, RemovedRun
  <1>8. run \in [Run -> RunState] BY <1>5, <1>6 DEF RunOK
  <1>9. D \subseteq S OBVIOUS
  <1>10. /\ G \in Engine /\ G.runs = q /\ G.ready = E.ready /\ G.run = run
         /\ G.doomed = E.doomed \cup D
    BY <1>1, <1>3, <1>8, <1>9 DEF Engine
  <1> HIDE DEF G
  <1>11. \A x \in D : Alive(E.run[x]) /\ E.run[x].workers = 0 /\ x \in Run OBVIOUS
  <1> HIDE DEF D
  <1>12. ASSUME NEW x \in G.doomed
         PROVE  Alive(G.run[x]) /\ G.run[x].deleting /\ G.run[x].workers = 0
    <2>1. CASE x \in D BY <1>6, <1>7, <1>9, <1>10, <1>11, <2>1 DEF Alive
    <2>2. CASE x \in E.doomed
      <3>1. x \in Run /\ Alive(E.run[x]) /\ E.run[x].deleting /\ E.run[x].workers = 0
        BY <1>1, <2>2 DEF EngineOK
      <3> QED BY <1>6, <1>10, <3>1 DEF Alive
    <2> QED BY <1>10, <2>1, <2>2
  <1>13. Pairs(G) = Pairs(E) BY <1>6, <1>10 DEF Pairs
  <1>14. TokensHold(E, G) BY <1>6, <1>10 DEF TokensHold
  <1>15. \A x \in Run \ S : G.run[x] = E.run[x] BY <1>4, <1>10
  <1>16. \A x \in Run : RunOK(G.run[x]) /\ G.run[x].status = E.run[x].status BY <1>6, <1>10
  <1>17. G.doomed \subseteq E.doomed \cup S BY <1>9, <1>10
  <1> QED BY <1>10, <1>12, <1>13, <1>14, <1>15, <1>16, <1>17 DEF G, Freed

LEMMA ClearLeads ==
  ASSUME NEW E, EngineOK(E), E.ready = <<>>
  PROVE  Leads(E, ClearFinished(E), {})
  <1> DEFINE S == {r \in Range(E.runs) : E.run[r].status \in Finished}
             q == Kept(E.runs, Range(E.runs) \ S)
             G == Removing(S, E, q)
  <1>1. E \in Engine /\ E.runs \in Seq(Run) /\ IsInjective(E.runs) BY DEF EngineOK, Engine
  <1>2. Range(E.runs) \subseteq Run BY <1>1, RangeIs
  <1>3. /\ q \in Seq(Run) /\ IsInjective(q) /\ Range(q) = Range(E.runs) \cap (Range(E.runs) \ S)
    BY <1>1, KeptIs
  <1>4. \A x \in S : Alive(E.run[x]) BY DEF EngineOK
  <1>5. ClearFinished(E) = G BY DEF ClearFinished, Removing
  <1>6. S \in SUBSET Run BY <1>2
  <1>7. Range(q) \subseteq Range(E.runs) \ S BY <1>3
  <1> HIDE DEF S, q
  <1>8. /\ G \in Engine /\ G.runs = q /\ G.ready = E.ready
        /\ \A x \in Run : RunOK(G.run[x])
        /\ \A x \in Run \ S : G.run[x] = E.run[x]
        /\ \A x \in G.doomed : Alive(G.run[x]) /\ G.run[x].deleting /\ G.run[x].workers = 0
        /\ Pairs(G) = Pairs(E) /\ TokensHold(E, G)
    <2>1. S \in SUBSET Run /\ q \in Seq(Run) /\ \A x \in S : Alive(E.run[x]) BY <1>3, <1>4, <1>6
    <2>2. Freed(E, S, q, G) BY <2>1, RemovingIs
    <2> HIDE DEF G
    <2> QED BY <2>2 DEF Freed
  <1> HIDE DEF G
  <1>9. \A x \in Range(G.runs) : Alive(G.run[x]) /\ ~G.run[x].deleting
    BY <1>2, <1>7, <1>8 DEF EngineOK
  <1>10. EngineOK(G) BY <1>3, <1>8, <1>9 DEF EngineOK
  <1>11. Pairs(G) = Pairs(E) \ {} BY <1>8
  <1> QED BY <1>5, <1>8, <1>10, <1>11, LeadsNowhere

\* What `start` keeps of the list, with the new run at its head.
LEMMA PrunedIs ==
  ASSUME NEW E, EngineOK(E), NEW r \in Run, E.run[r].status = "none"
  PROVE  \E S \in SUBSET Range(E.runs), q \in Seq(Run) :
           /\ Pruned([E EXCEPT !.runs = <<r>> \o @]) = Removing(S, E, q)
           /\ IsInjective(q) /\ Range(q) \subseteq {r} \cup (Range(E.runs) \ S)
  <1> DEFINE u == <<r>> \o E.runs
             E1 == [E EXCEPT !.runs = <<r>> \o @]
             active(i) == E.run[u[i]].status \in Active
             T == {i \in DOMAIN u : i <= MaxKept \/ \E k \in i .. Len(u) : active(k)}
             S == {u[i] : i \in DOMAIN u \ T}
             q == SubSeq(u, 1, Cardinality(T))
  <1>1. E \in Engine /\ E.runs \in Seq(Run) /\ IsInjective(E.runs) BY DEF EngineOK, Engine
  <1>2. Range(E.runs) \subseteq Run /\ \A x \in Range(E.runs) : Alive(E.run[x])
    BY <1>1, RangeIs DEF EngineOK
  <1>3. r \notin Range(E.runs) BY <1>2 DEF Alive
  <1>4. u \in Seq(Run) /\ Range(u) = {r} \cup Range(E.runs) /\ IsInjective(u)
    <2> DEFINE h == <<r>>
    <2>1. h \in Seq(Run) /\ Len(h) = 1 /\ h[1] = r OBVIOUS
    <2> HIDE DEF h
    <2>2. DOMAIN h = {1} BY <2>1
    <2>3. Range(h) = {r} /\ IsInjective(h) BY <2>1, <2>2 DEF Range, IsInjective
    <2>4. h \o E.runs \in Seq(Run) /\ Range(h \o E.runs) = {r} \cup Range(E.runs)
          /\ IsInjective(h \o E.runs)
      BY <1>1, <1>3, <2>1, <2>3, ConcatDistinct
    <2> QED BY <2>4 DEF h
  <1>5. u[1] = r /\ Len(u) \in Nat \ {0} /\ DOMAIN u = 1 .. Len(u) BY <1>1
  <1>6. Pruned(E1) = Removing(S, E, q)
    <2>1. E1 = [E EXCEPT !.runs = u] BY <1>1 DEF Engine
    <2>2. E1.runs = u /\ E1.run = E.run BY <1>1, <2>1 DEF Engine
    <2>3. [E1 EXCEPT !.runs = SubSeq(@, 1, Cardinality(T))] = [E EXCEPT !.runs = q]
      BY <1>1, <2>1 DEF Engine
    <2> HIDE DEF E1, q, u
    <2> QED BY <2>2, <2>3 DEF Pruned, Removing
  <1> HIDE DEF u
  <1>7. T \in SUBSET (1 .. Len(u)) /\ \A i \in T : 1 .. i \subseteq T
    <2>1. T \in SUBSET (1 .. Len(u)) BY <1>5
    <2>2. ASSUME NEW i \in T, NEW j \in 1 .. i PROVE j \in T
      <3>1. j \in DOMAIN u /\ i \in Nat /\ j \in Nat /\ j <= i BY <1>5
      <3>2. CASE i <= MaxKept BY <3>1, <3>2, SizeAssumption
      <3>3. CASE \E k \in i .. Len(u) : active(k)
        <4>1. PICK k \in i .. Len(u) : active(k) BY <3>3
        <4>2. k \in j .. Len(u) BY <3>1
        <4> QED BY <3>1, <4>1, <4>2
      <3> QED BY <3>2, <3>3
    <2> QED BY <2>1, <2>2
  <1>8. 1 \in T BY <1>5, SizeAssumption
  <1> HIDE DEF T
  <1>9. Cardinality(T) \in 0 .. Len(u) /\ T = 1 .. Cardinality(T) BY <1>5, <1>7, Beginning
  <1> DEFINE n == Cardinality(T)
  <1>n. n \in 0 .. Len(u) /\ T = 1 .. n BY <1>9
  <1> HIDE DEF n
  <1>10. /\ q \in Seq(Run) /\ Len(q) = n /\ \A i \in 1 .. n : q[i] = u[i]
         /\ IsInjective(q)
    BY <1>4, <1>n, FirstDistinct DEF n
  <1> HIDE DEF q
  <1>11. Range(q) = {u[i] : i \in T} BY <1>10, <1>n DEF Range
  <1>12. Range(u) = {u[i] : i \in DOMAIN u} BY DEF Range
  <1>13. \A i, j \in DOMAIN u : u[i] = u[j] => i = j BY <1>4 DEF IsInjective
  <1>14. T \subseteq DOMAIN u BY <1>5, <1>7
  <1>15. Range(q) \cap S = {} BY <1>11, <1>13, <1>14
  <1>16. Range(q) \subseteq Range(u) /\ S \subseteq Range(u) BY <1>11, <1>12, <1>14
  <1>17. r \notin S BY <1>5, <1>8, <1>13, <1>14
  <1> HIDE DEF S
  <1>18. S \in SUBSET Range(E.runs) BY <1>4, <1>16, <1>17
  <1>19. Range(q) \subseteq {r} \cup (Range(E.runs) \ S) BY <1>4, <1>15, <1>16
  <1> QED BY <1>6, <1>10, <1>18, <1>19

\* A run before it starts.
LEMMA NewRunIs ==
  /\ NewRun \in RunState /\ NewRun.status = "none" /\ NewRun.targets = <<>>
  /\ NewRun.workers = 0 /\ ~NewRun.deleting /\ In(NewRun, "running") = {}
  <1> DEFINE f == [d \in Dev |-> "none"]
             q == <<>>
  <1>1. f \in [Dev -> Progress] /\ \A d \in Dev : f[d] # "running" BY DEF Progress
  <1>2. q \in Seq(Dev) OBVIOUS
  <1>3. NewRun = [status |-> "none", targets |-> q, width |-> 0,
                  progress |-> f, token |-> FALSE,
                  stopping |-> FALSE, paused |-> FALSE, workers |-> 0,
                  ended |-> FALSE, deleting |-> FALSE, owed |-> FALSE]
    BY DEF NewRun
  <1> HIDE DEF f, q
  <1>4. NewRun \in RunState BY <1>1, <1>2, <1>3 DEF RunState
  <1>5. /\ NewRun.status = "none" /\ NewRun.targets = q /\ NewRun.workers = 0
        /\ ~NewRun.deleting /\ NewRun.progress = f
    BY <1>3
  <1>6. In(NewRun, "running") = {} BY <1>1, <1>5 DEF In
  <1> QED BY <1>4, <1>5, <1>6 DEF q

\* A run as it begins.
LEMMA BegunRun ==
  ASSUME NEW ts \in TargetLists, NEW w \in Widths, NEW N,
         N = [NewRun EXCEPT !.status = "Running", !.targets = ts, !.width = w, !.owed = TRUE,
                            !.progress = [d \in Dev |-> IF d \in Range(ts) THEN "queued" ELSE "none"]]
  PROVE  RunOK(N) /\ Alive(N) /\ ~N.deleting /\ In(N, "running") = {} /\ Range(ts) \subseteq Dev
  <1>1. ts \in Seq(Dev) /\ IsInjective(ts) BY TargetAssumption
  <1>2. w \in Nat BY SizeAssumption
  <1> DEFINE f == [d \in Dev |-> IF d \in Range(ts) THEN "queued" ELSE "none"]
  <1>3. f \in [Dev -> Progress] /\ \A d \in Dev : f[d] # "running" BY DEF Progress
  <1> HIDE DEF f
  <1>4. N = [NewRun EXCEPT !.status = "Running", !.targets = ts, !.width = w, !.owed = TRUE,
                           !.progress = f]
    BY DEF f
  <1>5. /\ N.status = "Running" /\ N.targets = ts /\ N.progress = f /\ N.workers = 0 /\ ~N.deleting
        /\ N \in RunState
    <2>1. ts \in Seq(Dev) /\ w \in Nat /\ f \in [Dev -> Progress] BY <1>1, <1>2, <1>3
    <2> HIDE DEF NewRun
    <2>2. NewRun \in RunState /\ NewRun.workers = 0 /\ ~NewRun.deleting BY NewRunIs
    <2>3. N \in RunState BY <1>4, <2>1, <2>2 DEF RunState, Active
    <2>4. /\ N.status = "Running" /\ N.targets = ts /\ N.progress = f /\ N.workers = 0
          /\ ~N.deleting
      BY <1>4, <2>2 DEF RunState
    <2> QED BY <2>3, <2>4
  <1>6. In(N, "running") = {} BY <1>3, <1>5 DEF In
  <1>7. Running(N) = 0 BY <1>6, RunningIs
  <1>8. Range(ts) \subseteq Dev BY <1>1, RangeIs
  <1> QED BY <1>1, <1>5, <1>6, <1>7, <1>8 DEF RunOK, Alive

LEMMA StartLeads ==
  ASSUME NEW E, EngineOK(E), E.ready = <<>>, NEW r \in Run, E.run[r].status = "none",
         NEW ts \in TargetLists, NEW w \in Widths
  PROVE  Leads(E, StartRun(r, ts, w, E), {})
  <1> DEFINE N == [NewRun EXCEPT
                     !.status = "Running", !.targets = ts, !.width = w, !.owed = TRUE,
                     !.progress = [d \in Dev |-> IF d \in Range(ts) THEN "queued" ELSE "none"]]
             P == Pruned([E EXCEPT !.runs = <<r>> \o @])
             f == P.flagged \cup Range(ts)
             B == Put(P, r, N, f)
  <1>1. PICK S \in SUBSET Range(E.runs), q \in Seq(Run) :
           P = Removing(S, E, q) /\ IsInjective(q) /\ Range(q) \subseteq {r} \cup (Range(E.runs) \ S)
    BY PrunedIs
  <1>2. E.runs \in Seq(Run) /\ Range(E.runs) \subseteq Run BY RangeIs DEF EngineOK, Engine
  <1>3. \A x \in S : Alive(E.run[x]) BY DEF EngineOK
  <1>4. S \in SUBSET Run /\ r \notin S BY <1>2, <1>3 DEF Alive
  <1>5. StartRun(r, ts, w, E) = Pump(r, B) BY DEF StartRun, Begin, Put
  <1>6. RunOK(N) /\ Alive(N) /\ ~N.deleting /\ In(N, "running") = {} /\ Range(ts) \subseteq Dev
    BY BegunRun
  <1>7. N \in RunState BY <1>6 DEF RunOK
  <1> HIDE DEF N, P
  <1>8. /\ P \in Engine /\ P.runs = q /\ P.ready = E.ready
        /\ \A x \in Run : RunOK(P.run[x])
        /\ \A x \in Run \ S : P.run[x] = E.run[x]
        /\ P.doomed \subseteq E.doomed \cup S
        /\ \A x \in P.doomed : Alive(P.run[x]) /\ P.run[x].deleting /\ P.run[x].workers = 0
        /\ Pairs(P) = Pairs(E) /\ TokensHold(E, P)
    <2>1. S \in SUBSET Run /\ q \in Seq(Run) /\ \A x \in S : Alive(E.run[x]) BY <1>3, <1>4
    <2>2. Freed(E, S, q, Removing(S, E, q)) BY <2>1, RemovingIs
    <2>3. Freed(E, S, q, P) BY <1>1, <2>2
    <2> QED BY <2>3 DEF Freed
  <1>9. f \in SUBSET Dev BY <1>6, <1>8 DEF Engine
  <1> HIDE DEF f
  <1>10. /\ B \in Engine /\ B.ready = P.ready /\ B.runs = P.runs /\ B.doomed = P.doomed
         /\ B.run[r] = N /\ \A x \in Run : x # r => B.run[x] = P.run[x]
    BY <1>7, <1>8, <1>9, RunReplaced
  <1> HIDE DEF B
  <1>11. r \notin E.doomed /\ r \notin B.doomed
    <2>1. r \notin E.doomed BY DEF EngineOK, Alive
    <2> QED BY <1>4, <1>8, <1>10, <2>1
  <1>12. In(E.run[r], "running") = {} BY DEF EngineOK, RunOK, Alive
  <1>13. \A x \in Run : RunOK(B.run[x]) BY <1>6, <1>8, <1>10
  <1>14. \A x \in Range(B.runs) : Alive(B.run[x]) /\ ~B.run[x].deleting
    <2> TAKE x \in Range(B.runs)
    <2>1. CASE x = r BY <1>6, <1>10, <2>1
    <2>2. CASE x # r
      <3>1. x \in Range(E.runs) /\ x \in Run \ S BY <1>1, <1>2, <1>8, <1>10, <2>2
      <3>2. B.run[x] = E.run[x] BY <1>8, <1>10, <2>2, <3>1
      <3> QED BY <3>1, <3>2 DEF EngineOK
    <2> QED BY <2>1, <2>2
  <1>15. \A x \in B.doomed : Alive(B.run[x]) /\ B.run[x].deleting /\ B.run[x].workers = 0
    <2>1. B.doomed \subseteq Run BY <1>10 DEF Engine
    <2> QED BY <1>8, <1>10, <1>11, <2>1
  <1>16. EngineOK(B) BY <1>1, <1>8, <1>10, <1>13, <1>14, <1>15 DEF EngineOK
  <1>17. Pairs(B) = Pairs(E) \ {}
    <2>1. \A p \in Run \X Dev : B.run[p[1]].progress[p[2]] = "running"
                                  <=> P.run[p[1]].progress[p[2]] = "running"
      <3> TAKE p \in Run \X Dev
      <3>1. CASE p[1] = r
        <4>1. P.run[r] = E.run[r] BY <1>4, <1>8
        <4> QED BY <1>6, <1>10, <1>12, <3>1, <4>1 DEF In
      <3>2. CASE p[1] # r BY <1>10, <3>2
      <3> QED BY <3>1, <3>2
    <2>2. Pairs(B) = Pairs(P) BY <2>1 DEF Pairs
    <2> QED BY <1>8, <2>2
  <1>18. TokensHold(E, B) BY <1>8, <1>10, <1>12 DEF TokensHold
  <1>19. Leads(B, Pump(r, B), {}) /\ Keeping(B, Pump(r, B))
    BY <1>6, <1>8, <1>10, <1>16, PumpLeads
  <1> QED BY <1>5, <1>17, <1>18, <1>19, LeadsOn

LEMMA StoppingAll ==
  ASSUME NEW E, EngineOK(E)
  PROVE  LET F == StopAll(E)
         IN  EngineOK(F) /\ F.ready = E.ready /\ Pairs(F) = Pairs(E) /\ TokensHold(E, F)
  <1> DEFINE run == [r \in Run |-> IF r \in Range(E.runs) THEN Stopped(E.run[r]) ELSE E.run[r]]
             F == StopAll(E)
  <1>1. E \in Engine /\ \A r \in Run : RunOK(E.run[r]) /\ E.run[r] \in RunState
    BY DEF EngineOK, RunOK
  <1>2. F = [E EXCEPT !.run = run] BY <1>1 DEF StopAll, Engine
  <1>3. run = [r \in Run |-> run[r]] OBVIOUS
  <1>4. \A r \in Run : run[r] = E.run[r] \/ run[r] = Stopped(E.run[r]) OBVIOUS
  <1> HIDE DEF run
  <1>5. \A r \in Run : /\ run[r] \in RunState /\ run[r].targets = E.run[r].targets
                       /\ run[r].workers = E.run[r].workers
                       /\ run[r].deleting = E.run[r].deleting
                       /\ In(run[r], "running") = In(E.run[r], "running")
                       /\ Alive(run[r]) <=> Alive(E.run[r])
                       /\ E.run[r].token => run[r].token
    BY <1>1, <1>4, StoppedIsCalm DEF Calmly
  <1>6. \A r \in Run : RunOK(run[r]) BY <1>1, <1>5, CalmRun
  <1>7. run \in [Run -> RunState] BY <1>3, <1>5
  <1>8. /\ F \in Engine /\ F.ready = E.ready /\ F.runs = E.runs /\ F.doomed = E.doomed
        /\ F.run = run
    BY <1>1, <1>2, <1>7 DEF Engine
  <1> HIDE DEF F
  <1>9. Range(E.runs) \subseteq Run /\ E.doomed \subseteq Run BY <1>1, RangeIs DEF Engine
  <1>10. \A r \in Range(F.runs) : Alive(F.run[r]) /\ ~F.run[r].deleting
    BY <1>5, <1>8, <1>9 DEF EngineOK
  <1>11. \A r \in F.doomed : Alive(F.run[r]) /\ F.run[r].deleting /\ F.run[r].workers = 0
    BY <1>5, <1>8, <1>9 DEF EngineOK
  <1>12. IsInjective(F.runs) BY <1>8 DEF EngineOK
  <1>13. EngineOK(F) BY <1>6, <1>8, <1>10, <1>11, <1>12 DEF EngineOK
  <1>14. \A r \in Run, d \in Dev : F.run[r].progress[d] = "running"
                                     <=> E.run[r].progress[d] = "running"
    <2> TAKE r \in Run, d \in Dev
    <2>1. In(F.run[r], "running") = In(E.run[r], "running") BY <1>5, <1>8
    <2> QED BY <2>1 DEF In
  <1>15. Pairs(F) = Pairs(E) BY <1>14 DEF Pairs
  <1>16. TokensHold(E, F) BY <1>5, <1>8 DEF TokensHold
  <1> QED BY <1>8, <1>13, <1>15, <1>16 DEF F

\* The deletion of a run, at the end of its handler.
Without(E, r) == [E EXCEPT !.doomed = @ \ {r}, !.run[r] = [NewRun EXCEPT !.status = "gone"]]

LEMMA DeleteLeads ==
  ASSUME NEW E, EngineOK(E), E.ready = <<>>, NEW r \in E.doomed
  PROVE  Leads(E, Without(E, r), {})
  <1> DEFINE N == [NewRun EXCEPT !.status = "gone"]
             run == [E.run EXCEPT ![r] = N]
             D == E.doomed \ {r}
             F == Without(E, r)
  <1>1. E \in Engine /\ r \in Run /\ RunOK(E.run[r]) BY DEF EngineOK, Engine
  <1>2. E.run[r].deleting /\ E.run[r].workers = 0 BY DEF EngineOK
  <1>3. In(E.run[r], "running") = {} BY <1>1, <1>2, RunningIs DEF RunOK
  <1>4. N \in RunState /\ N.workers = 0 /\ N.targets = <<>> /\ In(N, "running") = {}
    <2> DEFINE A == [NewRun EXCEPT !.status = "gone"]
    <2>1. /\ A \in RunState /\ A.workers = 0 /\ A.targets = <<>> /\ A.progress = NewRun.progress
      BY NewRunIs, RunTypes, ZenonT(60) DEF RunState
    <2> QED BY <2>1, NewRunIs DEF In
  <1>5. RunOK(N)
    <2>1. Running(N) = 0 BY <1>4, RunningIs
    <2>2. IsInjective(<<>>) BY DEF IsInjective
    <2> QED BY <1>4, <2>1, <2>2 DEF RunOK
  <1>6. F = [E EXCEPT !.run = run, !.doomed = D] BY <1>1 DEF Without, Engine
  <1> HIDE DEF N
  <1>7. run \in [Run -> RunState] /\ run[r] = N /\ \A x \in Run : x # r => run[x] = E.run[x]
    BY <1>1, <1>4 DEF Engine
  <1> HIDE DEF run
  <1>8. /\ F \in Engine /\ F.ready = <<>> /\ F.runs = E.runs /\ F.doomed = E.doomed \ {r}
        /\ F.run[r] = N /\ \A x \in Run : x # r => F.run[x] = E.run[x]
    BY <1>1, <1>6, <1>7 DEF Engine
  <1> HIDE DEF F
  <1>9. r \notin Range(E.runs) BY <1>2 DEF EngineOK
  <1>10. /\ EngineOK(F) /\ TokensHold(E, F)
         /\ Pairs(F) = {p \in Pairs(E) : p[1] # r} \cup {<<r, d>> : d \in In(F.run[r], "running")}
    BY <1>1, <1>3, <1>5, <1>8, <1>9, RunChanges
  <1>11. Pairs(F) = Pairs(E) \ {} BY <1>3, <1>4, <1>8, <1>10 DEF Pairs, In
  <1>12. Leads(E, F, {}) BY <1>8, <1>10, <1>11, LeadsNowhere
  <1> QED BY <1>12 DEF F

-----------------------------------------------------------------------------
(* The steps.                                                              *)

\* A handler leaves the engine with nothing ready.
LEMMA HandedOver ==
  ASSUME NEW F, EngineOK(F), NEW H, H = [F EXCEPT !.ready = <<>>]
  PROVE  EngineOK(H) /\ H.ready = <<>> /\ Pairs(H) = Pairs(F) /\ H.run = F.run
  <1>1. F \in Engine BY DEF EngineOK
  <1>2. /\ H \in Engine /\ H.ready = <<>> /\ H.run = F.run /\ H.runs = F.runs
        /\ H.doomed = F.doomed
    <2>1. <<>> \in Seq(Run \X Dev) OBVIOUS
    <2> DEFINE q == <<>>
    <2> HIDE DEF q
    <2>2. H = [F EXCEPT !.ready = q] /\ q \in Seq(Run \X Dev) BY <2>1 DEF q
    <2>3. /\ H \in Engine /\ H.ready = q /\ H.run = F.run /\ H.runs = F.runs
          /\ H.doomed = F.doomed
      BY <1>1, <2>2 DEF Engine
    <2> QED BY <2>3 DEF q
  <1>3. EngineOK(H) BY <1>2 DEF EngineOK
  <1>4. Pairs(H) = Pairs(F) BY <1>2 DEF Pairs
  <1> QED BY <1>2, <1>3, <1>4

\* A handler: the reports whose pairs it ends are taken out of the inbox.
LEMMA Handled ==
  ASSUME AutomationInv, NEW F, NEW G, Leads(engine, F, G), Handle(F),
         inbox' = {m \in inbox : Key(m) \notin G}, G \subseteq {Key(m) : m \in inbox},
         commands' \in 0 .. CommandBound
  PROVE  AutomationInv' /\ TokensHold(engine, engine')
  <1> DEFINE B == {Key(b) : b \in busy}
             M == {Key(m) : m \in inbox}
             q == F.ready
  <1>1. /\ engine' = [F EXCEPT !.ready = <<>>] /\ lane' = lane \o q /\ ~down
        /\ busy' = busy /\ down' = down
    BY DEF Handle
  <1>2. /\ EngineOK(engine') /\ engine'.ready = <<>> /\ Pairs(engine') = Pairs(F)
        /\ engine'.run = F.run
    BY <1>1, HandedOver DEF Leads
  <1>3. /\ lane \in Seq(Run \X Dev) /\ q \in Seq(Run \X Dev) /\ IsInjective(lane)
        /\ IsInjective(q)
    BY DEF AutomationInv, EngineTypeOK, Leads, EngineOK, Engine, WorksOnce
  <1>4. /\ Range(q) \cap (Pairs(engine) \ G) = {}
        /\ Pairs(F) = (Pairs(engine) \ G) \cup Range(q) /\ TokensHold(engine, F)
    BY DEF Leads
  <1>5. Pairs(engine) = Range(lane) \cup B \cup M BY <1>1 DEF AutomationInv, AtWork
  <1>6. Range(lane) \cap B = {} /\ Range(lane) \cap M = {} /\ B \cap M = {}
    BY DEF AutomationInv, WorksOnce
  <1>7. {Key(m) : m \in inbox'} = M \ G OBVIOUS
  <1>8. inbox' \subseteq inbox OBVIOUS
  <1> HIDE DEF q
  <1>9. Range(lane) \cap Range(q) = {} BY <1>4, <1>5, <1>6
  <1>10. lane' \in Seq(Run \X Dev) /\ Range(lane') = Range(lane) \cup Range(q) /\ IsInjective(lane')
    BY <1>1, <1>3, <1>9, ConcatDistinct
  <1>11. B \cap Range(q) = {} /\ (M \ G) \cap Range(q) = {} BY <1>4, <1>5, <1>6
  <1>12. WorksOnce'
    <2>1. \A b, c \in busy : Key(b) = Key(c) => b = c BY DEF AutomationInv, WorksOnce
    <2>2. \A m, n \in inbox' : Key(m) = Key(n) => m = n BY <1>8 DEF AutomationInv, WorksOnce
    <2>3. \A b \in busy : Key(b) \notin Range(lane') BY <1>6, <1>10, <1>11
    <2>4. \A m \in inbox' : Key(m) \notin Range(lane') BY <1>6, <1>7, <1>8, <1>10, <1>11
    <2>5. \A b \in busy, m \in inbox' : Key(b) # Key(m) BY <1>6, <1>8
    <2> QED BY <1>1, <1>10, <2>1, <2>2, <2>3, <2>4, <2>5 DEF WorksOnce, Key
  <1>13. AtWork' = Pairs(engine')
    <2>1. AtWork' = Range(lane') \cup B \cup (M \ G) BY <1>1, <1>7 DEF AtWork, Key
    <2> QED BY <1>2, <1>4, <1>5, <1>6, <1>10, <2>1
  <1>14. EngineTypeOK'
    <2>1. engine' \in Engine BY <1>2 DEF EngineOK
    <2> QED BY <1>1, <1>8, <1>10, <2>1 DEF AutomationInv, EngineTypeOK
  <1>15. AutomationInv' BY <1>2, <1>12, <1>13, <1>14 DEF AutomationInv
  <1>16. TokensHold(engine, engine') BY <1>2, <1>4 DEF TokensHold
  <1> QED BY <1>15, <1>16

\* A handler that takes no report.
LEMMA HandledQuietly ==
  ASSUME AutomationInv, NEW F, Leads(engine, F, {}), Handle(F), inbox' = inbox,
         commands' \in 0 .. CommandBound
  PROVE  AutomationInv' /\ TokensHold(engine, engine')
  <1>1. inbox' = {m \in inbox : Key(m) \notin {}} OBVIOUS
  <1> QED BY <1>1, Handled

LEMMA CommandStep ==
  ASSUME AutomationInv, Command
  PROVE  AutomationInv' /\ TokensHold(engine, engine')
  <1>1. EngineOK(engine) /\ engine.ready = <<>> BY DEF AutomationInv
  <1>2. commands' \in 0 .. CommandBound /\ inbox' = inbox
    BY SizeAssumption DEF Command, AutomationInv, EngineTypeOK
  <1>3. \A r \in Run : Listed(r) => Alive(engine.run[r]) /\ ~engine.run[r].deleting
    BY <1>1 DEF Listed, EngineOK
  <1>4. CASE \E r \in Run : /\ Listed(r) /\ engine.run[r].status \in Active
                            /\ \/ Handle(Pause(r, engine))
                               \/ Handle(Resume(r, engine))
                               \/ Handle(Stop(r, engine))
    <2>1. PICK r \in Run : /\ Listed(r)
                           /\ \/ Handle(Pause(r, engine))
                              \/ Handle(Resume(r, engine))
                              \/ Handle(Stop(r, engine))
      BY <1>4
    <2>2. /\ Leads(engine, Pause(r, engine), {}) /\ Leads(engine, Resume(r, engine), {})
          /\ Leads(engine, Stop(r, engine), {})
      BY <1>1, <1>3, <2>1, PauseLeads, ResumeLeads, StopLeads
    <2> QED BY <1>2, <2>1, <2>2, HandledQuietly
  <1>5. CASE \E r \in Run : /\ Listed(r) /\ engine.run[r].status \in Finished
                            /\ Handle(RetryFailed(r, engine))
    <2>1. PICK r \in Run : Listed(r) /\ Handle(RetryFailed(r, engine)) BY <1>5
    <2>2. Leads(engine, RetryFailed(r, engine), {}) BY <1>1, <1>3, <2>1, RetryLeads
    <2> QED BY <1>2, <2>1, <2>2, HandledQuietly
  <1>6. CASE Handle(ClearFinished(engine))
    <2>1. Leads(engine, ClearFinished(engine), {}) BY <1>1, ClearLeads
    <2> QED BY <1>2, <1>6, <2>1, HandledQuietly
  <1> QED BY <1>4, <1>5, <1>6 DEF Command

LEMMA ReportStep ==
  ASSUME AutomationInv, NEW m \in inbox, Report(m)
  PROVE  AutomationInv' /\ TokensHold(engine, engine')
  <1> DEFINE G == {<<m.run, m.dev>>}
             F == DeviceFinished(m.run, m.dev, m.ok, engine)
  <1>1. EngineOK(engine) /\ engine.ready = <<>> BY DEF AutomationInv
  <1>2. m.run \in Run /\ m.dev \in Dev /\ m.ok \in BOOLEAN BY DEF AutomationInv, EngineTypeOK
  <1>3. Key(m) \in Pairs(engine) BY DEF AutomationInv, AtWork
  <1>4. Leads(engine, F, G) BY <1>1, <1>2, <1>3, FinishedLeads DEF Key
  <1>5. Handle(F) /\ commands' \in 0 .. CommandBound
    BY DEF Report, AutomationInv, EngineTypeOK
  <1> HIDE DEF F
  <1>6. inbox' = {n \in inbox : Key(n) \notin G} /\ G \subseteq {Key(n) : n \in inbox}
    <2>1. G = {Key(m)} BY DEF Key
    <2>2. \A n \in inbox : Key(n) = Key(m) => n = m BY DEF AutomationInv, WorksOnce
    <2>3. inbox' = inbox \ {m} BY DEF Report
    <2> HIDE DEF G
    <2> QED BY <2>1, <2>2, <2>3
  <1> HIDE DEF G
  <1> QED BY <1>4, <1>5, <1>6, Handled

LEMMA DeleteStep ==
  ASSUME AutomationInv, NEW r \in Run, Delete(r)
  PROVE  AutomationInv' /\ TokensHold(engine, engine')
  <1>1. EngineOK(engine) /\ engine.ready = <<>> BY DEF AutomationInv
  <1>2. r \in engine.doomed /\ Handle(Without(engine, r)) /\ inbox' = inbox
        /\ commands' \in 0 .. CommandBound
    BY DEF Delete, Without, AutomationInv, EngineTypeOK
  <1>3. Leads(engine, Without(engine, r), {}) BY <1>1, <1>2, DeleteLeads
  <1> QED BY <1>2, <1>3, HandledQuietly

LEMMA StartStep ==
  ASSUME AutomationInv, NEW r \in Run, NEW ts \in TargetLists, NEW w \in Widths, Start(r, ts, w)
  PROVE  AutomationInv' /\ TokensHold(engine, engine')
  <1>1. EngineOK(engine) /\ engine.ready = <<>> BY DEF AutomationInv
  <1>2. /\ engine.run[r].status = "none" /\ Handle(StartRun(r, ts, w, engine)) /\ inbox' = inbox
        /\ commands' \in 0 .. CommandBound
    BY DEF Start, AutomationInv, EngineTypeOK
  <1>3. Leads(engine, StartRun(r, ts, w, engine), {}) BY <1>1, <1>2, StartLeads
  <1> QED BY <1>2, <1>3, HandledQuietly

\* The shutdown empties the lane, and leaves the devices of its workers in progress.
LEMMA ShutdownStep ==
  ASSUME AutomationInv, Shutdown
  PROVE  AutomationInv' /\ TokensHold(engine, engine')
  <1>1. EngineOK(engine) /\ engine.ready = <<>> BY DEF AutomationInv
  <1>2. /\ EngineOK(engine') /\ engine'.ready = <<>> /\ Pairs(engine') = Pairs(engine)
        /\ TokensHold(engine, engine')
    BY <1>1, StoppingAll DEF Shutdown
  <1>3. lane' = <<>> /\ Range(lane') = {} /\ IsInjective(lane') BY DEF Shutdown, Range, IsInjective
  <1>4. busy' = busy /\ inbox' = inbox /\ commands' = commands /\ down' BY DEF Shutdown
  <1>5. WorksOnce' BY <1>3, <1>4 DEF AutomationInv, WorksOnce, Key
  <1>6. AtWork' \subseteq Pairs(engine') BY <1>2, <1>3, <1>4 DEF AutomationInv, AtWork, Key
  <1>7. EngineTypeOK' BY <1>2, <1>3, <1>4 DEF AutomationInv, EngineTypeOK, EngineOK, Shutdown
  <1> QED BY <1>2, <1>4, <1>5, <1>6, <1>7 DEF AutomationInv

-----------------------------------------------------------------------------
(* The steps of the workers, which the engine does not see.                *)

\* What a worker does next, whoever holds which pair afterwards.
LEMMA WorkerMoves ==
  ASSUME AutomationInv, WorksOnce', AtWork' = AtWork, engine' = engine, down' = down,
         EngineTypeOK'
  PROVE  AutomationInv' /\ TokensHold(engine, engine')
  <1>1. EngineOK(engine') /\ engine'.ready = <<>> BY DEF AutomationInv
  <1>2. Pairs(engine') = Pairs(engine) BY DEF Pairs
  <1>3. TokensHold(engine, engine') BY DEF TokensHold
  <1> QED BY <1>1, <1>2, <1>3 DEF AutomationInv

LEMMA PickUpStep ==
  ASSUME AutomationInv, PickUp
  PROVE  AutomationInv' /\ TokensHold(engine, engine')
  <1> DEFINE k == Worker(Head(lane)[1], Head(lane)[2], "check")
  <1>1. lane \in Seq(Run \X Dev) /\ lane # <<>> /\ IsInjective(lane)
    BY DEF AutomationInv, EngineTypeOK, WorksOnce, PickUp
  <1>2. /\ Tail(lane) \in Seq(Run \X Dev) /\ Head(lane) \in Run \X Dev
        /\ Range(lane) = {Head(lane)} \cup Range(Tail(lane))
        /\ IsInjective(Tail(lane)) /\ Head(lane) \notin Range(Tail(lane))
    BY <1>1, TailDistinct
  <1>3. k \in [run : Run, dev : Dev, stage : Stages] /\ Key(k) = Head(lane)
    BY <1>2 DEF Worker, Key, Stages
  <1>4. /\ busy' = busy \cup {k} /\ lane' = Tail(lane) /\ engine' = engine /\ inbox' = inbox
        /\ down' = down /\ commands' = commands
    BY DEF PickUp
  <1> HIDE DEF k
  <1>5. WorksOnce'
    <2>1. \A b \in busy : Key(b) # Key(k) BY <1>2, <1>3 DEF AutomationInv, WorksOnce
    <2>2. \A m \in inbox : Key(m) # Key(k) BY <1>2, <1>3 DEF AutomationInv, WorksOnce
    <2>3. \A b, c \in busy \cup {k} : Key(b) = Key(c) => b = c
      BY <2>1 DEF AutomationInv, WorksOnce
    <2>4. \A b \in busy \cup {k} : Key(b) \notin Range(Tail(lane))
      BY <1>2, <1>3 DEF AutomationInv, WorksOnce
    <2>5. \A m \in inbox : Key(m) \notin Range(Tail(lane)) BY <1>2 DEF AutomationInv, WorksOnce
    <2>6. \A b \in busy \cup {k}, m \in inbox : Key(b) # Key(m)
      BY <2>2 DEF AutomationInv, WorksOnce
    <2>7. \A m, n \in inbox : Key(m) = Key(n) => m = n BY DEF AutomationInv, WorksOnce
    <2> QED BY <1>2, <1>4, <2>3, <2>4, <2>5, <2>6, <2>7 DEF WorksOnce, Key
  <1>6. AtWork' = AtWork BY <1>2, <1>3, <1>4 DEF AtWork, Key
  <1>7. EngineTypeOK' BY <1>2, <1>3, <1>4 DEF AutomationInv, EngineTypeOK
  <1> QED BY <1>4, <1>5, <1>6, <1>7, WorkerMoves

LEMMA GoesStep ==
  ASSUME AutomationInv, NEW k \in busy, NEW s \in Stages, Goes(k, s)
  PROVE  AutomationInv' /\ TokensHold(engine, engine')
  <1> DEFINE c == [k EXCEPT !.stage = s]
  <1>1. k \in [run : Run, dev : Dev, stage : Stages] BY DEF AutomationInv, EngineTypeOK
  <1>2. c \in [run : Run, dev : Dev, stage : Stages] /\ Key(c) = Key(k) BY <1>1 DEF Key
  <1>3. /\ busy' = (busy \ {k}) \cup {c} /\ lane' = lane /\ engine' = engine /\ inbox' = inbox
        /\ down' = down /\ commands' = commands
    BY DEF Goes
  <1> HIDE DEF c
  <1>4. \A b \in busy \ {k} : Key(b) # Key(c) BY <1>2 DEF AutomationInv, WorksOnce
  <1>5. {Key(b) : b \in busy'} = {Key(b) : b \in busy} BY <1>2, <1>3
  <1>6. WorksOnce'
    <2>1. \A a, b \in busy' : Key(a) = Key(b) => a = b
      BY <1>3, <1>4 DEF AutomationInv, WorksOnce
    <2>2. \A b \in busy' : Key(b) \notin Range(lane) BY <1>2, <1>3 DEF AutomationInv, WorksOnce
    <2>3. \A b \in busy', m \in inbox : Key(b) # Key(m) BY <1>2, <1>3 DEF AutomationInv, WorksOnce
    <2> QED BY <1>3, <2>1, <2>2, <2>3 DEF AutomationInv, WorksOnce, Key
  <1>7. AtWork' = AtWork BY <1>3, <1>5 DEF AtWork, Key
  <1>8. EngineTypeOK' BY <1>2, <1>3 DEF AutomationInv, EngineTypeOK
  <1> QED BY <1>3, <1>6, <1>7, <1>8, WorkerMoves

LEMMA PostsStep ==
  ASSUME AutomationInv, NEW k \in busy, NEW ok \in BOOLEAN, Posts(k, ok)
  PROVE  AutomationInv' /\ TokensHold(engine, engine')
  <1> DEFINE n == [run |-> k.run, dev |-> k.dev, ok |-> ok]
  <1>1. k \in [run : Run, dev : Dev, stage : Stages] BY DEF AutomationInv, EngineTypeOK
  <1>2. n \in [run : Run, dev : Dev, ok : BOOLEAN] /\ Key(n) = Key(k) BY <1>1 DEF Key
  <1>3. /\ busy' = busy \ {k} /\ inbox' = inbox \cup {n} /\ lane' = lane /\ engine' = engine
        /\ down' = down /\ commands' = commands
    BY DEF Posts
  <1> HIDE DEF n
  <1>4. \A b \in busy \ {k} : Key(b) # Key(n) BY <1>2 DEF AutomationInv, WorksOnce
  <1>5. \A m \in inbox : Key(m) # Key(n) BY <1>2 DEF AutomationInv, WorksOnce
  <1>6. WorksOnce'
    <2>1. \A a, b \in busy' : Key(a) = Key(b) => a = b BY <1>3 DEF AutomationInv, WorksOnce
    <2>2. \A a, b \in inbox' : Key(a) = Key(b) => a = b
      BY <1>3, <1>5 DEF AutomationInv, WorksOnce
    <2>3. \A b \in busy' : Key(b) \notin Range(lane) BY <1>3 DEF AutomationInv, WorksOnce
    <2>4. \A m \in inbox' : Key(m) \notin Range(lane) BY <1>2, <1>3 DEF AutomationInv, WorksOnce
    <2>5. \A b \in busy', m \in inbox' : Key(b) # Key(m)
      BY <1>3, <1>4 DEF AutomationInv, WorksOnce
    <2> QED BY <1>3, <2>1, <2>2, <2>3, <2>4, <2>5 DEF AutomationInv, WorksOnce, Key
  <1>7. AtWork' = AtWork BY <1>2, <1>3 DEF AtWork, Key
  <1>8. EngineTypeOK' BY <1>2, <1>3 DEF AutomationInv, EngineTypeOK
  <1> QED BY <1>3, <1>6, <1>7, <1>8, WorkerMoves

-----------------------------------------------------------------------------
(* The invariant, and what it gives.                                       *)

LEMMA InitHolds == Init => AutomationInv
  <1> SUFFICES ASSUME Init PROVE AutomationInv
    OBVIOUS
  <1>1. NewRun \in RunState /\ In(NewRun, "running") = {} /\ NewRun.workers = 0
        /\ NewRun.targets = <<>>
    BY NewRunIs
  <1>2. Range(<<>>) = {} /\ IsInjective(<<>>) BY DEF Range, IsInjective
  <1>3. RunOK(NewRun)
    <2>1. Running(NewRun) = 0 BY <1>1, RunningIs
    <2> QED BY <1>1, <1>2, <2>1 DEF RunOK
  <1>4. /\ engine.run = [r \in Run |-> NewRun] /\ engine.runs = <<>> /\ engine.ready = <<>>
        /\ engine.doomed = {} /\ engine \in Engine
    BY <1>1 DEF Init, Engine
  <1>5. EngineOK(engine) BY <1>2, <1>3, <1>4 DEF EngineOK
  <1>6. Pairs(engine) = {} BY <1>1, <1>4 DEF Pairs, In
  <1>7. WorksOnce /\ AtWork = {} BY <1>2 DEF Init, WorksOnce, AtWork
  <1>8. EngineTypeOK
    <2>1. lane \in Seq(Run \X Dev) /\ commands \in 0 .. CommandBound BY SizeAssumption DEF Init
    <2>2. busy = {} /\ inbox = {} /\ down \in BOOLEAN BY DEF Init
    <2> QED BY <1>4, <2>1, <2>2 DEF EngineTypeOK
  <1> QED BY <1>4, <1>5, <1>6, <1>7, <1>8 DEF AutomationInv

LEMMA WorkersStep ==
  ASSUME AutomationInv, WorkerStep
  PROVE  AutomationInv' /\ TokensHold(engine, engine')
  <1>1. CASE PickUp BY <1>1, PickUpStep
  <1>2. ASSUME NEW k \in busy, Looks(k) PROVE AutomationInv' /\ TokensHold(engine, engine')
    <2>1. Posts(k, FALSE) \/ Goes(k, "hold") BY <1>2 DEF Looks
    <2> QED BY <2>1, PostsStep, GoesStep DEF Stages
  <1>3. ASSUME NEW k \in busy, Resumes(k) PROVE AutomationInv' /\ TokensHold(engine, engine')
    BY <1>3, GoesStep DEF Resumes, Stages
  <1>4. ASSUME NEW k \in busy, GoesOn(k) PROVE AutomationInv' /\ TokensHold(engine, engine')
    BY <1>4, GoesStep DEF GoesOn, Stages
  <1>5. ASSUME NEW k \in busy, Ends(k) PROVE AutomationInv' /\ TokensHold(engine, engine')
    BY <1>5, PostsStep DEF Ends
  <1> QED BY <1>1, <1>2, <1>3, <1>4, <1>5 DEF WorkerStep

LEMMA StepHolds ==
  AutomationInv /\ [Next]_engineVars => AutomationInv' /\ TokensHold(engine, engine')
  <1> SUFFICES ASSUME AutomationInv, [Next]_engineVars
               PROVE  AutomationInv' /\ TokensHold(engine, engine')
    OBVIOUS
  <1>1. CASE Command BY <1>1, CommandStep
  <1>2. ASSUME NEW m \in inbox, Report(m) PROVE AutomationInv' /\ TokensHold(engine, engine')
    BY <1>2, ReportStep
  <1>3. ASSUME NEW r \in Run, Delete(r) PROVE AutomationInv' /\ TokensHold(engine, engine')
    BY <1>3, DeleteStep
  <1>4. CASE Shutdown BY <1>4, ShutdownStep
  <1>5. CASE WorkerStep BY <1>5, WorkersStep
  <1>6. ASSUME NEW r \in Run, NEW ts \in TargetLists, NEW w \in Widths, Start(r, ts, w)
        PROVE  AutomationInv' /\ TokensHold(engine, engine')
    BY <1>6, StartStep
  <1>7. CASE UNCHANGED engineVars
    <2>1. /\ engine' = engine /\ lane' = lane /\ busy' = busy /\ inbox' = inbox /\ down' = down
          /\ commands' = commands
      BY <1>7 DEF engineVars
    <2>2. WorksOnce' /\ AtWork' = AtWork /\ EngineTypeOK'
      BY <2>1 DEF AutomationInv, WorksOnce, AtWork, EngineTypeOK, Key
    <2> QED BY <2>1, <2>2, WorkerMoves
  <1> QED BY <1>1, <1>2, <1>3, <1>4, <1>5, <1>6, <1>7 DEF Next, EngineNext

\* The inductive invariant of the runs holds in every reachable state.
THEOREM AlwaysAutomationInv == Spec => []AutomationInv
  <1>1. AutomationInv /\ [Next]_engineVars => AutomationInv' BY StepHolds
  <1> QED BY InitHolds, <1>1, PTL DEF Spec

\* A worker that is out works on a device in progress.
LEMMA OutIsAtWork ==
  ASSUME AutomationInv, NEW r \in Run, Out(r) # {}
  PROVE  In(engine.run[r], "running") # {}
  <1>1. ASSUME NEW p \in AtWork, p[1] = r PROVE In(engine.run[r], "running") # {}
    BY <1>1 DEF AutomationInv, Pairs, In
  <1>2. \A j \in DOMAIN lane : lane[j] \in AtWork BY DEF AtWork, Range
  <1>3. \A k \in busy \cup inbox : Key(k) \in AtWork BY DEF AtWork
  <1>4. \A k \in busy \cup inbox : Key(k)[1] = k.run BY DEF Key
  <1>5. \/ \E j \in DOMAIN lane : lane[j][1] = r
        \/ \E k \in busy \cup inbox : k.run = r
    BY DEF Out
  <1> QED BY <1>1, <1>2, <1>3, <1>4, <1>5

\* No run is deleted while a worker of it is queued in the lane, on a thread, or reporting:
\* WorkflowEngine gives each of them the AutomationRun's address.
THEOREM WorkersAlwaysKeepTheirRun == Spec => []WorkersKeepTheirRun
  <1>1. AutomationInv => WorkersKeepTheirRun
    BY OutIsAtWork DEF WorkersKeepTheirRun, AutomationInv, EngineOK, RunOK, Alive
  <1> QED BY AlwaysAutomationInv, <1>1, PTL

\* A worker that is out polls the token that Stop cancelled: RetryFailed, the only handler
\* that resets it, finds no device in progress.
THEOREM StopsReachWorkers == Spec => StopReachesWorkers
  <1>1. ASSUME AutomationInv, [Next]_engineVars
        PROVE  [\A r \in Run : engine.run[r].token /\ ~engine'.run[r].token => Out(r) = {}]_engineVars
    <2>1. TokensHold(engine, engine') BY <1>1, StepHolds
    <2> QED BY <1>1, <2>1, OutIsAtWork DEF TokensHold
  <1> QED BY AlwaysAutomationInv, <1>1, PTL DEF Spec, StopReachesWorkers

\* All workers that are out, and the run and device of each.
AllOut ==
  {<<"lane", i>> : i \in DOMAIN lane} \cup {<<"busy", k>> : k \in busy}
    \cup {<<"inbox", m>> : m \in inbox}

PairOf(o) == IF o[1] = "lane" THEN lane[o[2]] ELSE Key(o[2])

LEMMA OutPairs ==
  ASSUME AutomationInv
  PROVE  /\ \A o \in AllOut : PairOf(o) \in AtWork
         /\ \A p \in AtWork : \E o \in AllOut : PairOf(o) = p
         /\ \A o, u \in AllOut : PairOf(o) = PairOf(u) => o = u
  <1>1. \A i \in DOMAIN lane : <<"lane", i>> \in AllOut /\ PairOf(<<"lane", i>>) = lane[i]
    BY DEF AllOut, PairOf
  <1>2. \A k \in busy : <<"busy", k>> \in AllOut /\ PairOf(<<"busy", k>>) = Key(k)
    BY DEF AllOut, PairOf
  <1>3. \A m \in inbox : <<"inbox", m>> \in AllOut /\ PairOf(<<"inbox", m>>) = Key(m)
    BY DEF AllOut, PairOf
  <1>4. \A o \in AllOut : \/ \E i \in DOMAIN lane : o = <<"lane", i>>
                          \/ \E k \in busy : o = <<"busy", k>>
                          \/ \E m \in inbox : o = <<"inbox", m>>
    BY DEF AllOut
  <1>5. Range(lane) = {lane[i] : i \in DOMAIN lane} BY DEF Range
  <1>6. \A o \in AllOut : PairOf(o) \in AtWork BY <1>1, <1>2, <1>3, <1>4, <1>5 DEF AtWork
  <1>7. \A p \in AtWork : \E o \in AllOut : PairOf(o) = p
    <2> TAKE p \in AtWork
    <2>1. CASE p \in Range(lane)
      <3>1. PICK i \in DOMAIN lane : lane[i] = p BY <1>5, <2>1
      <3>2. <<"lane", i>> \in AllOut /\ PairOf(<<"lane", i>>) = p BY <1>1, <3>1
      <3> QED BY <3>2
    <2>2. CASE p \in {Key(b) : b \in busy} BY <1>2, <2>2
    <2>3. CASE p \in {Key(m) : m \in inbox} BY <1>3, <2>3
    <2> QED BY <2>1, <2>2, <2>3 DEF AtWork
  <1>8. /\ \A i, j \in DOMAIN lane : lane[i] = lane[j] => i = j
        /\ \A b, c \in busy : Key(b) = Key(c) => b = c
        /\ \A m, n \in inbox : Key(m) = Key(n) => m = n
        /\ \A i \in DOMAIN lane, b \in busy : lane[i] # Key(b)
        /\ \A i \in DOMAIN lane, m \in inbox : lane[i] # Key(m)
        /\ \A b \in busy, m \in inbox : Key(b) # Key(m)
    BY <1>5 DEF AutomationInv, WorksOnce, IsInjective
  <1>9. ASSUME NEW o \in AllOut, NEW u \in AllOut, PairOf(o) = PairOf(u) PROVE o = u
    <2>1. CASE \E i \in DOMAIN lane : o = <<"lane", i>>
      <3>1. PICK i \in DOMAIN lane : o = <<"lane", i>> BY <2>1
      <3>2. CASE \E j \in DOMAIN lane : u = <<"lane", j>> BY <1>1, <1>8, <1>9, <3>1, <3>2
      <3>3. CASE \E k \in busy : u = <<"busy", k>> BY <1>1, <1>2, <1>8, <1>9, <3>1, <3>3
      <3>4. CASE \E m \in inbox : u = <<"inbox", m>> BY <1>1, <1>3, <1>8, <1>9, <3>1, <3>4
      <3> QED BY <1>4, <3>2, <3>3, <3>4
    <2>2. CASE \E k \in busy : o = <<"busy", k>>
      <3>1. PICK k \in busy : o = <<"busy", k>> BY <2>2
      <3>2. CASE \E j \in DOMAIN lane : u = <<"lane", j>> BY <1>1, <1>2, <1>8, <1>9, <3>1, <3>2
      <3>3. CASE \E b \in busy : u = <<"busy", b>> BY <1>2, <1>8, <1>9, <3>1, <3>3
      <3>4. CASE \E m \in inbox : u = <<"inbox", m>> BY <1>2, <1>3, <1>8, <1>9, <3>1, <3>4
      <3> QED BY <1>4, <3>2, <3>3, <3>4
    <2>3. CASE \E m \in inbox : o = <<"inbox", m>>
      <3>1. PICK m \in inbox : o = <<"inbox", m>> BY <2>3
      <3>2. CASE \E j \in DOMAIN lane : u = <<"lane", j>> BY <1>1, <1>3, <1>8, <1>9, <3>1, <3>2
      <3>3. CASE \E b \in busy : u = <<"busy", b>> BY <1>2, <1>3, <1>8, <1>9, <3>1, <3>3
      <3>4. CASE \E n \in inbox : u = <<"inbox", n>> BY <1>3, <1>8, <1>9, <3>1, <3>4
      <3> QED BY <1>4, <3>2, <3>3, <3>4
    <2> QED BY <1>4, <2>1, <2>2, <2>3
  <1> QED BY <1>6, <1>7, <1>9

LEMMA OutIs ==
  ASSUME NEW r \in Run
  PROVE  /\ Out(r) = {o \in AllOut : PairOf(o)[1] = r}
         /\ \A d \in Dev : OutOn(r, d) = {o \in AllOut : PairOf(o) = <<r, d>>}
  <1>1. \A x : /\ PairOf(<<"lane", x>>) = lane[x]
               /\ PairOf(<<"busy", x>>) = Key(x) /\ PairOf(<<"inbox", x>>) = Key(x)
    BY DEF PairOf
  <1>2. \A k : Key(k)[1] = k.run /\ Key(k)[2] = k.dev BY DEF Key
  <1>3. Out(r) = {o \in AllOut : PairOf(o)[1] = r} BY <1>1, <1>2 DEF Out, AllOut
  <1>4. ASSUME NEW d \in Dev
        PROVE  OutOn(r, d) = {o \in AllOut : PairOf(o) = <<r, d>>}
    <2>1. \A k : Key(k) = <<r, d>> <=> k.run = r /\ k.dev = d BY DEF Key
    <2> QED BY <1>1, <2>1 DEF OutOn, AllOut
  <1> QED BY <1>3, <1>4

\* Until the shutdown a device of a run is in progress as long as its one worker is out, and
\* the run's count of workers is their number: running(), the deletion of a removed run and
\* Retry go by it.
THEOREM WorkersAreAlwaysCounted == Spec => []WorkersAreCounted
  <1>1. ASSUME AutomationInv PROVE WorkersAreCounted
    <2> SUFFICES ASSUME ~down, NEW r \in Run
                 PROVE  /\ engine.run[r].workers = Cardinality(Out(r))
                        /\ \A d \in Dev : Cardinality(OutOn(r, d)) =
                             IF engine.run[r].progress[d] = "running" THEN 1 ELSE 0
      BY DEF WorkersAreCounted
    <2> DEFINE D == In(engine.run[r], "running")
               f == [o \in Out(r) |-> PairOf(o)[2]]
    <2>1. AtWork = Pairs(engine) BY <1>1 DEF AutomationInv
    <2>2. \A d \in Dev : <<r, d>> \in AtWork <=> engine.run[r].progress[d] = "running"
      BY <2>1 DEF Pairs
    <2>3. /\ \A o \in AllOut : PairOf(o) \in AtWork
          /\ \A p \in AtWork : \E o \in AllOut : PairOf(o) = p
          /\ \A o, u \in AllOut : PairOf(o) = PairOf(u) => o = u
      BY <1>1, OutPairs
    <2>4. Out(r) = {o \in AllOut : PairOf(o)[1] = r} BY OutIs
    <2>5. \A p \in AtWork : p \in Run \X Dev BY <2>1 DEF Pairs
    <2>6. \A o \in Out(r) : PairOf(o)[2] \in Dev /\ PairOf(o) = <<r, PairOf(o)[2]>>
      BY <2>3, <2>4, <2>5
    <2>7. engine.run[r].workers = Cardinality(Out(r))
      <3>1. \A o \in Out(r) : PairOf(o)[2] \in D BY <2>2, <2>3, <2>4, <2>6 DEF In
      <3>2. f \in Injection(Out(r), D)
        <4>1. f \in [Out(r) -> D] BY <3>1
        <4>2. \A o, u \in Out(r) : f[o] = f[u] => o = u BY <2>3, <2>4, <2>6
        <4> HIDE DEF f
        <4> QED BY <4>1, <4>2 DEF Injection, IsInjective
      <3>3. f \in Surjection(Out(r), D)
        <4>1. f \in [Out(r) -> D] BY <3>1
        <4>2. ASSUME NEW d \in D PROVE \E o \in Out(r) : f[o] = d
          <5>1. d \in Dev /\ <<r, d>> \in AtWork BY <2>2 DEF In
          <5>2. PICK o \in AllOut : PairOf(o) = <<r, d>> BY <2>3, <5>1
          <5>3. o \in Out(r) /\ PairOf(o)[2] = d BY <2>4, <5>2
          <5> QED BY <5>3
        <4> HIDE DEF f
        <4> QED BY <4>1, <4>2 DEF Surjection
      <3> HIDE DEF f
      <3>4. IsFiniteSet(D) BY RunningIs
      <3>5. Cardinality(Out(r)) = Cardinality(D) BY <3>2, <3>3, <3>4, FS_Injection
      <3>6. engine.run[r].workers = Cardinality(D)
        BY <1>1 DEF AutomationInv, EngineOK, RunOK, Running
      <3> QED BY <3>5, <3>6
    <2>8. ASSUME NEW d \in Dev
          PROVE  Cardinality(OutOn(r, d)) = IF engine.run[r].progress[d] = "running" THEN 1 ELSE 0
      <3>1. OutOn(r, d) = {o \in AllOut : PairOf(o) = <<r, d>>} BY <1>1, OutIs
      <3>2. CASE engine.run[r].progress[d] = "running"
        <4>1. PICK o \in AllOut : PairOf(o) = <<r, d>> BY <2>2, <2>3, <3>2
        <4>2. OutOn(r, d) = {o} BY <2>3, <3>1, <4>1
        <4>3. Cardinality(OutOn(r, d)) = 1 BY <4>2, FS_Singleton
        <4> QED BY <3>2, <4>3
      <3>3. CASE engine.run[r].progress[d] # "running"
        <4>1. OutOn(r, d) = {} BY <2>2, <2>3, <3>1, <3>3
        <4>2. Cardinality(OutOn(r, d)) = 0 BY <4>1, FS_EmptySet
        <4> QED BY <3>3, <4>2
      <3> QED BY <3>2, <3>3
    <2> QED BY <2>7, <2>8
  <1> QED BY AlwaysAutomationInv, <1>1, PTL
=============================================================================

-------------------------- MODULE BatchJobsProofs --------------------------
(***************************************************************************)
(* Proofs about BatchJobs: every item that is in progress has one item     *)
(* function under way, or one result posted, and a device is recorded once *)
(* at most.  First what the handlers of a job do to its items; then what   *)
(* the calls they make add to what is under way; then the steps.           *)
(***************************************************************************)
EXTENDS BatchJobs, FiniteSetTheorems, TLAPS

\* No item of the job begins or ends.
Calm(J, K) ==
  /\ K \in JobState /\ K.kind = J.kind
  /\ K.attempts = J.attempts
  /\ \A d \in Dev : K.item[d] = "running" <=> J.item[d] = "running"

\* The items D end, and others may begin: each one that does is a new attempt.
Moves(J, K, D) ==
  /\ K \in JobState
  /\ \A d \in Dev :
       \/ /\ K.attempts[d] = J.attempts[d]
          /\ K.item[d] = "running" <=> J.item[d] = "running" /\ d \notin D
       \/ /\ K.attempts[d] = J.attempts[d] + 1
          /\ K.item[d] = "running" /\ J.item[d] # "running"

Alive(J) == J.status \notin {"none", "gone"}

LEMMA FieldsOfJob ==
  ASSUME NEW J \in JobState
  PROVE  /\ J.said \in Nat /\ J.attempts \in [Dev -> Nat] /\ J.kind \in Kinds
         /\ \A n \in Nat : [J EXCEPT !.said = n] \in JobState
         /\ \A f \in [Dev -> Nat] : [J EXCEPT !.attempts = f] \in JobState
         /\ \A s \in {"none", "gone", "Running", "Paused"} \cup Over :
              [J EXCEPT !.status = s] \in JobState
         /\ \A b \in BOOLEAN : [J EXCEPT !.token = b] \in JobState
  BY DEF JobState

LEMMA StatusIsCalm ==
  ASSUME NEW J \in JobState, NEW s \in {"Running", "Paused"} \cup Over
  PROVE  /\ Calm(J, SetJobStatus(J, s))
         /\ SetJobStatus(J, s).status = s
         /\ SetJobStatus(J, s).item = J.item
  <1> DEFINE n == IF s \in Over THEN J.said + 1 ELSE J.said
             I == [J EXCEPT !.status = s]
  <1>1. n \in Nat BY FieldsOfJob
  <1>2. SetJobStatus(J, s) = IF J.status = s THEN J ELSE [J EXCEPT !.status = s, !.said = n]
    BY DEF SetJobStatus
  <1>3. I \in JobState BY FieldsOfJob
  <1>4. [I EXCEPT !.said = n] = [J EXCEPT !.status = s, !.said = n] BY DEF JobState
  <1> HIDE DEF n, I
  <1>5. [I EXCEPT !.said = n] \in JobState BY <1>1, <1>3, FieldsOfJob
  <1>6. SetJobStatus(J, s) \in JobState BY <1>2, <1>4, <1>5
  <1>7. /\ SetJobStatus(J, s).status = s /\ SetJobStatus(J, s).kind = J.kind
        /\ SetJobStatus(J, s).attempts = J.attempts /\ SetJobStatus(J, s).item = J.item
    BY <1>2 DEF JobState
  <1> QED BY <1>6, <1>7 DEF Calm

LEMMA PickedWait ==
  ASSUME NEW J \in JobState
  PROVE  Picked(J) \subseteq With(J, "queued")
  <1>1. \A i \in DOMAIN J.targets : J.targets[i] \in Dev BY DEF JobState
  <1> QED BY <1>1 DEF Picked, With

LEMMA MovedIsTyped ==
  ASSUME NEW J \in JobState, NEW S,
         NEW s \in {"none", "queued", "running", "ok", "failed", "cancelled"}
  PROVE  /\ Moved(J, S, s) \in JobState
         /\ \A d \in Dev : Moved(J, S, s).item[d] = IF d \in S THEN s ELSE J.item[d]
         /\ Moved(J, S, s).attempts = J.attempts
         /\ Moved(J, S, s).kind = J.kind
         /\ Moved(J, S, s).status = J.status
         /\ Moved(J, S, s).said = J.said
  BY DEF Moved, JobState

LEMMA PumpMoves ==
  ASSUME NEW J \in JobState, Alive(J)
  PROVE  /\ Moves(J, PumpJob(J), {})
         /\ Alive(PumpJob(J)) /\ PumpJob(J).kind = J.kind
         /\ \A d \in Dev : PumpJob(J).attempts[d] # J.attempts[d] => J.item[d] = "queued"
  <1>1. CASE J.status # "Running"
    <2>1. J.said + 1 \in Nat BY FieldsOfJob
    <2>2. PumpJob(J) \in {J, [J EXCEPT !.said = J.said + 1]} BY <1>1 DEF PumpJob
    <2>3. [J EXCEPT !.said = J.said + 1] \in JobState BY <2>1, FieldsOfJob
    <2>4. PumpJob(J) \in JobState BY <2>2, <2>3
    <2>5. /\ PumpJob(J).status = J.status /\ PumpJob(J).kind = J.kind
          /\ PumpJob(J).attempts = J.attempts /\ PumpJob(J).item = J.item
      BY <2>2 DEF JobState
    <2> QED BY <2>4, <2>5 DEF Moves, Alive
  <1>2. CASE J.status = "Running"
    <2> DEFINE S == Picked(J)
               M == Moved(J, S, "running")
               K == [M EXCEPT !.attempts = [d \in Dev |-> IF d \in S THEN @[d] + 1 ELSE @[d]]]
    <2>1. S \subseteq With(J, "queued") BY PickedWait
    <2>2. /\ M \in JobState /\ M.attempts = J.attempts /\ M.kind = J.kind
          /\ M.status = J.status
          /\ \A d \in Dev : M.item[d] = IF d \in S THEN "running" ELSE J.item[d]
      BY MovedIsTyped
    <2>3. PumpJob(J) = IF With(K, "running") \cup With(K, "queued") = {}
                       THEN SetJobStatus(K, Verdict(K)) ELSE K
      BY <1>2 DEF PumpJob
    <2> HIDE DEF S, M
    <2> DEFINE f == [d \in Dev |-> IF d \in S THEN M.attempts[d] + 1 ELSE M.attempts[d]]
    <2>f1. f \in [Dev -> Nat] BY <2>2, FieldsOfJob
    <2>k1. K = [M EXCEPT !.attempts = f] OBVIOUS
    <2>4. /\ K \in JobState /\ K.kind = J.kind /\ K.status = "Running" /\ K.item = M.item
          /\ \A d \in Dev : K.attempts[d] = IF d \in S THEN J.attempts[d] + 1 ELSE J.attempts[d]
      <3>1. K \in JobState BY <2>2, <2>f1, <2>k1, FieldsOfJob
      <3>2. K.attempts = f BY <2>k1, <2>2 DEF JobState
      <3>3. K.kind = M.kind /\ K.status = M.status /\ K.item = M.item BY <2>k1, <2>2 DEF JobState
      <3> QED BY <1>2, <2>2, <3>1, <3>2, <3>3
    <2> HIDE DEF K, f
    <2>5. Moves(J, K, {}) BY <2>1, <2>2, <2>4 DEF Moves, With
    <2>6. Verdict(K) \in Over BY DEF Verdict, Over
    <2>7. /\ Calm(K, SetJobStatus(K, Verdict(K)))
          /\ SetJobStatus(K, Verdict(K)).status \in Over
      BY <2>4, <2>6, StatusIsCalm
    <2>8. Moves(J, SetJobStatus(K, Verdict(K)), {}) BY <2>5, <2>7 DEF Moves, Calm
    <2>9. \A d \in Dev : PumpJob(J).attempts[d] # J.attempts[d] => J.item[d] = "queued"
      BY <2>1, <2>3, <2>4, <2>7 DEF Calm, With
    <2> QED BY <2>3, <2>4, <2>5, <2>7, <2>8, <2>9 DEF Alive, Calm, Over
  <1> QED BY <1>1, <1>2

\* The same after what a handler did before it pumped.
LEMMA CalmThenPump ==
  ASSUME NEW J \in JobState, NEW K, Calm(J, K), Alive(K)
  PROVE  /\ Moves(J, PumpJob(K), {})
         /\ Alive(PumpJob(K)) /\ PumpJob(K).kind = J.kind
  <1>1. /\ Moves(K, PumpJob(K), {})
        /\ Alive(PumpJob(K)) /\ PumpJob(K).kind = K.kind
    BY PumpMoves DEF Calm
  <1> QED BY <1>1 DEF Calm, Moves

LEMMA CalmMoves ==
  ASSUME NEW J \in JobState, NEW K, Calm(J, K)
  PROVE  Moves(J, K, {}) /\ K.kind = J.kind
  BY DEF Calm, Moves

-----------------------------------------------------------------------------
(* The commands and the results.                                           *)

\* Cancel and Retry: items that do not run are queued or taken back, and the token is set.
LEMMA MovedIsCalm ==
  ASSUME NEW J \in JobState, NEW S, \A d \in S : J.item[d] # "running",
         NEW s \in {"queued", "cancelled"}, NEW b \in BOOLEAN, NEW n \in Nat
  PROVE  /\ Calm(J, [Moved(J, S, s) EXCEPT !.token = b])
         /\ [Moved(J, S, s) EXCEPT !.token = b].status = J.status
         /\ Calm(J, [Moved(J, S, s) EXCEPT !.token = b, !.said = n])
         /\ [Moved(J, S, s) EXCEPT !.token = b, !.said = n].status = J.status
  <1> DEFINE M == Moved(J, S, s)
             T == [M EXCEPT !.token = b]
             N == [M EXCEPT !.token = b, !.said = n]
  <1>1. /\ M \in JobState /\ M.attempts = J.attempts /\ M.kind = J.kind
        /\ M.status = J.status
        /\ \A d \in Dev : M.item[d] = IF d \in S THEN s ELSE J.item[d]
    BY MovedIsTyped
  <1> HIDE DEF M
  <1>2. T \in JobState BY <1>1, FieldsOfJob
  <1>3. T.attempts = M.attempts /\ T.kind = M.kind /\ T.status = M.status /\ T.item = M.item
    BY <1>1 DEF JobState
  <1>4. N = [T EXCEPT !.said = n] BY <1>1 DEF JobState
  <1> HIDE DEF T, N
  <1>5. N \in JobState BY <1>2, <1>4, FieldsOfJob
  <1>6. N.attempts = T.attempts /\ N.kind = T.kind /\ N.status = T.status /\ N.item = T.item
    BY <1>2, <1>4 DEF JobState
  <1>7. Calm(J, T) /\ T.status = J.status BY <1>1, <1>2, <1>3 DEF Calm
  <1>8. Calm(J, N) /\ N.status = J.status BY <1>1, <1>3, <1>5, <1>6 DEF Calm
  <1> QED BY <1>7, <1>8 DEF T, N, M

LEMMA CalmTwice ==
  ASSUME NEW J, NEW K, NEW L, Calm(J, K), Calm(K, L)
  PROVE  Calm(J, L)
  BY DEF Calm

LEMMA PauseMoves ==
  ASSUME NEW J \in JobState, Alive(J)
  PROVE  /\ Moves(J, PauseJob(J), {})
         /\ Alive(PauseJob(J)) /\ PauseJob(J).kind = J.kind
  <1>1. /\ Calm(J, SetJobStatus(J, "Paused"))
        /\ SetJobStatus(J, "Paused").status = "Paused"
    BY StatusIsCalm
  <1>2. Calm(J, J) BY DEF Calm
  <1>3. Calm(J, PauseJob(J)) /\ Alive(PauseJob(J)) BY <1>1, <1>2 DEF PauseJob, Alive
  <1> QED BY <1>3, CalmMoves

LEMMA ResumeMoves ==
  ASSUME NEW J \in JobState, Alive(J)
  PROVE  /\ Moves(J, ResumeJob(J), {})
         /\ Alive(ResumeJob(J)) /\ ResumeJob(J).kind = J.kind
  <1> DEFINE R == SetJobStatus(J, "Running")
  <1>1. Calm(J, R) /\ R.status = "Running" BY StatusIsCalm
  <1>2. Alive(R) BY <1>1 DEF Alive
  <1> HIDE DEF R
  <1>3. /\ Moves(J, PumpJob(R), {}) /\ Alive(PumpJob(R)) /\ PumpJob(R).kind = J.kind
    BY <1>1, <1>2, CalmThenPump
  <1>4. Moves(J, J, {}) BY DEF Moves
  <1> QED BY <1>3, <1>4 DEF ResumeJob, R

LEMMA CancelMoves ==
  ASSUME NEW J \in JobState, Alive(J)
  PROVE  /\ Moves(J, CancelJob(J), {})
         /\ Alive(CancelJob(J)) /\ CancelJob(J).kind = J.kind
  <1> DEFINE K == [Moved(J, With(J, "queued"), "cancelled") EXCEPT !.token = TRUE]
             C == [K EXCEPT !.status = "Cancelled"]
  <1>1. \A d \in With(J, "queued") : J.item[d] # "running" BY DEF With
  <1>2. Calm(J, K) BY <1>1, MovedIsCalm
  <1>3. CancelJob(J) = J \/ CancelJob(J) = SetJobStatus(K, "Cancelled") \/ CancelJob(J) = C
    BY DEF CancelJob
  <1> HIDE DEF K
  <1>4. K \in JobState BY <1>2 DEF Calm
  <1>5. /\ Calm(K, SetJobStatus(K, "Cancelled"))
        /\ SetJobStatus(K, "Cancelled").status = "Cancelled"
    BY <1>4, StatusIsCalm DEF Over
  <1>6. C \in JobState BY <1>4, FieldsOfJob DEF Over
  <1>7. C.status = "Cancelled" /\ C.kind = K.kind /\ C.attempts = K.attempts /\ C.item = K.item
    BY <1>4 DEF JobState
  <1>8. Calm(K, C) BY <1>6, <1>7 DEF Calm
  <1>9. Calm(J, J) BY DEF Calm
  <1> HIDE DEF C
  <1>10. Calm(J, C) /\ Calm(J, SetJobStatus(K, "Cancelled")) BY <1>2, <1>5, <1>8, CalmTwice
  <1>11. Calm(J, CancelJob(J)) /\ Alive(CancelJob(J)) BY <1>3, <1>5, <1>7, <1>9, <1>10 DEF Alive
  <1> QED BY <1>11, CalmMoves

LEMMA RetryMoves ==
  ASSUME NEW J \in JobState, Alive(J)
  PROVE  /\ Moves(J, RetryJob(J), {})
         /\ Alive(RetryJob(J)) /\ RetryJob(J).kind = J.kind
  <1> DEFINE again == With(J, "failed") \cup With(J, "cancelled")
             K == [Moved(J, again, "queued") EXCEPT !.token = FALSE, !.said = 0]
             R == SetJobStatus(K, "Running")
  <1>1. \A d \in again : J.item[d] # "running" BY DEF With
  <1>2. Calm(J, K) BY <1>1, MovedIsCalm
  <1>3. RetryJob(J) = J \/ RetryJob(J) = PumpJob(R) BY DEF RetryJob
  <1> HIDE DEF K
  <1>4. K \in JobState BY <1>2 DEF Calm
  <1>5. Calm(K, R) /\ R.status = "Running" BY <1>4, StatusIsCalm
  <1> HIDE DEF R
  <1>6. Calm(J, R) /\ Alive(R) BY <1>2, <1>5, CalmTwice DEF Alive
  <1>7. /\ Moves(J, PumpJob(R), {}) /\ Alive(PumpJob(R)) /\ PumpJob(R).kind = J.kind
    BY <1>6, CalmThenPump
  <1>8. Moves(J, J, {}) BY DEF Moves
  <1> QED BY <1>3, <1>7, <1>8

\* The result of the attempt the job waits for.
LEMMA DoneMoves ==
  ASSUME NEW J \in JobState, Alive(J), NEW d \in Dev, J.item[d] = "running",
         NEW ok \in BOOLEAN
  PROVE  /\ Moves(J, ItemDone(J, d, J.attempts[d], ok), {d})
         /\ Alive(ItemDone(J, d, J.attempts[d], ok))
         /\ ItemDone(J, d, J.attempts[d], ok).kind = J.kind
  <1> DEFINE s == IF ok THEN "ok" ELSE IF J.token THEN "cancelled" ELSE "failed"
             M == Moved(J, {d}, s)
  <1>1. ItemDone(J, d, J.attempts[d], ok) = PumpJob(M) BY DEF ItemDone
  <1>2. s \in {"ok", "cancelled", "failed"} OBVIOUS
  <1> HIDE DEF s
  <1>3. /\ M \in JobState /\ M.attempts = J.attempts /\ M.kind = J.kind
        /\ M.status = J.status
        /\ \A e \in Dev : M.item[e] = IF e \in {d} THEN s ELSE J.item[e]
    BY <1>2, MovedIsTyped
  <1> HIDE DEF M
  <1>4. Alive(M) BY <1>3 DEF Alive
  <1>5. /\ Moves(M, PumpJob(M), {}) /\ Alive(PumpJob(M)) /\ PumpJob(M).kind = M.kind
        /\ \A e \in Dev : PumpJob(M).attempts[e] # M.attempts[e] => M.item[e] = "queued"
    BY <1>3, <1>4, PumpMoves
  <1>6. M.item[d] \notin {"running", "queued"} BY <1>2, <1>3
  <1>7. PumpJob(M).attempts[d] = J.attempts[d] /\ PumpJob(M).attempts[d] \in Nat
    BY <1>3, <1>5, <1>6, FieldsOfJob
  <1>8. PumpJob(M).item[d] # "running" BY <1>3, <1>5, <1>6, <1>7 DEF Moves
  <1>9. Moves(J, PumpJob(M), {d}) BY <1>3, <1>5, <1>7, <1>8 DEF Moves
  <1> QED BY <1>1, <1>3, <1>5, <1>9

-----------------------------------------------------------------------------
(* What is under way.  A set with one member is written as such: that says    *)
(* more than its cardinality, and is what the provers can use.               *)

Taping(d) == {c \in calls : c.dev = d /\ c.link = 1 /\ batch.job[c.job].kind = "recording"}

ItemIsOut(j, d) ==
  IF batch.job[j].item[d] = "running"
  THEN \E x : Pending(j, d) = {x} /\ x.attempt = batch.job[j].attempts[d]
  ELSE Pending(j, d) = {}

TapeIsMarked(d) == IF d \in recording THEN \E c : Taping(d) = {c} ELSE Taping(d) = {}

\* A call of a job that was deleted goes on, and its result is not posted.
BInv ==
  /\ BatchTypeOK
  /\ \A j \in Job : batch.job[j].status = "none" => batch.job[j] = NewJob
  /\ \A c \in calls : /\ batch.job[c.job].status # "none"
                     /\ c.link <= Len(Chain(batch.job[c.job].kind))
  /\ \A m \in posted : Alive(batch.job[m.job])
  /\ \A j \in Job, d \in Dev : batch.job[j].status # "gone" => ItemIsOut(j, d)
  /\ \A d \in Dev : TapeIsMarked(d)

BatchRecord == [job : [Job -> JobState], jobs : Seq(Job), doomed : SUBSET Job]

CallRecord == [job : Job, dev : Dev, attempt : Nat, link : 1 .. 3]

ResultRecord == [job : Job, dev : Dev, attempt : Nat, ok : BOOLEAN]

LEMMA CallsAreNoResults == \A c \in CallRecord : c \notin ResultRecord
  <1>1. \A c \in CallRecord : "link" \in DOMAIN c BY DEF CallRecord
  <1>2. \A m \in ResultRecord : "link" \notin DOMAIN m BY DEF ResultRecord
  <1> QED BY <1>1, <1>2

LEMMA ChainLength ==
  ASSUME NEW k \in Kinds
  PROVE  /\ Len(Chain(k)) \in 0 .. 3
         /\ Chain(k) # <<>> => Len(Chain(k)) \in 1 .. 3
  <1>1. Len(ShellChain) = 1 /\ Len(ScreenshotChain) = 2 /\ Len(RecordingChain) = 2
        /\ Len(PushChain) = 2 /\ Len(WallpaperChain) = 3 /\ Len(DirectChain) = 0
        /\ DirectChain = <<>>
    BY DEF ShellChain, ScreenshotChain, RecordingChain, PushChain, WallpaperChain, DirectChain
  <1>2. CASE k = "shell" BY <1>1, <1>2 DEF Chain
  <1>3. CASE k = "screenshot" BY <1>1, <1>3 DEF Chain
  <1>4. CASE k = "recording" BY <1>1, <1>4 DEF Chain
  <1>5. CASE k = "push" BY <1>1, <1>5 DEF Chain
  <1>6. CASE k = "wallpaper" BY <1>1, <1>6 DEF Chain
  <1>7. CASE k = "direct" BY <1>1, <1>7 DEF Chain
  <1> QED BY <1>2, <1>3, <1>4, <1>5, <1>6, <1>7 DEF Kinds

\* The calls pump makes: one for each device, unless its result is there at once.  A new
\* recording marks its device, and no other call does.
CallsOf(j, J, S, F) ==
  /\ F.calls \subseteq {Call(j, d, J.attempts[d], 1) : d \in S}
  /\ F.calls # {} => Len(Chain(J.kind)) >= 1
  /\ \A m \in F.results :
       m.job = j /\ m.dev \in S /\ m \in [job : Job, dev : Dev, attempt : Nat, ok : BOOLEAN]
  /\ \A d \in S : \E x :
       /\ {c \in F.calls : c.dev = d} \cup {m \in F.results : m.dev = d} = {x}
       /\ x.attempt = J.attempts[d]
  /\ F.recording \cap recording = {}
  /\ F.recording = IF J.kind = "recording" THEN {c.dev : c \in F.calls} ELSE {}

LEMMA FirstCallsAre ==
  ASSUME NEW j \in Job, NEW J \in JobState, NEW S \in SUBSET Dev, NEW able \in SUBSET Dev
  PROVE  CallsOf(j, J, S, FirstCalls(j, J, S, able))
  <1> DEFINE F == FirstCalls(j, J, S, able)
  <1> DEFINE new  == {Call(j, d, J.attempts[d], 1) : d \in S}
             deny == {c \in new : J.kind = "recording" /\ c.dev \in recording}
  <1>1. \A c \in new : c.dev \in S /\ c = Call(j, c.dev, J.attempts[c.dev], 1)
    BY DEF Call
  <1>2. \A d \in S : Call(j, d, J.attempts[d], 1) \in new /\ Call(j, d, J.attempts[d], 1).dev = d
    BY DEF Call
  <1> DEFINE Done(c)    == Result(c, c.dev \in able)
             Refused(c) == Result(c, FALSE)
  <1>3. \A c \in new :
          /\ Done(c).job = j /\ Done(c).dev = c.dev /\ Done(c).attempt = c.attempt
          /\ Refused(c).job = j /\ Refused(c).dev = c.dev /\ Refused(c).attempt = c.attempt
          /\ {Done(c), Refused(c)} \subseteq [job : Job, dev : Dev, attempt : Nat, ok : BOOLEAN]
    <2> TAKE c \in new
    <2>1. J.attempts \in [Dev -> Nat] BY FieldsOfJob
    <2> QED BY <2>1 DEF Result, Call
  <1>4. \A c \in new : c.attempt = J.attempts[c.dev] BY DEF Call
  <1>5. deny \subseteq new OBVIOUS
  <1>6. \A c \in new : c \in deny <=> J.kind = "recording" /\ c.dev \in recording OBVIOUS
  <1>7. J.kind \in Kinds BY FieldsOfJob
  <1>8. CASE Chain(J.kind) = <<>>
    <2>1. /\ F.calls = {} /\ F.recording = {}
          /\ F.results = {Done(c) : c \in new}
      BY <1>8 DEF FirstCalls
    <2>2. J.kind # "recording" BY <1>8 DEF Chain, RecordingChain
    <2>6. /\ \A c \in new : Done(c) \in F.results
          /\ \A m \in F.results : \E c \in new : m = Done(c)
      BY <2>1
    <2> HIDE DEF new, deny, Done, Refused
    <2>3. ASSUME NEW d \in S
          PROVE  \E x : /\ {c \in F.calls : c.dev = d} \cup {m \in F.results : m.dev = d} = {x}
                       /\ x.attempt = J.attempts[d]
      <3>1. PICK c \in new : c.dev = d BY <1>2
      <3>2. \A e \in new : e.dev = d => e = c BY <1>1, <3>1
      <3>3. {m \in F.results : m.dev = d} = {Done(c)} BY <1>3, <2>6, <3>1, <3>2
      <3>4. Done(c).attempt = J.attempts[d] BY <1>3, <1>4, <3>1
      <3> QED BY <2>1, <3>3, <3>4
    <2>4. \A m \in F.results :
            m.job = j /\ m.dev \in S /\ m \in [job : Job, dev : Dev, attempt : Nat, ok : BOOLEAN]
      BY <1>1, <1>3, <2>6
    <2>5. /\ F.calls \subseteq {Call(j, d, J.attempts[d], 1) : d \in S}
          /\ F.recording = IF J.kind = "recording" THEN {c.dev : c \in F.calls} ELSE {}
          /\ F.calls = {} /\ F.recording \cap recording = {}
      BY <2>1, <2>2
    <2> QED BY <2>3, <2>4, <2>5 DEF CallsOf
  <1>9. CASE Chain(J.kind) # <<>>
    <2>1. /\ F.calls = new \ deny
          /\ F.results = {Refused(c) : c \in deny}
          /\ F.recording = {c.dev : c \in {x \in new \ deny : J.kind = "recording"}}
      BY <1>9 DEF FirstCalls
    <2>2. Len(Chain(J.kind)) >= 1 BY <1>7, <1>9, ChainLength
    <2>6. /\ \A c \in deny : Refused(c) \in F.results
          /\ \A m \in F.results : \E c \in deny : m = Refused(c)
      BY <2>1
    <2> HIDE DEF new, deny, Done, Refused
    <2>3. ASSUME NEW d \in S
          PROVE  \E x : /\ {c \in F.calls : c.dev = d} \cup {m \in F.results : m.dev = d} = {x}
                       /\ x.attempt = J.attempts[d]
      <3>1. PICK c \in new : c.dev = d BY <1>2
      <3>2. \A e \in new : e.dev = d => e = c BY <1>1, <3>1
      <3>3. c.attempt = J.attempts[d] BY <1>4, <3>1
      <3>4. CASE c \in deny
        <4>1. {e \in F.calls : e.dev = d} = {} BY <2>1, <3>2, <3>4
        <4>2. {m \in F.results : m.dev = d} = {Refused(c)}
          BY <1>3, <1>5, <2>6, <3>1, <3>2, <3>4
        <4>3. Refused(c).attempt = J.attempts[d] BY <1>3, <3>3
        <4> QED BY <4>1, <4>2, <4>3
      <3>5. CASE c \notin deny
        <4>1. {e \in F.calls : e.dev = d} = {c} BY <2>1, <3>1, <3>2, <3>5
        <4>2. {m \in F.results : m.dev = d} = {} BY <1>3, <1>5, <2>6, <3>2, <3>5
        <4> QED BY <3>3, <4>1, <4>2
      <3> QED BY <3>4, <3>5
    <2>4. \A m \in F.results :
            m.job = j /\ m.dev \in S /\ m \in [job : Job, dev : Dev, attempt : Nat, ok : BOOLEAN]
      BY <1>1, <1>3, <1>5, <2>6
    <2>5. F.calls \subseteq {Call(j, d, J.attempts[d], 1) : d \in S} BY <2>1 DEF new
    <2>8. F.recording = IF J.kind = "recording" THEN {c.dev : c \in F.calls} ELSE {} BY <2>1
    <2>9. F.recording \cap recording = {} BY <1>6, <2>1
    <2> QED BY <2>2, <2>3, <2>4, <2>5, <2>8, <2>9 DEF CallsOf
  <1> QED BY <1>8, <1>9

\* A handler that has moved job j, ending the items D whose results it took, and called the
\* items it began.
LEMMA HandledKeeps ==
  ASSUME BInv, NEW j \in Job, NEW C \in BatchRecord, NEW D \in SUBSET Dev,
         NEW taken \in SUBSET posted, Handled(j, C, taken), ordered' \in 0 .. JobCommands,
         batch.job[j].status # "gone",
         \A i \in Job : i # j => C.job[i] = batch.job[i],
         Moves(batch.job[j], C.job[j], D), Alive(C.job[j]),
         C.job[j].kind = batch.job[j].kind \/ batch.job[j].status = "none",
         \A m \in taken : m.job = j /\ m.dev \in D,
         \A d \in D : Pending(j, d) \subseteq taken
  PROVE  BInv'
  <1> DEFINE J == batch.job[j]
             K == C.job[j]
             S == {d \in Dev : K.attempts[d] > J.attempts[d]}
  <1>17. PICK able \in SUBSET S :
           /\ batch' = C
           /\ calls' = calls \cup FirstCalls(j, K, S, able).calls
           /\ recording' = recording \cup FirstCalls(j, K, S, able).recording
           /\ posted' = (posted \ taken) \cup FirstCalls(j, K, S, able).results
    BY DEF Handled
  <1> DEFINE F == FirstCalls(j, K, S, able)
  <1>1. /\ batch' = C /\ calls' = calls \cup F.calls /\ recording' = recording \cup F.recording
        /\ posted' = (posted \ taken) \cup F.results
    BY <1>17
  <1>2. J \in JobState /\ K \in JobState BY DEF BInv, BatchTypeOK, BatchRecord
  <1>3. K.attempts \in [Dev -> Nat] /\ J.attempts \in [Dev -> Nat] BY <1>2, FieldsOfJob
  <1>4. /\ \A d \in S : K.item[d] = "running" /\ J.item[d] # "running"
        /\ \A d \in Dev \ S : K.attempts[d] = J.attempts[d]
        /\ \A d \in Dev \ S : K.item[d] = "running" => J.item[d] = "running" /\ d \notin D
        /\ \A d \in Dev \ S : J.item[d] = "running" /\ d \notin D => K.item[d] = "running"
    BY <1>3 DEF Moves
  <1>15. F = FirstCalls(j, K, S, able) /\ S \in SUBSET Dev /\ able \in SUBSET Dev OBVIOUS
  <1>16. batch.job[j] = J /\ C.job[j] = K OBVIOUS
  <1> HIDE DEF J, K, S, F
  <1>5. /\ F.calls \subseteq {Call(j, d, K.attempts[d], 1) : d \in S}
        /\ F.calls # {} => Len(Chain(K.kind)) >= 1
        /\ \A m \in F.results :
             m.job = j /\ m.dev \in S /\ m \in [job : Job, dev : Dev, attempt : Nat, ok : BOOLEAN]
        /\ \A d \in S : \E x :
             /\ {c \in F.calls : c.dev = d} \cup {m \in F.results : m.dev = d} = {x}
             /\ x.attempt = K.attempts[d]
        /\ F.recording \cap recording = {}
        /\ F.recording = IF K.kind = "recording" THEN {c.dev : c \in F.calls} ELSE {}
    <2>1. CallsOf(j, K, S, F) BY <1>2, <1>15, FirstCallsAre
    <2> QED BY <2>1 DEF CallsOf
  <1>6. \A c \in F.calls : /\ c \in CallRecord /\ c.job = j /\ c.dev \in S /\ c.link = 1
                          /\ c = Call(j, c.dev, K.attempts[c.dev], 1)
    <2> TAKE c \in F.calls
    <2>1. PICK d \in S : c = Call(j, d, K.attempts[d], 1) BY <1>5
    <2>2. d \in Dev /\ K.attempts[d] \in Nat BY <1>3, <1>15
    <2> QED BY <2>1, <2>2 DEF Call, CallRecord
  <1>7. BatchTypeOK'
    <2>1. batch' \in BatchRecord BY <1>1
    <2>2. calls' \subseteq CallRecord BY <1>1, <1>6 DEF BInv, BatchTypeOK, CallRecord
    <2>3. posted' \subseteq [job : Job, dev : Dev, attempt : Nat, ok : BOOLEAN]
      BY <1>1, <1>5 DEF BInv, BatchTypeOK
    <2>4. F.recording \subseteq Dev BY <1>5, <1>6, <1>15
    <2>5. recording' \subseteq Dev BY <1>1, <2>4 DEF BInv, BatchTypeOK
    <2> QED BY <2>1, <2>2, <2>3, <2>5 DEF BatchTypeOK, BatchRecord, CallRecord
  <1>8. \A i \in Job : batch'.job[i] = IF i = j THEN K ELSE batch.job[i] BY <1>1, <1>16
  <1>9. \A i \in Job : batch'.job[i].status = "none" => batch'.job[i] = NewJob
    BY <1>8, <1>16 DEF BInv, Alive
  <1>10. \A c \in calls :
           /\ c \in CallRecord /\ c.job \in Job
           /\ batch'.job[c.job].status # "none"
           /\ batch'.job[c.job].kind = batch.job[c.job].kind
    <2> TAKE c \in calls
    <2>1. c \in CallRecord /\ c.job \in Job BY DEF BInv, BatchTypeOK, CallRecord
    <2>2. batch.job[c.job].status # "none" BY DEF BInv
    <2>3. CASE c.job = j BY <1>8, <2>1, <2>2, <2>3, <1>16 DEF Alive
    <2>4. CASE c.job # j BY <1>8, <2>1, <2>2, <2>4
    <2> QED BY <2>1, <2>3, <2>4
  <1>11. \A c \in calls' : /\ batch'.job[c.job].status # "none"
                          /\ c.link <= Len(Chain(batch'.job[c.job].kind))
    <2>1. ASSUME NEW c \in F.calls
          PROVE  batch'.job[c.job].status # "none" /\ c.link <= Len(Chain(batch'.job[c.job].kind))
      <3>1. batch'.job[c.job] = K /\ c.link = 1 BY <1>6, <1>8
      <3>2. Len(Chain(K.kind)) >= 1 BY <1>5
      <3>3. Len(Chain(K.kind)) \in Nat BY <1>2, FieldsOfJob, ChainLength
      <3> QED BY <3>1, <3>2, <3>3, <1>16 DEF Alive
    <2> QED BY <1>1, <1>10, <2>1 DEF BInv
  <1>12. \A m \in posted' : Alive(batch'.job[m.job])
    <2>1. ASSUME NEW m \in posted PROVE Alive(batch'.job[m.job])
      <3>1. Alive(batch.job[m.job]) /\ m.job \in Job BY DEF BInv, BatchTypeOK
      <3> QED BY <1>8, <3>1, <1>16
    <2>2. ASSUME NEW m \in F.results PROVE Alive(batch'.job[m.job]) BY <1>5, <1>8, <1>16
    <2> QED BY <1>1, <2>1, <2>2
  <1>13. ASSUME NEW i \in Job, NEW d \in Dev, batch'.job[i].status # "gone"
         PROVE  ItemIsOut(i, d)'
    <2>1. CASE i # j
      <3>1. Pending(i, d)' = Pending(i, d) BY <1>1, <1>5, <1>6, <2>1 DEF Pending
      <3>2. batch'.job[i] = batch.job[i] BY <1>8, <2>1
      <3>3. ItemIsOut(i, d) BY <1>13, <3>2 DEF BInv
      <3> QED BY <3>1, <3>2, <3>3 DEF ItemIsOut
    <2>2. CASE i = j /\ d \in S
      <3>1. Pending(j, d) = {} BY <1>4, <1>15, <1>16, <2>2 DEF BInv, ItemIsOut
      <3>2. Pending(j, d)' = {c \in F.calls : c.dev = d} \cup {m \in F.results : m.dev = d}
        BY <1>1, <1>5, <1>6, <3>1 DEF Pending
      <3>3. PICK x : /\ {c \in F.calls : c.dev = d} \cup {m \in F.results : m.dev = d} = {x}
                     /\ x.attempt = K.attempts[d]
        BY <1>5, <2>2
      <3>4. Pending(j, d)' = {x} /\ x.attempt = batch'.job[j].attempts[d] BY <1>8, <3>2, <3>3
      <3>5. batch'.job[j].item[d] = "running" BY <1>4, <1>8, <2>2
      <3> QED BY <2>2, <3>4, <3>5 DEF ItemIsOut
    <2>3. CASE i = j /\ d \notin S /\ d \in D
      <3>1. \A x \in Pending(j, d) : x \in taken /\ x \in ResultRecord
        BY <2>3 DEF BInv, BatchTypeOK, ResultRecord
      <3>2. Pending(j, d)' = {}
        <4>1. \A c \in calls : ~(c.job = j /\ c.dev = d)
          BY <1>10, <3>1, CallsAreNoResults DEF Pending
        <4>2. \A m \in posted \ taken : ~(m.job = j /\ m.dev = d) BY <3>1 DEF Pending
        <4> QED BY <1>1, <1>5, <1>6, <2>3, <4>1, <4>2 DEF Pending
      <3>3. batch'.job[j].item[d] # "running" BY <1>4, <1>8, <2>3
      <3> QED BY <2>3, <3>2, <3>3 DEF ItemIsOut
    <2>4. CASE i = j /\ d \notin S /\ d \notin D
      <3>1. Pending(j, d)' = Pending(j, d) BY <1>1, <1>5, <1>6, <2>4 DEF Pending
      <3>2. ItemIsOut(j, d) BY DEF BInv
      <3>3. batch'.job[j].attempts[d] = batch.job[j].attempts[d] BY <1>4, <1>8, <2>4, <1>16
      <3>4. batch'.job[j].item[d] = "running" <=> batch.job[j].item[d] = "running"
        BY <1>4, <1>8, <2>4, <1>16
      <3> QED BY <2>4, <3>1, <3>2, <3>3, <3>4 DEF ItemIsOut
    <2> QED BY <2>1, <2>2, <2>3, <2>4
  <1>14. ASSUME NEW d \in Dev PROVE TapeIsMarked(d)'
    <2> DEFINE new == {c \in F.calls : c.dev = d /\ K.kind = "recording"}
    <2>1. Taping(d)' = Taping(d) \cup new
      <3>1. \A c \in F.calls : batch'.job[c.job].kind = K.kind /\ c.link = 1 BY <1>6, <1>8
      <3> QED BY <1>1, <1>10, <3>1 DEF Taping
    <2>2. d \in F.recording <=> new # {} BY <1>5
    <2>3. \A c, e \in new : c = e BY <1>6
    <2>4. TapeIsMarked(d) BY DEF BInv
    <2>5. CASE new = {}
      <3>1. d \in recording' <=> d \in recording BY <1>1, <2>2, <2>5
      <3> QED BY <2>1, <2>4, <2>5, <3>1 DEF TapeIsMarked
    <2>6. CASE new # {}
      <3>1. d \in recording' /\ d \notin recording BY <1>1, <1>5, <2>2, <2>6
      <3>2. Taping(d)' = new BY <2>1, <2>4, <3>1 DEF TapeIsMarked
      <3>3. \E c : new = {c}
        <4> HIDE DEF new
        <4> QED BY <2>3, <2>6
      <3> QED BY <3>1, <3>2, <3>3 DEF TapeIsMarked
    <2> QED BY <2>5, <2>6
  <1> QED BY <1>7, <1>9, <1>11, <1>12, <1>13, <1>14 DEF BInv

-----------------------------------------------------------------------------
(* The steps.                                                              *)

LEMMA StartedMoves ==
  ASSUME NEW o \in Orders
  PROVE  NewJob \in JobState /\ Moves(NewJob, StartedJob(o), {}) /\ Alive(StartedJob(o))
  <1> DEFINE item == [d \in Dev |-> IF d \in Range(o.targets) THEN "queued" ELSE "none"]
             K == [NewJob EXCEPT !.status = "Running", !.kind = o.kind, !.targets = o.targets,
                                 !.width = o.width, !.item = item]
  <1>1. StartedJob(o) = PumpJob(K)
    <2>1. \A d \in Dev : NewJob.item[d] = "none" BY DEF NewJob
    <2>2. item = [d \in Dev |-> IF d \in Range(o.targets) THEN "queued" ELSE "none"] OBVIOUS
    <2> QED BY DEF StartedJob
  <1>2. NewJob \in JobState BY DEF NewJob, JobState, Kinds
  <1>3. o.kind \in Kinds /\ o.width \in Nat /\ o.targets \in Seq(Dev) BY OrderAssumption
  <1>4. /\ item \in [Dev -> {"none", "queued", "running", "ok", "failed", "cancelled"}]
        /\ \A d \in Dev : item[d] # "running"
    OBVIOUS
  <1> HIDE DEF item
  <1>5. /\ K \in JobState /\ K.status = "Running" /\ K.item = item
        /\ K.attempts = NewJob.attempts
    BY <1>2, <1>3, <1>4 DEF JobState
  <1>6. \A d \in Dev : NewJob.item[d] # "running" BY DEF NewJob
  <1> HIDE DEF K
  <1>7. Alive(K) BY <1>5 DEF Alive
  <1>8. Moves(K, PumpJob(K), {}) /\ Alive(PumpJob(K)) BY <1>5, <1>7, PumpMoves
  <1>9. Moves(NewJob, PumpJob(K), {}) BY <1>4, <1>5, <1>6, <1>8 DEF Moves
  <1> QED BY <1>1, <1>2, <1>8, <1>9

LEMMA KeptIsTyped ==
  ASSUME NEW C \in BatchRecord
  PROVE  Kept(C) \in BatchRecord /\ Kept(C).job = C.job
  <1> DEFINE Active(i) == C.job[C.jobs[i]].status \in {"Running", "Paused"}
             stays == {i \in DOMAIN C.jobs : i <= MaxJobs \/ \E k \in i .. Len(C.jobs) : Active(k)}
             n == Cardinality(stays)
  <1>1. /\ C.jobs \in Seq(Job) /\ DOMAIN C.jobs = 1 .. Len(C.jobs) /\ Len(C.jobs) \in Nat
    BY DEF BatchRecord
  <1>2. IsFiniteSet(1 .. Len(C.jobs)) /\ Cardinality(1 .. Len(C.jobs)) = Len(C.jobs)
    BY <1>1, FS_Interval
  <1>3. stays \subseteq 1 .. Len(C.jobs) BY <1>1
  <1>4. Kept(C) = [C EXCEPT !.jobs = SubSeq(@, 1, n),
                            !.doomed = @ \cup {C.jobs[i] : i \in DOMAIN C.jobs \ stays}]
    BY DEF Kept
  <1> HIDE DEF stays
  <1>5. n \in Nat /\ n <= Len(C.jobs) BY <1>2, <1>3, FS_Subset, FS_CardinalityType
  <1> HIDE DEF n
  <1>6. SubSeq(C.jobs, 1, n) \in Seq(Job) BY <1>1, <1>5
  <1>7. {C.jobs[i] : i \in DOMAIN C.jobs \ stays} \subseteq Job BY <1>1
  <1> QED BY <1>4, <1>6, <1>7 DEF BatchRecord

\* A handler that leaves the manager alone.
LEMMA JobKeeps ==
  ASSUME BInv, NEW j \in Job, NEW K, NEW D \in SUBSET Dev, NEW taken \in SUBSET posted,
         Handled(j, [batch EXCEPT !.job[j] = K], taken), ordered' \in 0 .. JobCommands,
         Alive(batch.job[j]), Moves(batch.job[j], K, D), Alive(K), K.kind = batch.job[j].kind,
         \A m \in taken : m.job = j /\ m.dev \in D,
         \A d \in D : Pending(j, d) \subseteq taken
  PROVE  BInv'
  <1> DEFINE C == [batch EXCEPT !.job[j] = K]
  <1>1. batch \in BatchRecord BY DEF BInv, BatchTypeOK, BatchRecord
  <1>2. K \in JobState BY DEF Moves
  <1>3. C \in BatchRecord /\ C.job[j] = K /\ \A i \in Job : i # j => C.job[i] = batch.job[i]
    BY <1>1, <1>2 DEF BatchRecord
  <1>4. Handled(j, C, taken) OBVIOUS
  <1> HIDE DEF C
  <1>5. batch.job[j].status # "gone" BY DEF Alive
  <1> QED BY <1>3, <1>4, <1>5, HandledKeeps

LEMMA StartJobKeeps ==
  ASSUME BInv, NEW j \in Job, NEW o \in Orders, StartJob(j, o)
  PROVE  BInv'
  <1> DEFINE B == [batch EXCEPT !.jobs = <<j>> \o @]
             C == [Kept(B) EXCEPT !.job[j] = StartedJob(o)]
  <1>1. batch \in BatchRecord BY DEF BInv, BatchTypeOK, BatchRecord
  <1>2. B \in BatchRecord /\ B.job = batch.job
    <2>1. batch.jobs \in Seq(Job) BY <1>1 DEF BatchRecord
    <2>2. <<j>> \o batch.jobs \in Seq(Job) BY <2>1
    <2> QED BY <1>1, <2>2 DEF BatchRecord
  <1>3. Handled(j, C, {}) /\ ordered' = ordered BY DEF StartJob
  <1> HIDE DEF B
  <1>4. Kept(B) \in BatchRecord /\ Kept(B).job = batch.job BY <1>2, KeptIsTyped
  <1>5. batch.job[j] = NewJob BY DEF StartJob, BInv
  <1>6. Moves(NewJob, StartedJob(o), {}) /\ Alive(StartedJob(o)) BY StartedMoves
  <1>7. StartedJob(o) \in JobState BY <1>6 DEF Moves
  <1>8. C \in BatchRecord /\ C.job[j] = StartedJob(o)
        /\ \A i \in Job : i # j => C.job[i] = batch.job[i]
    BY <1>4, <1>7 DEF BatchRecord
  <1> HIDE DEF C
  <1>9. ordered' \in 0 .. JobCommands BY <1>3 DEF BInv, BatchTypeOK
  <1>10. batch.job[j].status = "none" BY DEF StartJob
  <1>11. Moves(batch.job[j], C.job[j], {}) /\ Alive(C.job[j]) BY <1>5, <1>6, <1>8
  <1> QED BY <1>3, <1>8, <1>9, <1>10, <1>11, HandledKeeps

LEMMA OrderKeeps ==
  ASSUME BInv, NEW j \in Job, Order(j)
  PROVE  BInv'
  <1> DEFINE J == batch.job[j]
  <1>1. J \in JobState BY DEF BInv, BatchTypeOK
  <1>2. PICK K : /\ Handled(j, [batch EXCEPT !.job[j] = K], {})
                 /\ Alive(J)
                 /\ K \in {PauseJob(J), ResumeJob(J), CancelJob(J), RetryJob(J)}
    BY DEF Order, Alive, Over
  <1>3. ordered' \in 0 .. JobCommands BY KeptAssumption DEF Order, BInv, BatchTypeOK
  <1> HIDE DEF J
  <1>4. Moves(J, K, {}) /\ Alive(K) /\ K.kind = J.kind
    BY <1>1, <1>2, PauseMoves, ResumeMoves, CancelMoves, RetryMoves
  <1>5. Alive(batch.job[j]) /\ Moves(batch.job[j], K, {}) /\ K.kind = batch.job[j].kind
    BY <1>2, <1>4 DEF J
  <1> QED BY <1>2, <1>3, <1>4, <1>5, JobKeeps

LEMMA TakeResultKeeps ==
  ASSUME BInv, NEW m \in posted, TakeResult(m)
  PROVE  BInv'
  <1>1. m \in ResultRecord /\ m.job \in Job /\ m.dev \in Dev /\ m.ok \in BOOLEAN
    BY DEF BInv, BatchTypeOK, ResultRecord
  <1> DEFINE j == m.job
             J == batch.job[j]
             K == ItemDone(J, m.dev, m.attempt, m.ok)
             D == {m.dev}
             T == {m}
  <1>2. J \in JobState /\ Alive(J) BY <1>1 DEF BInv, BatchTypeOK
  <1>3. m \in Pending(j, m.dev) BY DEF Pending
  <1>4. J.item[m.dev] = "running" /\ Pending(j, m.dev) = {m} /\ m.attempt = J.attempts[m.dev]
    <2>1. ItemIsOut(j, m.dev) BY <1>1, <1>2 DEF BInv, Alive
    <2> QED BY <2>1, <1>3 DEF ItemIsOut
  <1>5. Handled(j, [batch EXCEPT !.job[j] = K], T) /\ ordered' = ordered
    BY <1>1 DEF TakeResult, BInv, BatchTypeOK
  <1>6. Moves(J, K, D) /\ Alive(K) /\ K.kind = J.kind BY <1>1, <1>2, <1>4, DoneMoves, SMTT(30)
  <1>7. ordered' \in 0 .. JobCommands BY <1>5 DEF BInv, BatchTypeOK
  <1>8. /\ T \in SUBSET posted /\ D \in SUBSET Dev /\ j \in Job
        /\ \A x \in T : x.job = j /\ x.dev \in D
        /\ \A d \in D : Pending(j, d) \subseteq T
    BY <1>1, <1>4
  <1>9. batch.job[j] = J OBVIOUS
  <1> HIDE DEF j, J, K, D, T
  <1>10. Alive(batch.job[j]) /\ Moves(batch.job[j], K, D) /\ K.kind = batch.job[j].kind
    BY <1>2, <1>6, <1>9
  <1> QED BY <1>5, <1>6, <1>7, <1>8, <1>10, JobKeeps

LEMMA DeleteJobKeeps ==
  ASSUME BInv, NEW j \in Job, DeleteJob(j)
  PROVE  BInv'
  <1>1. batch \in BatchRecord /\ batch.job[j] \in JobState BY DEF BInv, BatchTypeOK, BatchRecord
  <1>2. /\ batch' = [batch EXCEPT !.doomed = @ \ {j}, !.job[j].status = "gone"]
        /\ posted' = {m \in posted : m.job # j}
        /\ UNCHANGED <<calls, recording, ordered>>
    BY DEF DeleteJob
  <1>3. [batch.job[j] EXCEPT !.status = "gone"] \in JobState BY <1>1, FieldsOfJob
  <1>4. /\ batch' \in BatchRecord
        /\ \A i \in Job : batch'.job[i] = IF i = j THEN [batch.job[j] EXCEPT !.status = "gone"]
                                         ELSE batch.job[i]
    BY <1>1, <1>2, <1>3 DEF BatchRecord
  <1>5. /\ batch'.job[j].status = "gone"
        /\ \A i \in Job : batch'.job[i].kind = batch.job[i].kind
    BY <1>1, <1>4 DEF JobState
  <1>6. BatchTypeOK' BY <1>2, <1>4 DEF BInv, BatchTypeOK, BatchRecord
  <1>7. \A i \in Job : batch'.job[i].status = "none" => batch'.job[i] = NewJob
    BY <1>4, <1>5 DEF BInv
  <1>8. \A c \in calls' : /\ batch'.job[c.job].status # "none"
                         /\ c.link <= Len(Chain(batch'.job[c.job].kind))
    <2> TAKE c \in calls'
    <2>1. c \in calls /\ c.job \in Job BY <1>2 DEF BInv, BatchTypeOK
    <2> QED BY <1>4, <1>5, <2>1 DEF BInv
  <1>9. \A m \in posted' : Alive(batch'.job[m.job])
    <2> TAKE m \in posted'
    <2>1. m \in posted /\ m.job # j /\ m.job \in Job BY <1>2 DEF BInv, BatchTypeOK
    <2> QED BY <1>4, <2>1 DEF BInv
  <1>10. ASSUME NEW i \in Job, NEW d \in Dev, batch'.job[i].status # "gone"
         PROVE  ItemIsOut(i, d)'
    <2>1. i # j BY <1>5, <1>10
    <2>2. Pending(i, d)' = Pending(i, d) BY <1>2, <2>1 DEF Pending
    <2>3. batch'.job[i] = batch.job[i] BY <1>4, <2>1
    <2>4. ItemIsOut(i, d) BY <1>10, <2>3 DEF BInv
    <2> QED BY <2>2, <2>3, <2>4 DEF ItemIsOut
  <1>11. ASSUME NEW d \in Dev PROVE TapeIsMarked(d)'
    <2>1. \A c \in calls : c.job \in Job BY DEF BInv, BatchTypeOK
    <2>2. Taping(d)' = Taping(d) BY <1>2, <1>5, <2>1 DEF Taping
    <2>3. TapeIsMarked(d) BY DEF BInv
    <2> QED BY <1>2, <2>2, <2>3 DEF TapeIsMarked
  <1> QED BY <1>6, <1>7, <1>8, <1>9, <1>10, <1>11 DEF BInv

LEMMA AnswerKeeps ==
  ASSUME BInv, NEW c \in calls, NEW a \in Answers, Answer(c, a)
  PROVE  BInv'
  <1> DEFINE J == batch.job[c.job]
             ends == a \in Chain(J.kind)[c.link].ends \/ c.link = Len(Chain(J.kind))
             next == [c EXCEPT !.link = @ + 1]
             result == Result(c, a = "ok")
  <1>1. /\ c \in CallRecord /\ c.job \in Job /\ c.dev \in Dev /\ c.attempt \in Nat
        /\ c.link \in 1 .. 3 /\ J \in JobState
    BY DEF BInv, BatchTypeOK, CallRecord
  <1>2. /\ calls' = (calls \ {c}) \cup (IF ends THEN {} ELSE {next})
        /\ posted' = IF ends /\ J.status # "gone" THEN posted \cup {result} ELSE posted
        /\ recording' = IF J.kind = "recording" /\ c.link = 1 THEN recording \ {c.dev} ELSE recording
        /\ UNCHANGED <<batch, ordered>>
    BY DEF Answer
  <1>3. /\ result \in ResultRecord
        /\ result.job = c.job /\ result.dev = c.dev /\ result.attempt = c.attempt
    <2> DEFINE ok == (a = "ok")
    <2>1. ok \in BOOLEAN OBVIOUS
    <2> HIDE DEF ok
    <2>2. /\ Result(c, ok) \in ResultRecord
          /\ Result(c, ok).job = c.job /\ Result(c, ok).dev = c.dev
          /\ Result(c, ok).attempt = c.attempt
      BY <1>1, <2>1 DEF Result, ResultRecord
    <2> QED BY <2>2 DEF ok
  <1>4. /\ next.job = c.job /\ next.dev = c.dev /\ next.attempt = c.attempt
        /\ next.link = c.link + 1
    BY <1>1 DEF CallRecord
  <1>5. J.status # "none" /\ c.link <= Len(Chain(J.kind)) BY DEF BInv
  <1>6. Len(Chain(J.kind)) \in 0 .. 3 BY <1>1, FieldsOfJob, ChainLength
  <1>7. ~ends => next \in CallRecord /\ c.link + 1 <= Len(Chain(J.kind))
    <2> DEFINE length == Len(Chain(J.kind))
    <2>1. /\ ~ends => c.link # length
          /\ c.link \in 1 .. 3 /\ c.link <= length /\ length \in 0 .. 3
      BY <1>1, <1>5, <1>6
    <2> HIDE DEF length, ends, J
    <2>2. ~ends => c.link + 1 <= length /\ c.link + 1 \in 1 .. 3 BY <2>1
    <2>3. ~ends => c.link + 1 <= Len(Chain(J.kind)) /\ c.link + 1 \in 1 .. 3
      BY <2>2 DEF length
    <2> QED BY <1>1, <2>3 DEF CallRecord
  <1>8. batch.job[c.job] = J OBVIOUS
  <1> HIDE DEF J, ends, next, result
  <1>9. BatchTypeOK' BY <1>2, <1>3, <1>7 DEF BInv, BatchTypeOK, CallRecord, ResultRecord
  <1>10. \A j \in Job : batch'.job[j].status = "none" => batch'.job[j] = NewJob BY <1>2 DEF BInv
  <1>11. \A e \in calls' : /\ batch'.job[e.job].status # "none"
                          /\ e.link <= Len(Chain(batch'.job[e.job].kind))
    <2> TAKE e \in calls'
    <2>1. CASE e \in calls BY <1>2, <2>1 DEF BInv
    <2>2. CASE e \notin calls
      <3>1. e = next /\ ~ends BY <1>2, <2>2
      <3> QED BY <1>2, <1>4, <1>5, <1>7, <1>8, <3>1
    <2> QED BY <2>1, <2>2
  <1>12. \A m \in posted' : Alive(batch'.job[m.job]) BY <1>2, <1>3, <1>5, <1>8 DEF BInv, Alive
  <1>13. ASSUME NEW j \in Job, NEW d \in Dev, batch'.job[j].status # "gone"
         PROVE  ItemIsOut(j, d)'
    <2>1. ItemIsOut(j, d) BY <1>2, <1>13 DEF BInv
    <2>2. CASE j = c.job /\ d = c.dev
      <3>1. J.status # "gone" BY <1>2, <1>8, <1>13, <2>2
      <3>2. c \in Pending(j, d) BY <2>2 DEF Pending
      <3>3. /\ batch.job[j].item[d] = "running" /\ Pending(j, d) = {c}
            /\ c.attempt = batch.job[j].attempts[d]
        BY <2>1, <3>2 DEF ItemIsOut
      <3>4. /\ \A e \in calls : e.job = j /\ e.dev = d => e = c
            /\ \A m \in posted : ~(m.job = j /\ m.dev = d)
        <4>1. \A m \in posted : m \in ResultRecord BY DEF BInv, BatchTypeOK, ResultRecord
        <4>2. c \notin posted BY <1>1, <4>1, CallsAreNoResults
        <4> QED BY <3>3, <4>2 DEF Pending
      <3>5. Pending(j, d)' = {IF ends THEN result ELSE next}
        <4>1. CASE ends
          <5>1. calls' = calls \ {c} /\ posted' = posted \cup {result} BY <1>2, <3>1, <4>1
          <5> QED BY <1>3, <2>2, <3>4, <4>1, <5>1 DEF Pending
        <4>2. CASE ~ends
          <5>1. calls' = (calls \ {c}) \cup {next} /\ posted' = posted BY <1>2, <4>2
          <5> QED BY <1>4, <2>2, <3>4, <4>2, <5>1 DEF Pending
        <4> QED BY <4>1, <4>2
      <3>6. (IF ends THEN result ELSE next).attempt = batch.job[j].attempts[d]
        BY <1>3, <1>4, <3>3
      <3> QED BY <1>2, <3>3, <3>5, <3>6 DEF ItemIsOut
    <2>3. CASE ~(j = c.job /\ d = c.dev)
      <3>1. Pending(j, d)' = Pending(j, d) BY <1>2, <1>3, <1>4, <2>3 DEF Pending
      <3> QED BY <1>2, <2>1, <3>1 DEF ItemIsOut
    <2> QED BY <2>2, <2>3
  <1>14. ASSUME NEW d \in Dev PROVE TapeIsMarked(d)'
    <2>1. TapeIsMarked(d) BY DEF BInv
    <2>2. next.link # 1 BY <1>1, <1>4
    <2>3. Taping(d)' = Taping(d) \ {c}
      <3>1. calls' \subseteq (calls \ {c}) \cup {next} /\ calls \ {c} \subseteq calls' BY <1>2
      <3>2. batch' = batch BY <1>2
      <3> QED BY <2>2, <3>1, <3>2 DEF Taping
    <2>4. CASE c \in Taping(d)
      <3>1. d = c.dev /\ J.kind = "recording" /\ c.link = 1 BY <1>8, <2>4 DEF Taping
      <3>2. d \notin recording' BY <1>2, <3>1
      <3>3. Taping(d) = {c} BY <2>1, <2>4 DEF TapeIsMarked
      <3> QED BY <2>3, <3>2, <3>3 DEF TapeIsMarked
    <2>5. CASE c \notin Taping(d)
      <3>1. ~(d = c.dev /\ J.kind = "recording" /\ c.link = 1) BY <1>8, <2>5 DEF Taping
      <3>2. d \in recording' <=> d \in recording BY <1>2, <3>1
      <3>3. Taping(d)' = Taping(d) BY <2>3, <2>5
      <3> QED BY <2>1, <3>2, <3>3 DEF TapeIsMarked
    <2> QED BY <2>4, <2>5
  <1> QED BY <1>9, <1>10, <1>11, <1>12, <1>13, <1>14 DEF BInv

LEMMA BatchInitSound == BatchInit => BInv
  <1> SUFFICES ASSUME BatchInit PROVE BInv OBVIOUS
  <1>1. NewJob \in JobState BY DEF NewJob, JobState, Kinds
  <1>2. /\ batch = [job |-> [j \in Job |-> NewJob], jobs |-> <<>>, doomed |-> {}]
        /\ calls = {} /\ posted = {} /\ recording = {} /\ ordered = 0
    BY DEF BatchInit
  <1>3. BatchTypeOK BY <1>1, <1>2, KeptAssumption DEF BatchTypeOK
  <1>4. \A j \in Job : batch.job[j] = NewJob BY <1>2
  <1>5. \A j \in Job, d \in Dev : Pending(j, d) = {} /\ batch.job[j].item[d] # "running"
    BY <1>2, <1>4 DEF Pending, NewJob
  <1>6. \A d \in Dev : Taping(d) = {} /\ d \notin recording BY <1>2 DEF Taping
  <1> QED BY <1>2, <1>3, <1>4, <1>5, <1>6 DEF BInv, ItemIsOut, TapeIsMarked

LEMMA BatchStepKeeps ==
  ASSUME BInv, [BatchNext]_batchVars
  PROVE  BInv'
  <1>1. CASE UNCHANGED batchVars
    <2>1. UNCHANGED <<batch, calls, posted, recording, ordered>> BY <1>1 DEF batchVars
    <2>2. \A j \in Job, d \in Dev : ItemIsOut(j, d)' = ItemIsOut(j, d)
      BY <2>1 DEF ItemIsOut, Pending
    <2>3. \A d \in Dev : TapeIsMarked(d)' = TapeIsMarked(d) BY <2>1 DEF TapeIsMarked, Taping
    <2> QED BY <2>1, <2>2, <2>3 DEF BInv, BatchTypeOK
  <1> QED BY <1>1, StartJobKeeps, OrderKeeps, DeleteJobKeeps, TakeResultKeeps, AnswerKeeps
          DEF BatchNext

LEMMA AlwaysBInv == BatchSpec => []BInv
  BY BatchInitSound, BatchStepKeeps, PTL DEF BatchSpec

\* No result is lost and none is taken twice or for another attempt, however results,
\* commands to the job, its deletion and the answers of adb follow one another.
THEOREM ItemsAreAlwaysOut == BatchSpec => []ItemsAreOut
  <1>1. BInv => ItemsAreOut
    <2> SUFFICES ASSUME BInv, NEW j \in Job, NEW d \in Dev, batch.job[j].status # "gone"
                 PROVE  /\ Cardinality(Pending(j, d)) = IF batch.job[j].item[d] = "running" THEN 1 ELSE 0
                        /\ \A x \in Pending(j, d) : x.attempt = batch.job[j].attempts[d]
      BY DEF ItemsAreOut, BInv
    <2>1. ItemIsOut(j, d) BY DEF BInv
    <2> QED BY <2>1, FS_Singleton, FS_EmptySet DEF ItemIsOut
  <1> QED BY <1>1, AlwaysBInv, PTL

\* A device is never recorded twice at a time, also not by a job that was deleted, and the
\* mark that prevents it never stays behind.
THEOREM RecordingsAreExclusive == BatchSpec => []RecordingIsExclusive
  <1>1. BInv => RecordingIsExclusive
    <2> SUFFICES ASSUME BInv, NEW d \in Dev
                 PROVE  Cardinality(Taping(d)) = IF d \in recording THEN 1 ELSE 0
      BY DEF RecordingIsExclusive, Taping
    <2>1. TapeIsMarked(d) BY DEF BInv
    <2> QED BY <2>1, FS_Singleton, FS_EmptySet DEF TapeIsMarked
  <1> QED BY <1>1, AlwaysBInv, PTL
=============================================================================

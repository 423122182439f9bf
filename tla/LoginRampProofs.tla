--------------------------- MODULE LoginRampProofs ---------------------------
(***************************************************************************)
(* The safety properties of the login ramp for any number of players,      *)
(* slots and any durations: the requests of the logins and the keepalive   *)
(* never overlap for a player, they fit into the client, a connected       *)
(* player is never idle for longer than a period, a timeout and a pause,   *)
(* and the ramp is over within its limit and one request timeout.          *)
(***************************************************************************)
EXTENDS LoginRamp, FiniteSetTheorems, TLAPS

Idle(p) == \A c \in calls : c.who # p

\* Every request in flight belongs to a coroutine that awaits it.
CallsAwaited ==
  \A c \in calls :
    /\ c.since <= clock
    /\ c.kind = "login" => login[c.who] = "asking"
    /\ c.kind = "poll" => /\ login[c.who] = "in"
                          /\ beat \in {"polling", "crashed"}
                          /\ c.since <= Total

\* How far the ramp has come, and when.
Progress ==
  /\ done => gathered # "no"
  /\ ~done => clock <= Total
  /\ clock <= Total + Timeout
  /\ beat = "ended" => done
  /\ gathered = "complete" => \A p \in Players : login[p] = "in"
  /\ outcome = "ready" => beat = "ended" /\ gathered = "complete" /\ ~lost
  /\ lookedAt <= clock
  /\ beat = "pausing" => clock <= lookedAt + Pause

\* The rhythm of the keepalive task, as an idle connected player sees it: the
\* task cannot have begun its current polls later than a period after the
\* player's last request, or the player would be among them.
RhythmOf(p) ==
  /\ seen[p] <= clock
  /\ \A c \in calls : c.who = p => nextPoll[p] <= c.since + Period
  /\ Idle(p) =>
       /\ nextPoll[p] <= seen[p] + Period
       /\ beat = "looking" => clock <= seen[p] + Period + Timeout + Pause
       /\ beat = "polling" => /\ clock <= seen[p] + Period + Timeout
                              /\ \A c \in Polls : c.since <= seen[p] + Period
       /\ beat = "pausing" => lookedAt <= seen[p] + Period + Timeout

Rhythm ==
  gathered = "no" /\ beat # "crashed" =>
    \A p \in Players : login[p] = "in" => RhythmOf(p)

IInv == TypeOK /\ OneRequestEach /\ CallsAwaited /\ Progress /\ Rhythm

LEMMA StaggerType == \A p \in Players : Stagger(p) \in Nat /\ Stagger(p) <= Period
  BY RampAssumption DEF Players, Stagger

LEMMA PlayersAreFinite == IsFiniteSet(Players) /\ Cardinality(Players) = N
  BY RampAssumption, FS_Interval DEF Players

\* Players without a request in flight leave room for as many more.
LEMMA RoomForTheIdle ==
  ASSUME TypeOK, OneRequestEach, NEW S \in SUBSET Players,
         \A p \in S : Idle(p)
  PROVE  /\ IsFiniteSet(calls)
         /\ Cardinality(calls) \in Nat
         /\ Cardinality(S) \in Nat
         /\ Cardinality(calls) + Cardinality(S) <= Capacity
<1> DEFINE f == [c \in calls |-> c.who]
           T == Players \ S
<1>1. IsFiniteSet(T) /\ Cardinality(T) = N - Cardinality(Players \cap S)
  BY PlayersAreFinite, FS_Difference
<1>2. Players \cap S = S
  OBVIOUS
<1>3. \A c \in calls : c.who \in T
  BY DEF TypeOK, Idle
<1>4. \A c, d \in calls : f[c] = f[d] => c = d
  BY DEF OneRequestEach
<1>5. f \in Injection(calls, T)
  BY <1>3, <1>4 DEF Injection, IsInjective
<1>6. IsFiniteSet(calls) /\ Cardinality(calls) <= Cardinality(T)
  BY <1>1, <1>5, FS_Injection
<1>7. Cardinality(calls) \in Nat
  BY <1>6, FS_CardinalityType
<1>8. IsFiniteSet(S) /\ Cardinality(S) \in Nat
  BY PlayersAreFinite, FS_Subset, FS_CardinalityType
<1>9. Cardinality(T) = N - Cardinality(S)
  BY <1>1, <1>2
<1>10. N \in Nat /\ Capacity \in Nat /\ N <= Capacity
  BY RampAssumption
<1>11. Cardinality(calls) + Cardinality(S) <= Capacity
  <2> DEFINE a == Cardinality(calls)
             b == Cardinality(S)
             t == Cardinality(T)
  <2>1. a \in Nat /\ b \in Nat /\ a <= t /\ t = N - b
    BY <1>6, <1>7, <1>8, <1>9
  <2> HIDE DEF a, b, t
  <2>2. a + b <= Capacity
    BY <2>1, <1>10
  <2> QED
    BY <2>2 DEF a, b
<1> QED
  BY <1>6, <1>7, <1>8, <1>11

\* Nobody the keepalive task is about to poll, and nobody who waits for the
\* semaphore, has a request in flight.
LEMMA Room == IInv => GeneratorHasRoom
<1> SUFFICES ASSUME IInv PROVE GeneratorHasRoom
  OBVIOUS
<1>1. ASSUME beat = "looking" PROVE Cardinality(calls) + Cardinality(Due) <= Capacity
  <2>1. Due \in SUBSET Players
    BY DEF Due
  <2>2. \A p \in Due : Idle(p)
    BY <1>1 DEF IInv, TypeOK, CallsAwaited, Due, Idle
  <2> QED
    BY <2>1, <2>2, RoomForTheIdle DEF IInv
<1>2. ASSUME NEW w \in Waiting PROVE Cardinality(calls) < Capacity
  <2>1. {w} \in SUBSET Players /\ \A p \in {w} : Idle(p)
    BY DEF Waiting, IInv, TypeOK, CallsAwaited, Idle
  <2>2. Cardinality({w}) = 1
    BY FS_Singleton
  <2> QED
    BY <2>1, <2>2, RoomForTheIdle, RampAssumption DEF IInv
<1> QED
  BY <1>1, <1>2 DEF GeneratorHasRoom

\* A look polls every player that is due.
LEMMA LooksAtAllDue ==
  ASSUME IInv, beat = "looking", NEW sent \in SUBSET Due,
         sent = Due \/ Cardinality(calls) + Cardinality(sent) = Capacity
  PROVE  sent = Due
<1>1. SUFFICES ASSUME Cardinality(calls) + Cardinality(sent) = Capacity PROVE sent = Due
  OBVIOUS
<1>2. Due \in SUBSET Players /\ \A p \in Due : Idle(p)
  BY DEF IInv, TypeOK, CallsAwaited, Due, Idle
<1>3. /\ Cardinality(calls) \in Nat
      /\ Cardinality(Due) \in Nat
      /\ Cardinality(calls) + Cardinality(Due) <= Capacity
  BY <1>2, RoomForTheIdle DEF IInv
<1>4. IsFiniteSet(Due)
  BY <1>2, PlayersAreFinite, FS_Subset
<1>5. /\ Cardinality(sent) <= Cardinality(Due)
      /\ Cardinality(Due) = Cardinality(sent) => Due = sent
      /\ IsFiniteSet(sent)
  BY <1>4, FS_Subset
<1>6. Cardinality(sent) \in Nat
  BY <1>5, FS_CardinalityType
<1> QED
  BY <1>1, <1>3, <1>5, <1>6, RampAssumption

LEMMA Initially == Init => IInv
<1> SUFFICES ASSUME Init PROVE IInv
  OBVIOUS
<1>1. TypeOK
  BY DEF Init, TypeOK, LoginStages, BeatStages
<1>2. OneRequestEach /\ CallsAwaited
  BY DEF Init, OneRequestEach, CallsAwaited
<1>3. Progress
  BY RampAssumption DEF Init, Progress
<1>4. Rhythm
  BY DEF Init, Rhythm
<1> QED
  BY <1>1, <1>2, <1>3, <1>4 DEF IInv

LEMMA Inductive == IInv /\ [Next]_vars => IInv'
<1> SUFFICES ASSUME IInv, [Next]_vars PROVE IInv'
  OBVIOUS
<1>1. ASSUME NEW p \in Players, StartLogin(p) PROVE IInv'
  <2>1. TypeOK'
    BY <1>1, RampAssumption DEF StartLogin, Raise, Turn, Waiting, Call, LoginStages, IInv, TypeOK, ramp, task
  <2>2. OneRequestEach'
    <3>1. \A c \in calls : c.who # p
      BY <1>1 DEF StartLogin, Turn, Waiting, IInv, TypeOK, CallsAwaited
    <3>2. calls' = calls \/ calls' = calls \cup {Call(p, "login")}
      BY <1>1 DEF StartLogin
    <3>3. Call(p, "login").who = p
      BY DEF Call
    <3> QED
      BY <3>1, <3>2, <3>3 DEF IInv, OneRequestEach
  <2>3. CallsAwaited'
    BY <1>1, RampAssumption DEF StartLogin, Raise, Turn, Waiting, Call, LoginStages, CallsAwaited, Polls, IInv, TypeOK, ramp, task
  <2>4. Progress'
    BY <1>1, RampAssumption DEF StartLogin, Raise, Turn, Waiting, Call, LoginStages, Progress, IInv, TypeOK, ramp, task
  <2>5. Rhythm'
    BY <1>1, RampAssumption DEF StartLogin, Raise, Turn, Waiting, Call, LoginStages, Rhythm, RhythmOf, Idle, Polls, IInv, TypeOK, ramp, task
  <2> QED
    BY <2>1, <2>2, <2>3, <2>4, <2>5 DEF IInv
<1>2. ASSUME NEW p \in Players, LoginValid(p) PROVE IInv'
  <2>0. PICK c \in calls : c.who = p /\ c.kind = "login" /\ calls' = calls \ {c}
    BY <1>2 DEF LoginValid
  <2>a. /\ calls' \subseteq calls
        /\ login[p] = "asking"
        /\ \A d \in calls' : d.who # p
    BY <2>0 DEF IInv, TypeOK, OneRequestEach, CallsAwaited
  <2>1. TypeOK'
    BY <1>2, <2>a, StaggerType DEF LoginValid, LoginStages, IInv, TypeOK, ramp, task
  <2>2. OneRequestEach'
    BY <1>2, RampAssumption DEF LoginValid, LoginStages, OneRequestEach, IInv, TypeOK, ramp, task
  <2>3. CallsAwaited'
    BY <1>2, <2>a DEF LoginValid, LoginStages, CallsAwaited, IInv, TypeOK, ramp, task
  <2>4. Progress'
    BY <1>2, RampAssumption DEF LoginValid, LoginStages, Progress, IInv, TypeOK, ramp, task
  <2>5. Rhythm'
    <3> SUFFICES ASSUME gathered' = "no", beat' # "crashed",
                        NEW q \in Players, login'[q] = "in"
                 PROVE  RhythmOf(q)'
      BY DEF Rhythm
    <3>1. CASE q = p
      <4>1. seen'[p] = clock /\ clock' = clock /\ nextPoll'[p] <= clock + Period
        BY <1>2, StaggerType, RampAssumption DEF LoginValid, IInv, TypeOK
      <4>2. \A d \in Polls' : d.since <= clock
        BY <2>a DEF Polls, IInv, CallsAwaited
      <4> QED
        BY <1>2, <2>a, <3>1, <4>1, <4>2, RampAssumption
        DEF LoginValid, RhythmOf, Idle, Polls, IInv, TypeOK, Progress, task
    <3>2. CASE q # p
      <4>1. RhythmOf(q)
        BY <1>2, <3>2 DEF LoginValid, IInv, TypeOK, Rhythm, task
      <4>2. Idle(q) <=> Idle(q)'
        BY <2>0, <3>2 DEF Idle
      <4> QED
        BY <1>2, <2>a, <3>2, <4>1, <4>2
        DEF LoginValid, RhythmOf, Polls, IInv, TypeOK, task
    <3> QED
      BY <3>1, <3>2
  <2> QED
    BY <2>1, <2>2, <2>3, <2>4, <2>5 DEF IInv
<1>3. ASSUME NEW p \in Players, LoginInvalid(p) PROVE IInv'
  <2>0. PICK c \in calls : c.who = p /\ c.kind = "login" /\ calls' = calls \ {c}
    BY <1>3 DEF LoginInvalid
  <2>a. /\ calls' \subseteq calls
        /\ login[p] = "asking"
        /\ \A d \in calls' : d.who # p
    BY <2>0 DEF IInv, TypeOK, OneRequestEach, CallsAwaited
  <2>1. TypeOK'
    BY <1>3, RampAssumption DEF LoginInvalid, Raise, LoginStages, IInv, TypeOK, ramp, task
  <2>2. OneRequestEach'
    BY <1>3, RampAssumption DEF LoginInvalid, Raise, LoginStages, OneRequestEach, IInv, TypeOK, ramp, task
  <2>3. CallsAwaited'
    BY <1>3, <2>a DEF LoginInvalid, Raise, LoginStages, CallsAwaited, IInv, TypeOK, ramp, task
  <2>4. Progress'
    BY <1>3, <2>a DEF LoginInvalid, Raise, LoginStages, Progress, IInv, TypeOK, ramp, task
  <2>5. Rhythm'
    BY <1>3, RampAssumption DEF LoginInvalid, Raise, LoginStages, Rhythm, RhythmOf, Idle, Polls, IInv, TypeOK, ramp, task
  <2> QED
    BY <2>1, <2>2, <2>3, <2>4, <2>5 DEF IInv
<1>4. CASE AllIn
  <2>1. TypeOK'
    BY <1>4, RampAssumption DEF AllIn, IInv, TypeOK, ramp, task
  <2>2. OneRequestEach'
    BY <1>4, RampAssumption DEF AllIn, OneRequestEach, IInv, TypeOK, ramp, task
  <2>3. CallsAwaited'
    BY <1>4, RampAssumption DEF AllIn, CallsAwaited, Polls, IInv, TypeOK, ramp, task
  <2>4. Progress'
    BY <1>4, RampAssumption DEF AllIn, Progress, IInv, TypeOK, ramp, task
  <2>5. Rhythm'
    BY <1>4, RampAssumption DEF AllIn, Rhythm, RhythmOf, Idle, Polls, IInv, TypeOK, ramp, task
  <2> QED
    BY <2>1, <2>2, <2>3, <2>4, <2>5 DEF IInv
<1>5. CASE RampExpires
  <2>1. TypeOK'
    BY <1>5, RampAssumption DEF RampExpires, Polls, Waiting, Asking, LoginStages, IInv, TypeOK, ramp, task
  <2>2. OneRequestEach'
    BY <1>5, RampAssumption DEF RampExpires, Polls, Waiting, Asking, LoginStages, OneRequestEach, IInv, TypeOK, ramp, task
  <2>3. CallsAwaited'
    BY <1>5, RampAssumption DEF RampExpires, Polls, Waiting, Asking, LoginStages, CallsAwaited, Polls, IInv, TypeOK, ramp, task
  <2>4. Progress'
    BY <1>5, RampAssumption DEF RampExpires, Polls, Waiting, Asking, LoginStages, Progress, IInv, TypeOK, ramp, task
  <2>5. Rhythm'
    BY <1>5, RampAssumption DEF RampExpires, Polls, Waiting, Asking, LoginStages, Rhythm, RhythmOf, Idle, Polls, IInv, TypeOK, ramp, task
  <2> QED
    BY <2>1, <2>2, <2>3, <2>4, <2>5 DEF IInv
<1>6. CASE StopBeat
  <2>1. TypeOK'
    BY <1>6, RampAssumption DEF StopBeat, IInv, TypeOK, ramp, task
  <2>2. OneRequestEach'
    BY <1>6, RampAssumption DEF StopBeat, OneRequestEach, IInv, TypeOK, ramp, task
  <2>3. CallsAwaited'
    BY <1>6, RampAssumption DEF StopBeat, CallsAwaited, Polls, IInv, TypeOK, ramp, task
  <2>4. Progress'
    BY <1>6, RampAssumption DEF StopBeat, Progress, IInv, TypeOK, ramp, task
  <2>5. Rhythm'
    BY <1>6, RampAssumption DEF StopBeat, Rhythm, RhythmOf, Idle, Polls, IInv, TypeOK, ramp, task
  <2> QED
    BY <2>1, <2>2, <2>3, <2>4, <2>5 DEF IInv
<1>7. CASE Finish
  <2>1. TypeOK'
    <3>1. gathered \in {"complete", "failed", "timeout"}
      BY <1>7 DEF Finish, IInv, TypeOK, Progress
    <3> QED
      BY <1>7, <3>1 DEF Finish, IInv, TypeOK, ramp, task
  <2>2. OneRequestEach'
    BY <1>7, RampAssumption DEF Finish, OneRequestEach, IInv, TypeOK, ramp, task
  <2>3. CallsAwaited'
    BY <1>7, RampAssumption DEF Finish, CallsAwaited, Polls, IInv, TypeOK, ramp, task
  <2>4. Progress'
    BY <1>7, RampAssumption DEF Finish, Progress, IInv, TypeOK, ramp, task
  <2>5. Rhythm'
    BY <1>7, RampAssumption DEF Finish, Rhythm, RhythmOf, Idle, Polls, IInv, TypeOK, ramp, task
  <2> QED
    BY <2>1, <2>2, <2>3, <2>4, <2>5 DEF IInv
<1>8. CASE Look
  <2>a. CASE done
    <3>1. beat' = "ended" /\ UNCHANGED <<login, gathered, outcome, calls, nextPoll, seen,
                                         lookedAt, lost, done, clock>>
      BY <1>8, <2>a DEF Look, ramp
    <3>2. gathered # "no" /\ Polls = {}
      BY <1>8, <2>a DEF Look, IInv, TypeOK, Progress, CallsAwaited, Polls
    <3> QED
      BY <1>8, <2>a, <3>1, <3>2
      DEF Look, IInv, TypeOK, BeatStages, OneRequestEach, CallsAwaited, Polls, Progress, Rhythm
  <2>b. SUFFICES ASSUME ~done PROVE IInv'
    BY <2>a
  <2>c. /\ beat = "looking" /\ beat' = "polling"
        /\ UNCHANGED <<login, gathered, outcome, seen, lookedAt, done, clock>>
        /\ nextPoll' = [p \in Players |->
                           IF p \in Due THEN clock + Period ELSE nextPoll[p]]
    BY <1>8, <2>b DEF Look, ramp
  <2>d. calls' = calls \cup {Call(p, "poll") : p \in Due} /\ lost' = lost
    <3>1. PICK sent \in SUBSET Due :
            /\ sent = Due \/ Cardinality(calls) + Cardinality(sent) = Capacity
            /\ calls' = calls \cup {Call(p, "poll") : p \in sent}
            /\ lost' = (lost \/ sent # Due)
      BY <1>8, <2>b DEF Look
    <3>2. sent = Due
      BY <2>c, <3>1, LooksAtAllDue
    <3> QED
      BY <3>1, <3>2 DEF IInv, TypeOK
  <2>e. /\ \A c \in calls : c.who \notin Due /\ c.kind = "login"
        /\ \A p \in Due : /\ Call(p, "poll").who = p
                          /\ Call(p, "poll").kind = "poll"
                          /\ Call(p, "poll").since = clock
                          /\ p \in Players /\ login[p] = "in" /\ nextPoll[p] <= clock
    BY <2>c DEF IInv, TypeOK, CallsAwaited, Due, Call
  <2>f. \A c \in calls' : c \in calls \/ \E p \in Due : c = Call(p, "poll")
    BY <2>d
  <2>1. TypeOK'
    <3>1. \A p \in Due : Call(p, "poll") \in [who : Players, kind : {"login", "poll"}, since : Nat]
      BY DEF Due, Call, IInv, TypeOK
    <3> QED
      BY <2>c, <2>d, <3>1, RampAssumption DEF IInv, TypeOK, BeatStages
  <2>2. OneRequestEach'
    BY <2>d, <2>e, <2>f DEF IInv, OneRequestEach
  <2>3. CallsAwaited'
    <3>1. clock <= Total
      BY <2>b DEF IInv, Progress
    <3> QED
      BY <2>c, <2>e, <2>f, <3>1 DEF IInv, TypeOK, CallsAwaited
  <2>4. Progress'
    BY <2>b, <2>c, <2>d DEF IInv, TypeOK, Progress
  <2>5. Rhythm'
    <3> SUFFICES ASSUME gathered = "no", NEW p \in Players, login[p] = "in"
                 PROVE  RhythmOf(p)'
      BY <2>c DEF Rhythm
    <3>1. RhythmOf(p)
      BY <2>c DEF IInv, Rhythm
    <3>2. \A c \in Polls' : c.since = clock
      BY <2>e, <2>f DEF Polls
    <3>3. CASE p \in Due
      <4>1. Call(p, "poll") \in calls' /\ Call(p, "poll").who = p
        BY <2>d, <2>e, <3>3
      <4>2. ~Idle(p)'
        BY <4>1 DEF Idle
      <4>3. \A c \in calls' : c.who = p => c.since = clock
        BY <2>e, <2>f, <3>3
      <4>4. nextPoll'[p] = clock + Period /\ clock' = clock /\ seen'[p] <= clock
        BY <2>c, <3>1, <3>3 DEF RhythmOf
      <4> QED
        BY <2>c, <4>2, <4>3, <4>4, RampAssumption DEF RhythmOf, IInv, TypeOK
    <3>4. CASE p \notin Due
      <4>1. nextPoll'[p] = nextPoll[p] /\ nextPoll[p] > clock
        BY <2>c, <3>4 DEF Due, IInv, TypeOK
      <4>2. Idle(p) /\ \A c \in calls' : c.who # p
        BY <2>c, <2>e, <2>f, <3>4 DEF Idle, IInv, CallsAwaited, TypeOK
      <4>3. clock <= seen[p] + Period
        BY <3>1, <4>1, <4>2, RampAssumption DEF RhythmOf, IInv, TypeOK
      <4> QED
        BY <2>c, <3>1, <3>2, <4>1, <4>2, <4>3, RampAssumption DEF RhythmOf, IInv, TypeOK
    <3> QED
      BY <3>3, <3>4
  <2> QED
    BY <2>1, <2>2, <2>3, <2>4, <2>5 DEF IInv
<1>9. CASE Rest
  <2>1. TypeOK'
    BY <1>9, RampAssumption DEF Rest, BeatStages, IInv, TypeOK, ramp, task
  <2>2. OneRequestEach'
    BY <1>9, RampAssumption DEF Rest, BeatStages, OneRequestEach, IInv, TypeOK, ramp, task
  <2>3. CallsAwaited'
    BY <1>9, RampAssumption DEF Rest, BeatStages, CallsAwaited, Polls, IInv, TypeOK, ramp, task
  <2>4. Progress'
    BY <1>9, RampAssumption DEF Rest, BeatStages, Progress, IInv, TypeOK, ramp, task
  <2>5. Rhythm'
    BY <1>9, RampAssumption DEF Rest, BeatStages, Rhythm, RhythmOf, Idle, Polls, IInv, TypeOK, ramp, task
  <2> QED
    BY <2>1, <2>2, <2>3, <2>4, <2>5 DEF IInv
<1>10. CASE Wake
  <2>1. TypeOK'
    BY <1>10, RampAssumption DEF Wake, BeatStages, IInv, TypeOK, ramp, task
  <2>2. OneRequestEach'
    BY <1>10, RampAssumption DEF Wake, BeatStages, OneRequestEach, IInv, TypeOK, ramp, task
  <2>3. CallsAwaited'
    BY <1>10, RampAssumption DEF Wake, BeatStages, CallsAwaited, Polls, IInv, TypeOK, ramp, task
  <2>4. Progress'
    BY <1>10, RampAssumption DEF Wake, BeatStages, Progress, IInv, TypeOK, ramp, task
  <2>5. Rhythm'
    BY <1>10, RampAssumption DEF Wake, Rhythm, RhythmOf, Idle, Progress, IInv, TypeOK, ramp, task
  <2> QED
    BY <2>1, <2>2, <2>3, <2>4, <2>5 DEF IInv
<1>11. ASSUME NEW c \in calls, PollRaises(c) PROVE IInv'
  <2>1. TypeOK'
    BY <1>11, RampAssumption DEF PollRaises, Polls, BeatStages, IInv, TypeOK, ramp, task
  <2>2. OneRequestEach'
    BY <1>11, RampAssumption DEF PollRaises, Polls, BeatStages, OneRequestEach, IInv, TypeOK, ramp, task
  <2>3. CallsAwaited'
    BY <1>11, RampAssumption DEF PollRaises, BeatStages, CallsAwaited, Polls, IInv, TypeOK, ramp, task
  <2>4. Progress'
    BY <1>11, RampAssumption DEF PollRaises, Polls, BeatStages, Progress, IInv, TypeOK, ramp, task
  <2>5. Rhythm'
    BY <1>11, RampAssumption DEF PollRaises, Polls, BeatStages, Rhythm, RhythmOf, Idle, Polls, IInv, TypeOK, ramp, task
  <2> QED
    BY <2>1, <2>2, <2>3, <2>4, <2>5 DEF IInv
<1>12. ASSUME NEW c \in calls, NEW valid \in BOOLEAN, PollEnds(c, valid) PROVE IInv'
  <2>1. TypeOK'
    BY <1>12, RampAssumption DEF PollEnds, Polls, IInv, TypeOK, ramp, task
  <2>2. OneRequestEach'
    BY <1>12, RampAssumption DEF PollEnds, Polls, OneRequestEach, IInv, TypeOK, ramp, task
  <2>3. CallsAwaited'
    BY <1>12, RampAssumption DEF PollEnds, CallsAwaited, Polls, IInv, TypeOK, ramp, task
  <2>4. Progress'
    BY <1>12, RampAssumption DEF PollEnds, Polls, Progress, IInv, TypeOK, ramp, task
  <2>5. Rhythm'
    <3> SUFFICES ASSUME gathered = "no", beat # "crashed", NEW p \in Players, login[p] = "in"
                 PROVE  RhythmOf(p)'
      BY <1>12 DEF PollEnds, Rhythm, ramp, task
    <3>1. RhythmOf(p)
      BY DEF IInv, Rhythm
    <3>2. calls' \subseteq calls /\ beat = "polling" /\ c \in Polls /\ c.who \in Players
      BY <1>12 DEF PollEnds, Polls, IInv, CallsAwaited, TypeOK
    <3>3. CASE p = c.who
      <4>1. seen'[p] = clock /\ clock' = clock /\ nextPoll'[p] <= c.since + Period
        BY <1>12, <3>1, <3>2, <3>3 DEF PollEnds, RhythmOf, IInv, TypeOK
      <4>2. \A d \in calls : d.since <= clock /\ d.since \in Nat
        BY DEF IInv, CallsAwaited, TypeOK
      <4> QED
        BY <1>12, <3>1, <3>2, <3>3, <4>1, <4>2, RampAssumption
        DEF PollEnds, RhythmOf, Idle, Polls, IInv, TypeOK, task
    <3>4. CASE p # c.who
      <4>1. Idle(p) <=> Idle(p)'
        BY <1>12, <3>4 DEF PollEnds, Idle
      <4> QED
        BY <1>12, <3>1, <3>2, <3>4, <4>1 DEF PollEnds, RhythmOf, Polls, IInv, TypeOK, task
    <3> QED
      BY <3>3, <3>4
  <2> QED
    BY <2>1, <2>2, <2>3, <2>4, <2>5 DEF IInv
<1>13. CASE Tick
  <2>1. TypeOK'
    BY <1>13, RampAssumption DEF Tick, Ready, Rested, IInv, TypeOK, ramp, task
  <2>2. OneRequestEach'
    BY <1>13, RampAssumption DEF Tick, Ready, Rested, OneRequestEach, IInv, TypeOK, ramp, task
  <2>3. CallsAwaited'
    BY <1>13, RampAssumption DEF Tick, Ready, Rested, CallsAwaited, Polls, IInv, TypeOK, ramp, task
  <2>4. Progress'
    <3>1. clock' = clock + 1 /\ UNCHANGED <<done, gathered, outcome, login, beat, lookedAt, lost>>
      BY <1>13 DEF Tick, ramp, task
    <3>2. ~done => clock + 1 <= Total
      BY <1>13, RampAssumption DEF Tick, Ready, IInv, TypeOK
    <3>3. ASSUME done PROVE clock + 1 <= Total + Timeout
      <4>1. beat = "polling" /\ Polls # {}
        BY <1>13, <3>3 DEF Tick, Ready, Rested, IInv, TypeOK, BeatStages
      <4>2. PICK c \in Polls : TRUE
        BY <4>1
      <4>3. c \in calls /\ c.since <= Total /\ c.since \in Nat
        BY <4>2 DEF Polls, IInv, CallsAwaited, TypeOK
      <4>4. clock < c.since + Timeout
        BY <1>13, <4>3, RampAssumption DEF Tick, Ready, IInv, TypeOK
      <4> QED
        BY <4>3, <4>4, RampAssumption DEF IInv, TypeOK
    <3>4. beat = "pausing" => clock + 1 <= lookedAt + Pause
      BY <1>13, RampAssumption DEF Tick, Ready, Rested, IInv, TypeOK
    <3> QED
      BY <3>1, <3>2, <3>3, <3>4, RampAssumption DEF Progress, IInv, TypeOK
  <2>5. Rhythm'
    BY <1>13, RampAssumption DEF Tick, Ready, Rested, Rhythm, RhythmOf, Idle, Polls, IInv, TypeOK, ramp, task
  <2> QED
    BY <2>1, <2>2, <2>3, <2>4, <2>5 DEF IInv
<1>14. CASE UNCHANGED vars
  <2>1. TypeOK'
    BY <1>14, RampAssumption DEF vars, IInv, TypeOK, ramp, task
  <2>2. OneRequestEach'
    BY <1>14, RampAssumption DEF vars, OneRequestEach, IInv, TypeOK, ramp, task
  <2>3. CallsAwaited'
    BY <1>14, RampAssumption DEF vars, CallsAwaited, Polls, IInv, TypeOK, ramp, task
  <2>4. Progress'
    BY <1>14, RampAssumption DEF vars, Progress, IInv, TypeOK, ramp, task
  <2>5. Rhythm'
    BY <1>14, RampAssumption DEF vars, Rhythm, RhythmOf, Idle, Polls, IInv, TypeOK, ramp, task
  <2> QED
    BY <2>1, <2>2, <2>3, <2>4, <2>5 DEF IInv
<1> QED
  BY <1>1, <1>2, <1>3, <1>4, <1>5, <1>6, <1>7, <1>8, <1>9, <1>10, <1>11, <1>12, <1>13, <1>14 DEF Next

\* Type correctness of the ramp for any number of players and any durations.
THEOREM RampTypeCorrect == Spec => []TypeOK
<1>1. IInv => TypeOK
  BY DEF IInv
<1> QED
  BY <1>1, Initially, Inductive, PTL DEF Spec

\* OneRequestEach for any number of players: the login of a player and its
\* keepalive polls never overlap.
THEOREM OneRequestForEachPlayer == Spec => []OneRequestEach
<1>1. IInv => OneRequestEach
  BY DEF IInv
<1> QED
  BY <1>1, Initially, Inductive, PTL DEF Spec

\* GeneratorHasRoom whenever the client has as many slots as there are players:
\* main allows 2000 players, the client has 2048 slots.
THEOREM GeneratorIsNeverFull == Spec => []GeneratorHasRoom
  BY Room, Initially, Inductive, PTL DEF Spec

\* KeptAlive for any period, timeout and pause: with those of mixed.py a player
\* is idle for 35.1 s at most during the ramp, far from a five-minute expiry.
THEOREM PlayersAreKeptAlive == Spec => []KeptAlive
<1>1. IInv => KeptAlive
  <2> SUFFICES ASSUME IInv, NEW p \in Players, login[p] = "in", gathered = "no",
                      beat # "crashed", Idle(p)
               PROVE  clock - seen[p] <= Period + Timeout + Pause
    BY DEF KeptAlive, Idle
  <2>1. RhythmOf(p)
    BY DEF IInv, Rhythm
  <2>2. beat \in {"looking", "polling", "pausing"}
    BY DEF IInv, TypeOK, BeatStages, Progress
  <2>3. /\ clock \in Nat /\ seen[p] \in Nat /\ lookedAt \in Nat
        /\ beat = "pausing" => clock <= lookedAt + Pause
    BY DEF IInv, TypeOK, Progress
  <2> QED
    BY <2>1, <2>2, <2>3, RampAssumption DEF RhythmOf
<1> QED
  BY <1>1, Initially, Inductive, PTL DEF Spec

\* ReadyMeansConnected for any number of players: when the ramp succeeds every
\* player is connected and no answer is outstanding.
THEOREM ReadyIsConnected == Spec => []ReadyMeansConnected
<1>1. IInv => ReadyMeansConnected
  <2> SUFFICES ASSUME IInv, outcome = "ready"
               PROVE  /\ \A p \in Players : login[p] = "in"
                      /\ ~lost
                      /\ calls = {}
    BY DEF ReadyMeansConnected
  <2>1. beat = "ended" /\ ~lost /\ \A p \in Players : login[p] = "in"
    BY DEF IInv, Progress
  <2>2. \A c \in calls : FALSE
    BY <2>1 DEF IInv, CallsAwaited, TypeOK
  <2> QED
    BY <2>1, <2>2
<1> QED
  BY <1>1, Initially, Inductive, PTL DEF Spec

\* EndsInTime for any limit: the polls awaited outside asyncio.timeout add one
\* request timeout to the ramp and no more.
THEOREM RampEndsInTime == Spec => []EndsInTime
<1>1. IInv => EndsInTime
  BY DEF IInv, Progress, EndsInTime
<1> QED
  BY <1>1, Initially, Inductive, PTL DEF Spec
=============================================================================

------------------------------ MODULE LoginRamp ------------------------------
(***************************************************************************)
(* The login ramp of Workload.bootstrap (src/benchmarks/mixed.py): every   *)
(* player's login is a coroutine gathered under a semaphore and a wall     *)
(* timeout, while one keepalive task polls the players already connected,  *)
(* so that a slow ramp does not lose them to the server's session expiry.  *)
(*                                                                         *)
(* asyncio is cooperative: an action is the code between two awaits, and   *)
(* takes no time.  Time passes in Tick, only when no coroutine is ready to *)
(* run: an event loop that keeps up with its timers.                       *)
(***************************************************************************)
EXTENDS Integers, FiniteSets

CONSTANTS
  N,          \* args.players
  Slots,      \* asyncio.Semaphore(8)
  Capacity,   \* Client.limit, 2048
  Timeout,    \* Client.timeout, 30 s: the longest a request may take
  Period,     \* 5 s between the keepalive polls of one player
  Pause,      \* 0.1 s between two looks of the keepalive task
  Total,      \* asyncio.timeout(600) around the logins
  Horizon     \* bound on the clock; EndsInTime shows it is not reached

ASSUME RampAssumption ==
  /\ N \in Nat \ {0} /\ Slots \in Nat \ {0}
  /\ Timeout \in Nat \ {0} /\ Period \in Nat \ {0} /\ Pause \in Nat \ {0}
  /\ Total \in Nat
  /\ Capacity \in Nat /\ N <= Capacity   \* main allows 2000 players
  /\ Horizon \in Nat

Players == 0 .. N - 1

VARIABLES
  login,      \* each player's coroutine `one'
  calls,      \* the requests in flight
  nextPoll,   \* next_poll
  seen,       \* when the player's last request ended (history)
  beat,       \* the keepalive task
  lookedAt,   \* when its last gather of polls was over
  lost,       \* whether keepalive_failures is not zero
  done,       \* the event that ends the keepalive task
  gathered,   \* what the gather of the logins came to
  outcome,    \* what the ramp came to
  clock

vars == <<login, calls, nextPoll, seen, beat, lookedAt, lost, done, gathered,
          outcome, clock>>
ramp == <<login, gathered, outcome>>
task == <<beat, lookedAt, done>>

LoginStages == {"waiting", "asking", "in", "failed", "cancelled"}
BeatStages  == {"looking", "polling", "pausing", "ended", "crashed"}
Call(p, k)  == [who |-> p, kind |-> k, since |-> clock]

Polls   == {c \in calls : c.kind = "poll"}
Waiting == {p \in Players : login[p] = "waiting"}
Asking  == {p \in Players : login[p] = "asking"}

TypeOK ==
  /\ login \in [Players -> LoginStages]
  /\ calls \subseteq [who : Players, kind : {"login", "poll"}, since : Nat]
  /\ nextPoll \in [Players -> Nat]
  /\ seen \in [Players -> Nat]
  /\ beat \in BeatStages
  /\ lookedAt \in Nat
  /\ lost \in BOOLEAN
  /\ done \in BOOLEAN
  /\ gathered \in {"no", "complete", "failed", "timeout"}
  /\ outcome \in {"ramping", "ready", "lost", "failed", "timeout", "crashed"}
  /\ clock \in Nat

Init ==
  /\ login = [p \in Players |-> "waiting"]
  /\ calls = {}
  /\ nextPoll = [p \in Players |-> 0]
  /\ seen = [p \in Players |-> 0]
  /\ beat = "looking"
  /\ lookedAt = 0
  /\ lost = FALSE
  /\ done = FALSE
  /\ gathered = "no"
  /\ outcome = "ramping"
  /\ clock = 0

-----------------------------------------------------------------------------
(* The logins. *)

\* The semaphore wakes its waiters in the order they came, that of range(N).
Turn(p) ==
  /\ p \in Waiting
  /\ \A q \in Waiting : p <= q
  /\ Cardinality(Asking) < Slots

\* A login that does not get its token raises out of the gather: the first one
\* decides it, the coroutines beside it go on.
Raise(p) ==
  /\ login' = [login EXCEPT ![p] = "failed"]
  /\ gathered' = IF gathered = "no" THEN "failed" ELSE gathered

StartLogin(p) ==
  /\ outcome = "ramping"
  /\ Turn(p)
  /\ IF Cardinality(calls) < Capacity
       THEN /\ calls' = calls \cup {Call(p, "login")}
            /\ login' = [login EXCEPT ![p] = "asking"]
            /\ UNCHANGED gathered
       ELSE Raise(p) /\ UNCHANGED calls
  /\ UNCHANGED <<nextPoll, seen, task, lost, outcome, clock>>

\* Mutant: the first poll of a player is set a period back.
StaggerBack(p) == (p % Period) - Period

\* The first polls of the players are spread over one period.
Stagger(p) == p % Period

LoginValid(p) ==
  /\ outcome = "ramping"
  /\ \E c \in calls :
       /\ c.who = p /\ c.kind = "login"
       /\ calls' = calls \ {c}
  /\ login' = [login EXCEPT ![p] = "in"]
  /\ nextPoll' = [nextPoll EXCEPT ![p] = clock + Stagger(p)]
  /\ seen' = [seen EXCEPT ![p] = clock]
  /\ UNCHANGED <<task, lost, gathered, outcome, clock>>

\* No token, a server that is too slow, or an exception of the client.
LoginInvalid(p) ==
  /\ outcome = "ramping"
  /\ \E c \in calls :
       /\ c.who = p /\ c.kind = "login"
       /\ calls' = calls \ {c}
  /\ Raise(p)
  /\ UNCHANGED <<nextPoll, seen, task, lost, outcome, clock>>

AllIn ==
  /\ outcome = "ramping"
  /\ gathered = "no"
  /\ \A p \in Players : login[p] = "in"
  /\ gathered' = "complete"
  /\ UNCHANGED <<login, calls, nextPoll, seen, task, lost, outcome, clock>>

\* asyncio.timeout cancels the gather, the gather every login not yet over.
RampExpires ==
  /\ outcome = "ramping"
  /\ gathered = "no"
  /\ clock >= Total
  /\ gathered' = "timeout"
  /\ login' = [p \in Players |->
                 IF p \in Waiting \cup Asking THEN "cancelled" ELSE login[p]]
  /\ calls' = Polls
  /\ UNCHANGED <<nextPoll, seen, task, lost, outcome, clock>>

\* Mutant: done is set after the gather and not in the finally block.
StopBeatAfterSuccess ==
  /\ outcome = "ramping"
  /\ gathered = "complete"
  /\ ~done
  /\ done' = TRUE
  /\ UNCHANGED <<ramp, calls, nextPoll, seen, beat, lookedAt, lost, clock>>

\* The finally block: done is set, then the keepalive task is awaited.
StopBeat ==
  /\ outcome = "ramping"
  /\ gathered # "no"
  /\ ~done
  /\ done' = TRUE
  /\ UNCHANGED <<ramp, calls, nextPoll, seen, beat, lookedAt, lost, clock>>

\* Mutant: the failed polls are looked at without awaiting the task.
FinishAtOnce ==
  /\ outcome = "ramping"
  /\ done
  /\ outcome' = CASE beat = "crashed" -> "crashed"
                  [] beat # "crashed" /\ gathered # "complete" -> gathered
                  [] beat # "crashed" /\ gathered = "complete" ->
                       IF lost THEN "lost" ELSE "ready"
  /\ UNCHANGED <<login, gathered, calls, nextPoll, seen, task, lost, clock>>

\* An exception of the keepalive task comes out of the await; else the logins'
\* own exception goes on; else the failed polls are looked at.
Finish ==
  /\ outcome = "ramping"
  /\ done
  /\ beat \in {"ended", "crashed"}
  /\ outcome' = CASE beat = "crashed" -> "crashed"
                  [] beat # "crashed" /\ gathered # "complete" -> gathered
                  [] beat # "crashed" /\ gathered = "complete" ->
                       IF lost THEN "lost" ELSE "ready"
  /\ UNCHANGED <<login, gathered, calls, nextPoll, seen, task, lost, clock>>

-----------------------------------------------------------------------------
(* The keepalive task. *)

\* Mutant: the players that are due, connected or not.
DueWithoutToken == {p \in Players : nextPoll[p] <= clock}

Due == {p \in Players : login[p] = "in" /\ nextPoll[p] <= clock}

\* Mutant: players that are due are polled before the loop looks at done.
LookOnceMore ==
  /\ outcome = "ramping"
  /\ beat = "looking"
  /\ IF done /\ Due = {}
       THEN beat' = "ended" /\ UNCHANGED <<calls, nextPoll, lost>>
       ELSE /\ beat' = "polling"
            /\ nextPoll' = [p \in Players |->
                              IF p \in Due THEN clock + Period ELSE nextPoll[p]]
            /\ calls' = calls \cup {Call(p, "poll") : p \in Due}
            /\ UNCHANGED lost
  /\ UNCHANGED <<ramp, seen, lookedAt, done, clock>>

\* The top of the loop: ends, or takes the players that are due, moves their
\* next poll and begins all the polls.  What the client has no slot for is
\* answered at once with an error.
Look ==
  /\ outcome = "ramping"
  /\ beat = "looking"
  /\ IF done
       THEN beat' = "ended" /\ UNCHANGED <<calls, nextPoll, lost>>
       ELSE /\ beat' = "polling"
            /\ nextPoll' = [p \in Players |->
                              IF p \in Due THEN clock + Period ELSE nextPoll[p]]
            /\ \E sent \in SUBSET Due :
                 /\ \/ sent = Due
                    \/ Cardinality(calls) + Cardinality(sent) = Capacity
                 /\ Cardinality(calls) + Cardinality(sent) <= Capacity
                 /\ calls' = calls \cup {Call(p, "poll") : p \in sent}
                 /\ lost' = (lost \/ sent # Due)
  /\ UNCHANGED <<ramp, seen, lookedAt, done, clock>>

\* A poll is answered, well or not, or times out.
PollEnds(c, valid) ==
  /\ outcome = "ramping"
  /\ c \in Polls
  /\ calls' = calls \ {c}
  /\ seen' = [seen EXCEPT ![c.who] = clock]
  /\ lost' = (lost \/ ~valid)
  /\ UNCHANGED <<ramp, nextPoll, task, clock>>

\* An exception out of a poll (BenchClient!NoStatus) ends the gather and with
\* it the task; the other polls of the gather go on.
PollRaises(c) ==
  /\ outcome = "ramping"
  /\ c \in Polls
  /\ calls' = calls \ {c}
  /\ seen' = [seen EXCEPT ![c.who] = clock]
  /\ beat' = "crashed"
  /\ UNCHANGED <<ramp, nextPoll, lookedAt, done, lost, clock>>

\* Mutant: the polls are begun as tasks and not gathered.
RestAtOnce ==
  /\ outcome = "ramping"
  /\ beat = "polling"
  /\ beat' = "pausing"
  /\ lookedAt' = clock
  /\ UNCHANGED <<ramp, calls, nextPoll, seen, done, lost, clock>>

\* The gather is over: the task waits for done, Pause at most.
Rest ==
  /\ outcome = "ramping"
  /\ beat = "polling"
  /\ Polls = {}
  /\ beat' = "pausing"
  /\ lookedAt' = clock
  /\ UNCHANGED <<ramp, calls, nextPoll, seen, done, lost, clock>>

\* Mutant: done.wait() without its timeout.
RestedWhenDone == done

Rested == done \/ clock >= lookedAt + Pause

Wake ==
  /\ outcome = "ramping"
  /\ beat = "pausing"
  /\ Rested
  /\ beat' = "looking"
  /\ UNCHANGED <<ramp, calls, nextPoll, seen, lookedAt, done, lost, clock>>

-----------------------------------------------------------------------------

\* Some coroutine is ready to run now.
Ready ==
  \/ \E p \in Players : Turn(p)
  \/ \E c \in calls : clock >= c.since + Timeout
  \/ gathered = "no" /\ \A p \in Players : login[p] = "in"
  \/ gathered = "no" /\ clock >= Total
  \/ gathered # "no" /\ ~done
  \/ done /\ beat \in {"ended", "crashed"}
  \/ beat = "looking"
  \/ beat = "polling" /\ Polls = {}
  \/ beat = "pausing" /\ Rested

Tick ==
  /\ outcome = "ramping"
  /\ ~Ready
  /\ clock < Horizon
  /\ clock' = clock + 1
  /\ UNCHANGED <<ramp, calls, nextPoll, seen, task, lost>>

Next ==
  \/ \E p \in Players : StartLogin(p) \/ LoginValid(p) \/ LoginInvalid(p)
  \/ AllIn \/ RampExpires \/ StopBeat \/ Finish
  \/ Look \/ Rest \/ Wake
  \/ \E c \in calls : PollRaises(c) \/ \E valid \in BOOLEAN : PollEnds(c, valid)
  \/ Tick

\* The event loop runs whatever is ready, and time passes when nothing is.
Spec == Init /\ [][Next]_vars /\ WF_vars(Next)

-----------------------------------------------------------------------------
(* Properties. *)

\* A player never has two requests in flight, its login and its keepalive polls
\* together, although nothing but the order of the code keeps them apart.
OneRequestEach == \A c, d \in calls : c.who = d.who => c = d

\* So the ramp never meets the limit of the client it shares: no login fails
\* and no player is counted as lost because the generator itself was full.
GeneratorHasRoom ==
  /\ beat = "looking" => Cardinality(calls) + Cardinality(Due) <= Capacity
  /\ Waiting # {} => Cardinality(calls) < Capacity

\* "Already-connected clients continue polling during a slow login ramp.
\* Otherwise the five-minute expiry silently reduces the target population"
\* (mixed.py): while the keepalive task lives, a connected player is idle for
\* one period, one slowest poll of another player and one pause at most.
KeptAlive ==
  \A p \in Players :
    /\ login[p] = "in" /\ gathered = "no" /\ beat # "crashed"
    /\ \A c \in calls : c.who # p
    => clock - seen[p] <= Period + Timeout + Pause

\* "reaching fewer than the requested players is not a successful smaller
\* benchmark" (benchmarks/README.md): the ramp succeeds only with every player
\* connected, every poll it ever sent answered and none of them badly.
ReadyMeansConnected ==
  outcome = "ready" =>
    /\ \A p \in Players : login[p] = "in"
    /\ ~lost
    /\ calls = {}

\* The ramp "has a ten-minute safety limit" (benchmarks/README.md); the polls
\* it then waits for, outside the timeout, add one request timeout at most.
EndsInTime == clock <= Total + Timeout

\* The ramp ends, whatever the server answers: neither the gather nor the
\* keepalive task it awaits is left waiting for the other.
RampEnds == <>(outcome # "ramping")
=============================================================================

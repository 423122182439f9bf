----------------------------- MODULE LiveFixture -----------------------------
(***************************************************************************)
(* The runner of src/integration/live.py: two real servers are started,    *)
(* users are logged in on both, the corpus is run with a hook before every *)
(* case (prepare), and whatever happens the servers are stopped again.     *)
(*                                                                         *)
(* The servers are not in the repository.  They are modelled from what the *)
(* fixture relies on: a login and an action may put packets in the queues  *)
(* of other sessions, a poll empties the queue of its own session, and a   *)
(* request that is handled is handled at once.  Any request may instead be *)
(* answered with an error, by the server or by the proxy before it.        *)
(***************************************************************************)
EXTENDS Naturals, Sequences

CONSTANTS
  Roles,       \* the users with a token of their own, in the order of ROLES
  Kinds,       \* what cases there are: "plain", "room", "rank"
  MaxTries,    \* 45: how often wait_ready looks
  MaxCases     \* bounds the cases of a corpus

Primary == "primary"

\* The targets in the order of ports.
Servers == <<"zigcho", "reference">>

\* ROLES is a fixed table without "login" and "delayed", and names the primary.
ASSUME RolesAssumption == Roles \in Seq(STRING) /\ \E i \in DOMAIN Roles : Roles[i] = Primary
\* The hook knows two cases by name and treats all others alike.
ASSUME KindsAssumption == Kinds \subseteq {"plain", "room", "rank"}
ASSUME BoundsAssumption == MaxTries \in Nat /\ MaxCases \in Nat

VARIABLES
  pc,          \* "launch", "wait", "seed", "config", "prepare", "case",
               \* "stop", "reap", "ended", "escaped"
  at,          \* the server launched, waited for or reaped
  tries,       \* of wait_ready
  work,        \* the requests still to send, in order
  cases,       \* the cases begun
  kind,        \* of the case that is prepared
  tokens,      \* the fixture's token of each role on each server
  variables,   \* the token the runner's variables hold
  proc,        \* of each server: "none", "booting", "serving", "dead"
  terminated, killed,
  session,     \* of each server: the live token of each role, 0 if logged out
  logins,      \* the number of tokens given to each role
  undrained,   \* the roles whose drain this preparation recorded as failed
  pending,     \* the roles with packets in their queue
  young        \* the roles logged in less than a second ago

main   == <<at, tries, cases, kind, undrained>>
hold   == <<tokens, variables>>
server == <<session, logins, pending, young>>
procs  == <<proc, terminated, killed>>
vars   == <<pc, main, work, hold, server, procs>>

Targets  == {Servers[i] : i \in DOMAIN Servers}
RoleSet  == {Roles[i] : i \in DOMAIN Roles}
Launched == {t \in Targets : proc[t] # "none"}

Send(t, role, do) == [target |-> t, role |-> role, do |-> do]
Everyone(t, do)   == [i \in DOMAIN Roles |-> Send(t, Roles[i], do)]
OnEach(Of(_))     == Of(Servers[1]) \o Of(Servers[2])
Someone           == Roles[Len(Roles)]   \* who joins and acts besides the primary

-----------------------------------------------------------------------------
(* The servers *)

Boot(t) == /\ proc[t] = "booting" /\ proc' = [proc EXCEPT ![t] = "serving"]
           /\ UNCHANGED <<pc, main, work, hold, server, terminated, killed>>

Die(t) == /\ proc[t] \in {"booting", "serving"} /\ proc' = [proc EXCEPT ![t] = "dead"]
          /\ UNCHANGED <<pc, main, work, hold, server, terminated, killed>>

Age(t) == /\ pc \in {"config", "prepare", "case"} /\ young[t] # {} /\ young' = [young EXCEPT ![t] = {}]
          /\ UNCHANGED <<pc, main, work, hold, session, logins, pending, procs>>

Online(t) == {r \in RoleSet : session[t][r] # 0}

\* A new session: the others see it come.  The reference refuses a second one.
AcceptsLogin(t, r) == t = "zigcho" \/ session[t][r] = 0
Login(t, r) ==
  /\ logins' = [logins EXCEPT ![t][r] = @ + 1]
  /\ session' = [session EXCEPT ![t][r] = logins[t][r] + 1]
  /\ pending' = [pending EXCEPT ![t] = (@ \cup Online(t)) \ {r}]
  /\ young' = [young EXCEPT ![t] = @ \cup {r}]

\* A request under a token that is live: its reply takes the own queue along.
Act(t, r) ==
  /\ \E reached \in SUBSET (Online(t) \ {r}) :
       pending' = [pending EXCEPT ![t] = (@ \ {r}) \cup reached]
  /\ UNCHANGED <<session, logins, young>>
Poll(t, r) ==
  /\ pending' = [pending EXCEPT ![t] = IF session[t][r] = tokens[t][r] THEN @ \ {r} ELSE @]
  /\ UNCHANGED <<session, logins, young>>

\* The reference ignores a logout in the first second.
Logout(t, r) ==
  IF session[t][r] # tokens[t][r] \/ (t = "reference" /\ r \in young[t])
    THEN UNCHANGED server
    ELSE /\ session' = [session EXCEPT ![t][r] = 0]
         /\ pending' = [pending EXCEPT ![t] = (@ \cup Online(t)) \ {r}]
         /\ UNCHANGED <<logins, young>>

\* What a server does with a request.  Without a session an action does nothing;
\* the leaderboard that is warmed has no session.
Serve(t, r, do) ==
  \/ do = "login" /\ AcceptsLogin(t, r) /\ Login(t, r)
  \/ do = "logout" /\ Logout(t, r)
  \/ do = "poll" /\ Poll(t, r)
  \/ do \in {"act", "join"} /\ session[t][r] = tokens[t][r] /\ Act(t, r)
  \/ do = "act" /\ session[t][r] # tokens[t][r] /\ UNCHANGED server
  \/ do = "warm" /\ UNCHANGED server

-----------------------------------------------------------------------------
(* Starting them *)

Raise == pc' = "stop" /\ work' = <<>> /\ UNCHANGED <<main, hold, server, procs>>

Init ==
  /\ pc = "launch" /\ at = 1 /\ tries = 0 /\ cases = 0 /\ kind = "plain" /\ work = <<>>
  /\ tokens = [t \in Targets |-> [r \in RoleSet |-> 0]] /\ variables = tokens
  /\ proc = [t \in Targets |-> "none"] /\ terminated = {} /\ killed = {}
  /\ session = [t \in Targets |-> [r \in RoleSet |-> 0]] /\ logins = session
  /\ pending = [t \in Targets |-> {}] /\ young = pending /\ undrained = pending

Launch ==
  /\ pc = "launch"
  /\ \/ /\ proc' = [proc EXCEPT ![Servers[at]] = "booting"]
        /\ pc' = "wait" /\ tries' = 0
        /\ UNCHANGED <<at, cases, kind, undrained, work, hold, server, terminated, killed>>
     \/ Raise

\* Mutant: the proxy's 502 counts as an answer.
AnsweredByProxy(t) == proc[t] = "serving" \/ (t = "reference" /\ proc[t] = "booting")

\* The reference is asked through the proxy, whose 502 is not an answer.
Answered(t) == proc[t] = "serving"

\* The requests of build_config: log in, act as one, poll all and warm a
\* leaderboard, per server, and poll all once more.
ConfigWork ==
  OnEach(LAMBDA t : Everyone(t, "login") \o <<Send(t, Someone, "act")>> \o Everyone(t, "poll")
                      \o <<Send(t, Primary, "warm")>>)
    \o OnEach(LAMBDA t : Everyone(t, "poll"))

\* Mutant: wait_ready goes on for ever.
GivesUpNever(t) == proc[t] = "dead"

GivesUp(t) == proc[t] = "dead" \/ tries >= MaxTries

WaitReady ==
  /\ pc = "wait"
  /\ LET t == Servers[at] IN
       \/ GivesUp(t) /\ Raise
       \/ /\ ~GivesUp(t) /\ Answered(t)
          /\ pc' = IF at < Len(Servers) THEN "seed" ELSE "config"
          /\ work' = IF at < Len(Servers) THEN work ELSE ConfigWork
          /\ tries' = 0
          /\ UNCHANGED <<at, cases, kind, undrained, hold, server, procs>>
       \/ /\ ~GivesUp(t) /\ ~Answered(t) /\ tries' = IF tries < MaxTries THEN tries + 1 ELSE tries
          /\ UNCHANGED <<pc, at, cases, kind, undrained, work, hold, server, procs>>

\* Registration, the database and the files of the reference.
Seed ==
  /\ pc = "seed"
  /\ \/ /\ pc' = "launch" /\ at' = at + 1
        /\ UNCHANGED <<tries, cases, kind, undrained, work, hold, server, procs>>
     \/ Raise

-----------------------------------------------------------------------------
(* The requests of build_config and prepare *)

\* Mutant: the new token stays with the fixture.
KeepsTokenForItself(t, r) ==
  /\ tokens' = [tokens EXCEPT ![t][r] = logins'[t][r]]
  /\ variables' = IF pc = "config" THEN tokens' ELSE variables

\* prepare stores the token where it polls with it and where the runner reads.
KeepsToken(t, r) ==
  /\ tokens' = [tokens EXCEPT ![t][r] = logins'[t][r]]
  /\ variables' = [variables EXCEPT ![t][r] = logins'[t][r]]

\* A request is served.
Request ==
  /\ pc \in {"config", "prepare"} /\ work # <<>>
  /\ LET t == Head(work).target
         r == Head(work).role
         do == Head(work).do IN
       /\ proc[t] = "serving" /\ Serve(t, r, do)
       /\ IF do = "login" THEN KeepsToken(t, r) ELSE UNCHANGED hold
  /\ work' = Tail(work)
  /\ UNCHANGED <<pc, main, procs>>

\* What may be answered with an error without stopping the fixture.  Polls are not
\* checked, nor are the actions of build_config; of prepare's actions packet_ids
\* wants a whole stream, which the server's error may be and the proxy's is not.
Tolerates(t, do) ==
  \/ do = "poll"
  \/ do = "act" /\ pc = "config"
  \/ do \in {"act", "logout"} /\ proc[t] = "serving"

\* An error is answered: the server's own, or the proxy's 502, also for a server that
\* is gone or one that served the request and whose reply was lost.  Of a drain prepare
\* records that.
AnsweredWithError ==
  /\ pc \in {"config", "prepare"} /\ work # <<>>
  /\ LET t == Head(work).target
         r == Head(work).role
         do == Head(work).do IN
       /\ Tolerates(t, do)
       /\ UNCHANGED server \/ (proc[t] = "serving" /\ Serve(t, r, do))
       /\ undrained' = IF pc = "prepare" /\ do = "poll" THEN [undrained EXCEPT ![t] = @ \cup {r}]
                       ELSE undrained
  /\ work' = Tail(work)
  /\ UNCHANGED <<pc, at, tries, cases, kind, hold, procs>>

\* A login, join or warming that is not answered as wanted, a stream packet_ids finds
\* broken, or no answer at all.
RequestFails == pc \in {"config", "prepare"} /\ work # <<>> /\ Raise

\* Leave rooms; or join a channel and renew the primary's session.
Actions(k, t) ==
  CASE k = "plain" -> <<>>
    [] k = "room" -> Everyone(t, "act")
    [] k = "rank" -> <<Send(t, Someone, "join"), Send(t, Primary, "logout"),
                       Send(t, Primary, "login"), Send(t, Primary, "act")>>

\* Mutant: the queues are emptied before the actions.
PollsFirst(k) == OnEach(LAMBDA t : Everyone(t, "poll") \o Actions(k, t))

\* prepare: the case's actions, and in the end a poll of every role.
PrepareWork(k) == OnEach(LAMBDA t : Actions(k, t) \o Everyone(t, "poll"))

\* The corpus begins, or goes on with its next case.
NextCase ==
  /\ \/ pc = "config" /\ work = <<>>
     \/ pc = "case"
  /\ cases < MaxCases
  /\ \E k \in Kinds : kind' = k /\ work' = PrepareWork(k)
  /\ IF pc = "case"   \* it may have logged users out and left packets anywhere
       THEN /\ \E out \in SUBSET (Targets \X RoleSet) :
                 session' = [t \in Targets |-> [r \in RoleSet |->
                               IF <<t, r>> \in out THEN 0 ELSE session[t][r]]]
            /\ pending' \in [Targets -> SUBSET RoleSet]
            /\ UNCHANGED <<logins, young>>
       ELSE UNCHANGED server
  /\ pc' = "prepare" /\ cases' = cases + 1 /\ undrained' = [t \in Targets |-> {}]
  /\ UNCHANGED <<at, tries, hold, procs>>

\* Mutant: the case starts at once.
SettledAtOnce == young

\* The sleep of 1.05 s.
Settled == IF kind = "rank" THEN [t \in Targets |-> {}] ELSE young

StartCase ==
  /\ pc = "prepare" /\ work = <<>>
  /\ young' = Settled
  /\ pc' = "case"
  /\ UNCHANGED <<main, work, hold, session, logins, pending, procs>>

\* run_corpus returns or raises.
CorpusEnds == (pc = "case" \/ (pc = "config" /\ work = <<>>)) /\ Raise

-----------------------------------------------------------------------------
(* The finally block *)

\* Mutant: only the last server is terminated.
ToTerminateLast == {Servers[at]} \cap Launched

ToTerminate == Launched

Terminate ==
  /\ pc = "stop"
  /\ terminated' = ToTerminate
  /\ pc' = "reap" /\ at' = Len(Servers)
  /\ UNCHANGED <<tries, cases, kind, undrained, work, hold, server, proc, killed>>

\* wait(10) is over: killed; wait(5) is over, too: TimeoutExpired leaves main.
TimeoutExpired(t) ==
  /\ t \in Launched /\ proc[t] # "dead"
  /\ IF t \in killed THEN pc' = "escaped" /\ UNCHANGED killed
     ELSE killed' = killed \cup {t} /\ UNCHANGED pc
  /\ UNCHANGED at

Reap ==
  /\ pc = "reap"
  /\ LET t == Servers[at] IN
       \/ TimeoutExpired(t)
       \/ /\ t \notin Launched \/ proc[t] = "dead"
          /\ IF at > 1 THEN at' = at - 1 /\ UNCHANGED pc ELSE pc' = "ended" /\ UNCHANGED at
          /\ UNCHANGED killed
  /\ UNCHANGED <<tries, cases, kind, undrained, work, hold, server, proc, terminated>>

MainStep == Launch \/ WaitReady \/ Seed \/ Request \/ AnsweredWithError \/ RequestFails
              \/ NextCase \/ StartCase \/ CorpusEnds \/ Terminate \/ Reap
Next == MainStep \/ \E t \in Targets : Boot(t) \/ Die(t) \/ Age(t)

\* main runs on; each of its waits has a limit.
Spec == Init /\ [][Next]_vars /\ WF_vars(MainStep)

-----------------------------------------------------------------------------
(* Properties *)

Requests == [target : Targets, role : RoleSet,
             do : {"login", "logout", "poll", "act", "join", "warm"}]

\* The values each variable takes.
TypeOK ==
  /\ pc \in {"launch", "wait", "seed", "config", "prepare", "case", "stop", "reap", "ended", "escaped"}
  /\ at \in DOMAIN Servers /\ tries \in Nat /\ cases \in Nat
  /\ kind \in {"plain", "room", "rank"}
  /\ work \in Seq(Requests)
  /\ tokens \in [Targets -> [RoleSet -> Nat]] /\ variables \in [Targets -> [RoleSet -> Nat]]
  /\ session \in [Targets -> [RoleSet -> Nat]] /\ logins \in [Targets -> [RoleSet -> Nat]]
  /\ pending \in [Targets -> SUBSET RoleSet] /\ young \in [Targets -> SUBSET RoleSet]
  /\ undrained \in [Targets -> SUBSET RoleSet]
  /\ proc \in [Targets -> {"none", "booting", "serving", "dead"}]
  /\ terminated \in SUBSET Targets /\ killed \in SUBSET Targets

\* A drain that failed does not keep a case from starting, but then the hook's
\* report shows it: no other live session has a packet waiting that an earlier
\* case, a login or the preparation itself put there.
LeftoversAreReported ==
  pc = "case" => \A t \in Targets : Online(t) \cap pending[t] \subseteq undrained[t]

\* The runner's variables never name an old session of a user with a new one,
\* and the renewed session of the primary is there on both servers.
VariablesNameSessions ==
  pc = "case" => \A t \in Targets :
    /\ \A r \in RoleSet : session[t][r] \in {0, variables[t][r]}
    /\ kind = "rank" => Primary \in Online(t)

\* The case that logs the renewed primary out starts when the reference would
\* no longer ignore that.
LogoutWillCount == pc = "case" /\ kind = "rank" => \A t \in Targets : Primary \notin young[t]

\* No user is logged in and no case begins before both servers have answered.
ServersAreUp ==
  pc \in {"config", "prepare", "case"} => \A t \in Targets : proc[t] \in {"serving", "dead"}

\* However main ends, every server it started was told to stop; and every one
\* is gone, unless one outlived its kill.
NoServerLeft ==
  /\ pc = "ended" => \A t \in Launched : t \in terminated /\ proc[t] = "dead"
  /\ pc = "escaped" => Launched \subseteq terminated /\ killed # {}

\* main ends.
MainEnds == <>(pc \in {"ended", "escaped"})
=============================================================================

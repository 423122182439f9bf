-------------------------- MODULE LiveFixtureProofs --------------------------
(***************************************************************************)
(* Proofs about LiveFixture for any table of roles, any cases and any      *)
(* limits: what a case finds when it starts, which session the runner's    *)
(* variables name, and what is left of the servers when main ends.         *)
(***************************************************************************)
EXTENDS LiveFixture, SequenceTheorems, TLAPS

-----------------------------------------------------------------------------
(* The invariant *)

\* A request is still to send; and behind each p in a queue there is a q.
Has(w, p) == \E i \in DOMAIN w : w[i] = p
Follows(w, p, q) == \A i \in DOMAIN w : w[i] = p => \E j \in DOMAIN w : j > i /\ w[j] = q

\* Whatever the preparation still does on a server, it polls everybody there
\* afterwards.
PollsLast(w) ==
  \A t \in Targets, x \in RoleSet, r \in RoleSet, do \in {"login", "logout", "act", "join"} :
    Follows(w, Send(t, x, do), Send(t, r, "poll"))

\* A queue with packets belongs to somebody who is yet to be polled, or whose
\* drain is recorded as failed.
Draining ==
  /\ pc = "prepare" =>
       /\ PollsLast(work)
       /\ \A t \in Targets : \A r \in Online(t) \cap pending[t] :
            r \in undrained[t] \/ Has(work, Send(t, r, "poll"))
  /\ LeftoversAreReported

\* What is live is what the tables hold.
Named == variables = tokens /\ \A t \in Targets, r \in RoleSet : session[t][r] \in {0, tokens[t][r]}

\* The primary of a case that renews its session is logged in, or will be.
Renewing ==
  /\ pc = "prepare" /\ kind = "rank" => \A t \in Targets :
       /\ Primary \in Online(t) \/ Has(work, Send(t, Primary, "login"))
       /\ Follows(work, Send(t, Primary, "logout"), Send(t, Primary, "login"))
  /\ pc = "case" /\ kind = "rank" => \A t \in Targets : Primary \in Online(t)

\* After the sleep nobody is young before the case is over.
Aged == pc = "case" /\ kind = "rank" => \A t \in Targets : young[t] = {}

Up(i) == proc[Servers[i]] \in {"serving", "dead"}

\* The servers are started in order, each when the ones before it had answered.
InOrder ==
  /\ pc \in {"launch", "wait"} => \A i \in 1 .. at - 1 : Up(i)
  /\ pc = "wait" => Servers[at] \in Launched
  /\ pc = "seed" => at < Len(Servers) /\ \A i \in 1 .. at : Up(i)
  /\ pc \in {"config", "prepare", "case"} => \A i \in DOMAIN Servers : Up(i)

\* The finally block goes backwards and leaves no launched server behind.
Reaped ==
  /\ pc \in {"reap", "ended", "escaped"} => terminated = Launched
  /\ pc = "reap" => \A i \in at + 1 .. Len(Servers) : proc[Servers[i]] \in {"none", "dead"}
  /\ pc = "ended" => \A t \in Launched : proc[t] = "dead"
  /\ pc = "escaped" => killed # {}

IInv == TypeOK /\ Draining /\ Named /\ Renewing /\ Aged /\ InOrder /\ Reaped

-----------------------------------------------------------------------------
(* The tables and the queues *)

\* There are two targets, and Servers lists each once.
LEMMA TargetsAre == Targets = {"zigcho", "reference"} /\ DOMAIN Servers = 1 .. 2 /\ Len(Servers) = 2
                    /\ Servers[1] = "zigcho" /\ Servers[2] = "reference"
                    /\ \A i \in 1 .. 2 : Servers[i] \in Targets
BY DEF Targets, Servers

\* The roles' table is a sequence of roles, the primary among them.
LEMMA RolesAre ==
  /\ Roles \in Seq(RoleSet) /\ Len(Roles) \in Nat \ {0} /\ DOMAIN Roles = 1 .. Len(Roles)
  /\ Primary \in RoleSet /\ Someone \in RoleSet
  /\ \A r \in RoleSet : \E i \in 1 .. Len(Roles) : Roles[i] = r
<1>1. Roles \in Seq(STRING) /\ DOMAIN Roles = 1 .. Len(Roles) /\ Len(Roles) \in Nat
  BY RolesAssumption
<1>2. PICK i \in DOMAIN Roles : Roles[i] = Primary
  BY RolesAssumption
<1>3. Len(Roles) # 0
  BY <1>1, <1>2
<1>4. Roles \in [1 .. Len(Roles) -> RoleSet]
  BY <1>1 DEF RoleSet
<1>5. Roles \in Seq(RoleSet)
  BY <1>1, <1>4
<1> QED
  BY <1>1, <1>2, <1>3, <1>5 DEF RoleSet, Someone

\* Behind p there is still a q in two queues of which that holds.
LEMMA FollowsConcat ==
  ASSUME NEW S, NEW a \in Seq(S), NEW b \in Seq(S), NEW p, NEW q, Follows(a, p, q), Follows(b, p, q)
  PROVE  Follows(a \o b, p, q)
<1> SUFFICES ASSUME NEW i \in DOMAIN (a \o b), (a \o b)[i] = p
             PROVE  \E j \in DOMAIN (a \o b) : j > i /\ (a \o b)[j] = q
  BY DEF Follows
<1>0. /\ a \o b \in Seq(S) /\ Len(a \o b) = Len(a) + Len(b)
      /\ \A k \in 1 .. Len(a) + Len(b) : (a \o b)[k] = IF k <= Len(a) THEN a[k] ELSE b[k - Len(a)]
  BY ConcatProperties
<1>1. CASE i <= Len(a)
  <2>1. i \in DOMAIN a /\ a[i] = p
    BY <1>0, <1>1
  <2>2. PICK j \in DOMAIN a : j > i /\ a[j] = q
    BY <2>1 DEF Follows
  <2> QED
    BY <1>0, <2>2
<1>2. CASE i > Len(a)
  <2>1. i - Len(a) \in DOMAIN b /\ b[i - Len(a)] = p
    BY <1>0, <1>2
  <2>2. PICK j \in DOMAIN b : j > i - Len(a) /\ b[j] = q
    BY <2>1 DEF Follows
  <2>3. j + Len(a) \in DOMAIN (a \o b) /\ j + Len(a) > i /\ (a \o b)[j + Len(a)] = q
    BY <1>0, <2>2
  <2> QED
    BY <2>3
<1> QED
  BY <1>0, <1>1, <1>2

\* What is in one of two queues is in both together.
LEMMA HasConcat ==
  ASSUME NEW S, NEW a \in Seq(S), NEW b \in Seq(S), NEW p, Has(a, p) \/ Has(b, p)
  PROVE  Has(a \o b, p)
<1>0. /\ a \o b \in Seq(S) /\ Len(a \o b) = Len(a) + Len(b)
      /\ \A k \in 1 .. Len(a) + Len(b) : (a \o b)[k] = IF k <= Len(a) THEN a[k] ELSE b[k - Len(a)]
  BY ConcatProperties
<1>1. CASE Has(a, p)
  BY <1>0, <1>1 DEF Has
<1>2. CASE Has(b, p)
  <2>1. PICK j \in DOMAIN b : b[j] = p
    BY <1>2 DEF Has
  <2>2. j + Len(a) \in DOMAIN (a \o b) /\ (a \o b)[j + Len(a)] = p
    BY <1>0, <2>1
  <2> QED
    BY <2>2 DEF Has
<1> QED
  BY <1>1, <1>2

\* Sending the first request of a queue leaves what follows what in the rest,
\* everything that was not first, and what had to follow the first.
LEMMA SendOne ==
  ASSUME NEW S, NEW w \in Seq(S), w # <<>>
  PROVE  /\ Tail(w) \in Seq(S) /\ Head(w) \in S
         /\ \A p, q : Follows(w, p, q) => Follows(Tail(w), p, q)
         /\ \A p : Has(w, p) /\ Head(w) # p => Has(Tail(w), p)
         /\ \A p, q : Follows(w, p, q) /\ Head(w) = p => Has(Tail(w), q)
<1>0. /\ Tail(w) \in Seq(S) /\ Head(w) \in S /\ Head(w) = w[1] /\ Len(w) \in Nat \ {0}
      /\ Len(Tail(w)) = Len(w) - 1 /\ \A i \in 1 .. Len(Tail(w)) : Tail(w)[i] = w[i + 1]
      /\ DOMAIN w = 1 .. Len(w) /\ DOMAIN Tail(w) = 1 .. Len(w) - 1
  <2>1. Len(w) \in Nat /\ Len(w) # 0
    BY EmptySeq
  <2> QED
    BY <2>1, HeadTailProperties
<1>1. ASSUME NEW j \in DOMAIN w, j > 1 PROVE j - 1 \in DOMAIN Tail(w) /\ Tail(w)[j - 1] = w[j]
  BY <1>0, <1>1
<1>2. ASSUME NEW p, NEW q, Follows(w, p, q) PROVE Follows(Tail(w), p, q)
  <2> SUFFICES ASSUME NEW i \in DOMAIN Tail(w), Tail(w)[i] = p
               PROVE  \E j \in DOMAIN Tail(w) : j > i /\ Tail(w)[j] = q
    BY DEF Follows
  <2>1. i + 1 \in DOMAIN w /\ w[i + 1] = p
    BY <1>0
  <2>2. PICK j \in DOMAIN w : j > i + 1 /\ w[j] = q
    BY <1>2, <2>1 DEF Follows
  <2>3. j - 1 \in DOMAIN Tail(w) /\ Tail(w)[j - 1] = q /\ j - 1 > i
    BY <1>0, <1>1, <2>2
  <2> QED
    BY <2>3
<1>3. ASSUME NEW p, Has(w, p), Head(w) # p PROVE Has(Tail(w), p)
  <2>1. PICK i \in DOMAIN w : w[i] = p
    BY <1>3 DEF Has
  <2>2. i > 1
    BY <1>0, <1>3, <2>1
  <2> QED
    BY <1>1, <2>1, <2>2 DEF Has
<1>4. ASSUME NEW p, NEW q, Follows(w, p, q), Head(w) = p PROVE Has(Tail(w), q)
  <2>1. PICK j \in DOMAIN w : j > 1 /\ w[j] = q
    BY <1>0, <1>4 DEF Follows
  <2> QED
    BY <1>1, <2>1 DEF Has
<1> QED
  BY <1>0, <1>2, <1>3, <1>4

\* One request for each role, in the order of the table.
LEMMA EveryoneAsks ==
  ASSUME NEW t \in Targets, NEW do \in {"login", "logout", "poll", "act", "join", "warm"}
  PROVE  /\ Everyone(t, do) \in Seq(Requests) /\ Len(Everyone(t, do)) = Len(Roles)
         /\ \A i \in 1 .. Len(Roles) : Everyone(t, do)[i] = Send(t, Roles[i], do)
<1>1. \A i \in 1 .. Len(Roles) : Everyone(t, do)[i] = Send(t, Roles[i], do)
  BY RolesAre DEF Everyone
<1>2. \A i \in 1 .. Len(Roles) : Roles[i] \in RoleSet
  BY RolesAre DEF RoleSet
<1>3. \A i \in 1 .. Len(Roles) : Send(t, Roles[i], do) \in Requests
  BY <1>2 DEF Send, Requests
<1>4. Everyone(t, do) \in [1 .. Len(Roles) -> Requests]
  BY <1>3, RolesAre DEF Everyone
<1> QED
  BY <1>1, <1>4, RolesAre

\* A server's share of the preparation: whatever goes before, everybody is
\* polled last.
LEMMA ShareEndsWithPolls ==
  ASSUME NEW t \in Targets, NEW a \in Seq(Requests), \A i \in DOMAIN a : a[i].target = t
  PROVE  /\ a \o Everyone(t, "poll") \in Seq(Requests)
         /\ PollsLast(a \o Everyone(t, "poll"))
         /\ \A r \in RoleSet : Has(a \o Everyone(t, "poll"), Send(t, r, "poll"))
<1> DEFINE b == Everyone(t, "poll")
           w == a \o b
<1>0. /\ b \in Seq(Requests) /\ Len(b) = Len(Roles) /\ Len(a) \in Nat
      /\ \A i \in 1 .. Len(Roles) : b[i] = Send(t, Roles[i], "poll")
  BY EveryoneAsks
<1> HIDE DEF b
<1>1. /\ w \in Seq(Requests) /\ Len(w) = Len(a) + Len(Roles)
      /\ \A k \in 1 .. Len(a) + Len(Roles) : w[k] = IF k <= Len(a) THEN a[k] ELSE b[k - Len(a)]
  <2>1. /\ a \o b \in Seq(Requests) /\ Len(a \o b) = Len(a) + Len(b)
        /\ \A k \in 1 .. Len(a) + Len(b) : (a \o b)[k] = IF k <= Len(a) THEN a[k] ELSE b[k - Len(a)]
    BY <1>0, ConcatProperties
  <2> QED
    BY <1>0, <2>1
<1>2. ASSUME NEW r \in RoleSet
      PROVE  \E j \in DOMAIN w : j > Len(a) /\ w[j] = Send(t, r, "poll")
  <2>1. PICK i \in 1 .. Len(Roles) : Roles[i] = r
    BY RolesAre
  <2>2. Len(a) + i \in DOMAIN w /\ Len(a) + i > Len(a) /\ w[Len(a) + i] = b[i]
    BY <1>0, <1>1, RolesAre
  <2> QED
    BY <1>0, <2>1, <2>2
<1>3. ASSUME NEW x \in Targets, NEW y \in RoleSet, NEW r \in RoleSet, NEW do \in {"login", "logout", "act", "join"}
      PROVE  Follows(w, Send(x, y, do), Send(x, r, "poll"))
  <2> SUFFICES ASSUME NEW i \in DOMAIN w, w[i] = Send(x, y, do)
               PROVE  \E j \in DOMAIN w : j > i /\ w[j] = Send(x, r, "poll")
    BY DEF Follows
  <2>1. i <= Len(a)
    <3>1. CASE i > Len(a)
      <4>1. i - Len(a) \in 1 .. Len(Roles) /\ w[i] = b[i - Len(a)]
        BY <1>0, <1>1, <3>1, RolesAre
      <4>2. w[i] = Send(t, Roles[i - Len(a)], "poll") /\ w[i] = Send(x, y, do)
        BY <1>0, <4>1
      <4>3. w[i].do = "poll" /\ w[i].do = do
        BY <4>2 DEF Send
      <4> QED
        BY <4>3
    <3> QED
      BY <3>1, <1>0, <1>1
  <2>2. i \in DOMAIN a /\ a[i] = w[i]
    BY <1>0, <1>1, <2>1, RolesAre
  <2>3. x = t
    BY <2>2 DEF Send
  <2> QED
    BY <1>0, <1>1, <1>2, <2>1, <2>3
<1>4. PollsLast(w)
  BY <1>3 DEF PollsLast
<1>5. \A r \in RoleSet : Has(w, Send(t, r, "poll"))
  BY <1>2 DEF Has
<1> QED
  BY <1>1, <1>4, <1>5 DEF b

\* The actions of a case on one server are requests to that server.
LEMMA ActionsAre ==
  ASSUME NEW k \in {"plain", "room", "rank"}, NEW t \in Targets
  PROVE  Actions(k, t) \in Seq(Requests) /\ \A i \in DOMAIN Actions(k, t) : Actions(k, t)[i].target = t
<1>1. CASE k = "plain"
  BY <1>1 DEF Actions
<1>2. CASE k = "room"
  <2>1. Actions(k, t) = Everyone(t, "act")
    BY <1>2 DEF Actions
  <2>2. DOMAIN Everyone(t, "act") = 1 .. Len(Roles) /\ Everyone(t, "act") \in Seq(Requests)
    BY EveryoneAsks, RolesAre
  <2>3. \A i \in 1 .. Len(Roles) : Everyone(t, "act")[i].target = t
    <3>1. \A i \in 1 .. Len(Roles) : Everyone(t, "act")[i] = Send(t, Roles[i], "act")
      BY EveryoneAsks
    <3>2. \A r, do : Send(t, r, do).target = t
      BY DEF Send
    <3> QED
      BY <3>1, <3>2
  <2> QED
    BY <2>1, <2>2, <2>3
<1>3. CASE k = "rank"
  <2>1. \A r \in RoleSet, do \in {"login", "logout", "act", "join"} :
          Send(t, r, do) \in Requests /\ Send(t, r, do).target = t
    BY DEF Send, Requests
  <2>2. /\ Send(t, Someone, "join") \in Requests /\ Send(t, Primary, "logout") \in Requests
        /\ Send(t, Primary, "login") \in Requests /\ Send(t, Primary, "act") \in Requests
    BY <2>1, RolesAre
  <2>3. Actions(k, t) = <<Send(t, Someone, "join"), Send(t, Primary, "logout"),
                          Send(t, Primary, "login"), Send(t, Primary, "act")>>
    BY <1>3 DEF Actions
  <2> QED
    BY <2>2, <2>3 DEF Send
<1> QED
  BY <1>1, <1>2, <1>3

\* A primary logged out by the actions is logged in by them, and a case that
\* needs it renewed does so.
LEMMA ActionsRenew ==
  ASSUME NEW k \in {"plain", "room", "rank"}, NEW t \in Targets
  PROVE  /\ \A x \in Targets : Follows(Actions(k, t), Send(x, Primary, "logout"), Send(x, Primary, "login"))
         /\ k = "rank" => Has(Actions(k, t), Send(t, Primary, "login"))
<1>1. CASE k = "plain"
  BY <1>1 DEF Actions, Follows
<1>2. CASE k = "room"
  <2>0. Actions(k, t) = Everyone(t, "act") /\ DOMAIN Everyone(t, "act") = 1 .. Len(Roles)
    BY <1>2, RolesAre DEF Actions, Everyone
  <2>1. \A i \in DOMAIN Actions(k, t) : Actions(k, t)[i].do = "act"
    <3>1. \A i \in 1 .. Len(Roles) : Everyone(t, "act")[i] = Send(t, Roles[i], "act")
      BY EveryoneAsks
    <3>2. \A r : Send(t, r, "act").do = "act"
      BY DEF Send
    <3> QED
      BY <2>0, <3>1, <3>2
  <2>2. \A x \in Targets : Send(x, Primary, "logout").do = "logout"
    BY DEF Send
  <2> QED
    BY <1>2, <2>1, <2>2 DEF Follows
<1>3. CASE k = "rank"
  <2> DEFINE a == Actions(k, t)
  <2>1. /\ DOMAIN a = 1 .. 4 /\ a[1] = Send(t, Someone, "join") /\ a[2] = Send(t, Primary, "logout")
        /\ a[3] = Send(t, Primary, "login") /\ a[4] = Send(t, Primary, "act")
    BY <1>3 DEF Actions
  <2> HIDE DEF a
  <2>2. ASSUME NEW x \in Targets, NEW i \in DOMAIN a, a[i] = Send(x, Primary, "logout") PROVE i = 2 /\ x = t
    <3>1. a[i].do = "logout" /\ a[i].target = x
      BY <2>2 DEF Send
    <3>2. i \in {1, 2, 3, 4}
      BY <2>1
    <3> QED
      BY <2>1, <3>1, <3>2 DEF Send
  <2>3. 3 \in DOMAIN a
    BY <2>1
  <2>4. \A x \in Targets : Follows(a, Send(x, Primary, "logout"), Send(x, Primary, "login"))
    BY <2>1, <2>2, <2>3 DEF Follows
  <2>5. Has(a, Send(t, Primary, "login"))
    BY <2>1, <2>3 DEF Has
  <2> QED
    BY <2>4, <2>5 DEF a
<1> QED
  BY <1>1, <1>2, <1>3

\* The preparation of any case polls everybody on both servers, after whatever
\* else it does there, and renews the primary of a case that needs it.
LEMMA PreparationIs ==
  ASSUME NEW k \in {"plain", "room", "rank"}
  PROVE  /\ PrepareWork(k) \in Seq(Requests) /\ PollsLast(PrepareWork(k))
         /\ \A t \in Targets, r \in RoleSet : Has(PrepareWork(k), Send(t, r, "poll"))
         /\ \A t \in Targets : Follows(PrepareWork(k), Send(t, Primary, "logout"), Send(t, Primary, "login"))
         /\ k = "rank" => \A t \in Targets : Has(PrepareWork(k), Send(t, Primary, "login"))
<1> DEFINE share(t) == Actions(k, t) \o Everyone(t, "poll")
<1>1. PrepareWork(k) = share("zigcho") \o share("reference")
  BY TargetsAre DEF PrepareWork, OnEach
<1>2. ASSUME NEW t \in Targets
      PROVE  /\ share(t) \in Seq(Requests) /\ PollsLast(share(t))
             /\ \A r \in RoleSet : Has(share(t), Send(t, r, "poll"))
  BY ActionsAre, ShareEndsWithPolls
<1>3. ASSUME NEW t \in Targets
      PROVE  /\ \A x \in Targets : Follows(share(t), Send(x, Primary, "logout"), Send(x, Primary, "login"))
             /\ k = "rank" => Has(share(t), Send(t, Primary, "login"))
  <2>1. ASSUME NEW x \in Targets
        PROVE  Follows(Everyone(t, "poll"), Send(x, Primary, "logout"), Send(x, Primary, "login"))
    <3>1. DOMAIN Everyone(t, "poll") = 1 .. Len(Roles)
      BY RolesAre DEF Everyone
    <3>2. \A i \in 1 .. Len(Roles) : Everyone(t, "poll")[i] = Send(t, Roles[i], "poll")
      BY EveryoneAsks
    <3>3. \A r : Send(t, r, "poll").do = "poll" /\ Send(x, r, "logout").do = "logout"
      BY DEF Send
    <3>4. \A i \in 1 .. Len(Roles) : Everyone(t, "poll")[i] # Send(x, Primary, "logout")
      <4>1. SUFFICES ASSUME NEW i \in 1 .. Len(Roles) PROVE Everyone(t, "poll")[i] # Send(x, Primary, "logout")
        OBVIOUS
      <4>2. Everyone(t, "poll")[i] = Send(t, Roles[i], "poll")
        BY <3>2
      <4>3. Send(t, Roles[i], "poll").do = "poll" /\ Send(x, Primary, "logout").do = "logout"
        BY <3>3
      <4> QED
        BY <4>2, <4>3
    <3> QED
      BY <3>1, <3>4 DEF Follows
  <2>2. Actions(k, t) \in Seq(Requests) /\ Everyone(t, "poll") \in Seq(Requests)
    BY ActionsAre, EveryoneAsks
  <2>3. \A x \in Targets : Follows(share(t), Send(x, Primary, "logout"), Send(x, Primary, "login"))
    BY <2>1, <2>2, ActionsRenew, FollowsConcat
  <2>4. k = "rank" => Has(share(t), Send(t, Primary, "login"))
    BY <2>2, ActionsRenew, HasConcat
  <2> QED
    BY <2>3, <2>4
<1> HIDE DEF share
<1>4. /\ "zigcho" \in Targets /\ "reference" \in Targets
      /\ \A t \in Targets : t = "zigcho" \/ t = "reference"
  BY TargetsAre
<1>5. share("zigcho") \in Seq(Requests) /\ share("reference") \in Seq(Requests)
  BY <1>2, <1>4
<1>6. PrepareWork(k) \in Seq(Requests)
  BY <1>1, <1>5, ConcatProperties
<1>7. PollsLast(PrepareWork(k))
  <2> SUFFICES ASSUME NEW t \in Targets, NEW x \in RoleSet, NEW r \in RoleSet,
                      NEW do \in {"login", "logout", "act", "join"}
               PROVE  Follows(PrepareWork(k), Send(t, x, do), Send(t, r, "poll"))
    BY DEF PollsLast
  <2>1. \A s \in Targets : Follows(share(s), Send(t, x, do), Send(t, r, "poll"))
    BY <1>2 DEF PollsLast
  <2> QED
    BY <1>1, <1>4, <1>5, <2>1, FollowsConcat
<1>8. ASSUME NEW t \in Targets, NEW p, Has(share(t), p) PROVE Has(PrepareWork(k), p)
  BY <1>1, <1>4, <1>5, <1>8, HasConcat
<1>9. ASSUME NEW t \in Targets
      PROVE  Follows(PrepareWork(k), Send(t, Primary, "logout"), Send(t, Primary, "login"))
  BY <1>1, <1>3, <1>4, <1>5, FollowsConcat
<1> QED
  BY <1>2, <1>3, <1>6, <1>7, <1>8, <1>9

\* build_config's requests are requests to the two servers.
LEMMA ConfigurationIs == ConfigWork \in Seq(Requests)
<1> DEFINE first(t) == Everyone(t, "login") \o <<Send(t, Someone, "act")>> \o Everyone(t, "poll")
                         \o <<Send(t, Primary, "warm")>>
<1>1. ASSUME NEW t \in Targets PROVE first(t) \in Seq(Requests) /\ Everyone(t, "poll") \in Seq(Requests)
  <2>1. \A r \in RoleSet : Send(t, r, "act") \in Requests /\ Send(t, r, "warm") \in Requests
    BY DEF Send, Requests
  <2>2. <<Send(t, Someone, "act")>> \in Seq(Requests) /\ <<Send(t, Primary, "warm")>> \in Seq(Requests)
    BY <2>1, RolesAre
  <2>3. Everyone(t, "login") \in Seq(Requests) /\ Everyone(t, "poll") \in Seq(Requests)
    BY EveryoneAsks
  <2> QED
    BY <2>2, <2>3, ConcatProperties
<1>2. ConfigWork = (first("zigcho") \o first("reference"))
                     \o (Everyone("zigcho", "poll") \o Everyone("reference", "poll"))
  BY TargetsAre DEF ConfigWork, OnEach
<1> HIDE DEF first
<1> QED
  BY <1>1, <1>2, TargetsAre, ConcatProperties

-----------------------------------------------------------------------------
(* Types *)

\* The finally block and the failures share what they leave alone.
LEMMA RaiseTypes == ASSUME TypeOK, Raise PROVE TypeOK'
BY DEF TypeOK, Raise, main, hold, server, procs

\* What a server does with a request changes its tables within their types.
LEMMA ServeTypes ==
  ASSUME TypeOK, NEW t \in Targets, NEW r \in RoleSet, NEW do, Serve(t, r, do)
  PROVE  /\ session' \in [Targets -> [RoleSet -> Nat]] /\ logins' \in [Targets -> [RoleSet -> Nat]]
         /\ pending' \in [Targets -> SUBSET RoleSet] /\ young' \in [Targets -> SUBSET RoleSet]
<1> DEFINE Tables == [Targets -> [RoleSet -> Nat]]
           Queues == [Targets -> SUBSET RoleSet]
<1>1. session \in Tables /\ logins \in Tables /\ pending \in Queues /\ young \in Queues
  BY DEF TypeOK
<1>2. \A x \in Targets : Online(x) \subseteq RoleSet
  BY DEF Online
<1>3. CASE Login(t, r)
  <2>1. logins' \in Tables /\ logins[t][r] + 1 \in Nat
    BY <1>1, <1>3 DEF Login
  <2> QED
    BY <1>1, <1>2, <1>3, <2>1 DEF Login
<1>4. CASE Logout(t, r)
  <2>1. CASE UNCHANGED server
    BY <1>1, <2>1 DEF server
  <2>2. CASE /\ session' = [session EXCEPT ![t][r] = 0]
             /\ pending' = [pending EXCEPT ![t] = (@ \cup Online(t)) \ {r}]
             /\ UNCHANGED <<logins, young>>
    <3>1. pending' \in Queues /\ session' \in Tables
      BY <1>1, <1>2, <2>2
    <3> QED
      BY <1>1, <2>2, <3>1
  <2> QED
    BY <1>4, <2>1, <2>2 DEF Logout
<1>5. CASE Poll(t, r)
  BY <1>1, <1>5 DEF Poll
<1>6. CASE Act(t, r)
  BY <1>1, <1>2, <1>6 DEF Act
<1>7. CASE UNCHANGED server
  BY <1>1, <1>7 DEF server
<1> QED
  BY <1>3, <1>4, <1>5, <1>6, <1>7 DEF Serve

\* The first request of the queue is one to a target's role.
LEMMA HeadIs ==
  ASSUME TypeOK, work # <<>>
  PROVE  /\ Tail(work) \in Seq(Requests) /\ Head(work).target \in Targets /\ Head(work).role \in RoleSet
         /\ Head(work).do \in {"login", "logout", "poll", "act", "join", "warm"}
         /\ Head(work) = Send(Head(work).target, Head(work).role, Head(work).do)
<1>1. work \in Seq(Requests)
  BY DEF TypeOK
<1>2. Head(work) \in Requests /\ Tail(work) \in Seq(Requests)
  BY <1>1, SendOne
<1> QED
  BY <1>2 DEF Requests, Send

\* A request changes the tables and the servers within their types.
LEMMA RequestTypes == ASSUME TypeOK, Request PROVE TypeOK'
<1> DEFINE t == Head(work).target
           r == Head(work).role
           do == Head(work).do
<1>1. work # <<>> /\ work' = Tail(work) /\ Serve(t, r, do)
      /\ UNCHANGED <<pc, at, tries, cases, kind, undrained, proc, terminated, killed>>
  BY DEF Request, main, procs
<1>2. t \in Targets /\ r \in RoleSet /\ work' \in Seq(Requests)
  BY <1>1, HeadIs
<1>3. /\ session' \in [Targets -> [RoleSet -> Nat]] /\ logins' \in [Targets -> [RoleSet -> Nat]]
      /\ pending' \in [Targets -> SUBSET RoleSet] /\ young' \in [Targets -> SUBSET RoleSet]
  BY <1>1, <1>2, ServeTypes
<1>4. tokens' \in [Targets -> [RoleSet -> Nat]] /\ variables' \in [Targets -> [RoleSet -> Nat]]
  <2>1. tokens \in [Targets -> [RoleSet -> Nat]] /\ variables \in [Targets -> [RoleSet -> Nat]]
    BY DEF TypeOK
  <2>2. CASE do = "login"
    <3>1. KeepsToken(t, r) /\ logins'[t][r] \in Nat
      BY <1>2, <1>3, <2>2 DEF Request
    <3> QED
      BY <1>2, <2>1, <3>1 DEF KeepsToken
  <2>3. CASE do # "login"
    BY <2>1, <2>3 DEF Request, hold
  <2> QED
    BY <2>2, <2>3
<1> QED
  BY <1>1, <1>2, <1>3, <1>4 DEF TypeOK

\* So does one that is answered with an error.
LEMMA ErrorTypes == ASSUME TypeOK, AnsweredWithError PROVE TypeOK'
<1> DEFINE t == Head(work).target
           r == Head(work).role
           do == Head(work).do
<1>1. /\ work # <<>> /\ work' = Tail(work) /\ (UNCHANGED server \/ Serve(t, r, do))
      /\ UNCHANGED <<pc, at, tries, cases, kind, tokens, variables, proc, terminated, killed>>
  BY DEF AnsweredWithError, hold, procs
<1>2. t \in Targets /\ r \in RoleSet /\ work' \in Seq(Requests)
  BY <1>1, HeadIs
<1>3. /\ session' \in [Targets -> [RoleSet -> Nat]] /\ logins' \in [Targets -> [RoleSet -> Nat]]
      /\ pending' \in [Targets -> SUBSET RoleSet] /\ young' \in [Targets -> SUBSET RoleSet]
  <2>1. CASE UNCHANGED server
    BY <2>1 DEF TypeOK, server
  <2> QED
    BY <1>1, <1>2, <2>1, ServeTypes
<1>4. undrained' \in [Targets -> SUBSET RoleSet]
  <2>1. undrained' = undrained \/ undrained' = [undrained EXCEPT ![t] = @ \cup {r}]
    BY DEF AnsweredWithError
  <2>2. undrained \in [Targets -> SUBSET RoleSet]
    BY DEF TypeOK
  <2>3. \A x \in Targets : undrained[x] \cup {r} \in SUBSET RoleSet
    BY <1>2, <2>2
  <2> HIDE DEF t, r
  <2> QED
    BY <1>2, <2>1, <2>2, <2>3
<1> QED
  BY <1>1, <1>2, <1>3, <1>4 DEF TypeOK

\* Every step keeps the types.
LEMMA NextKeepsTypes == ASSUME TypeOK, InOrder, [Next]_vars PROVE TypeOK'
<1>0. at \in 1 .. 2 /\ Len(Servers) = 2 /\ Servers[at] \in Targets /\ DOMAIN Servers = 1 .. 2
  BY TargetsAre DEF TypeOK
<1>1. CASE Launch
  <2>1. CASE Raise
    BY <2>1, RaiseTypes
  <2>2. CASE ~Raise
    <3>1. /\ proc' = [proc EXCEPT ![Servers[at]] = "booting"] /\ pc' = "wait" /\ tries' = 0
          /\ UNCHANGED <<at, cases, kind, undrained, work, hold, server, terminated, killed>>
      BY <1>1, <2>2 DEF Launch
    <3>2. proc' \in [Targets -> {"none", "booting", "serving", "dead"}]
      BY <1>0, <3>1 DEF TypeOK
    <3> QED
      BY <3>1, <3>2 DEF TypeOK, hold, server
  <2> QED
    BY <2>1, <2>2
<1>2. CASE WaitReady
  <2>1. CASE Raise
    BY <2>1, RaiseTypes
  <2>2. CASE ~Raise
    <3>1. /\ pc' \in {"wait", "seed", "config"} /\ work' \in {work, ConfigWork}
          /\ tries' \in {0, tries, tries + 1} /\ UNCHANGED <<at, cases, kind, undrained, hold, server, procs>>
      BY <1>2, <2>2 DEF WaitReady
    <3> QED
      BY <3>1, ConfigurationIs DEF TypeOK, hold, server, procs
  <2> QED
    BY <2>1, <2>2
<1>3. CASE Seed
  <2>1. CASE Raise
    BY <2>1, RaiseTypes
  <2>2. CASE ~Raise
    <3>1. at' \in 1 .. 2
      BY <1>0, <1>3, <2>2 DEF Seed, InOrder
    <3> QED
      BY <1>0, <1>3, <2>2, <3>1 DEF Seed, TypeOK, hold, server, procs
  <2> QED
    BY <2>1, <2>2
<1>4. CASE Request
  BY <1>4, RequestTypes
<1>12. CASE AnsweredWithError
  BY <1>12, ErrorTypes
<1>5. CASE RequestFails \/ CorpusEnds
  BY <1>5, RaiseTypes DEF RequestFails, CorpusEnds
<1>6. CASE NextCase
  <2>1. PICK k \in Kinds : kind' = k /\ work' = PrepareWork(k)
    BY <1>6 DEF NextCase
  <2>2. k \in {"plain", "room", "rank"} /\ work' \in Seq(Requests)
    BY <2>1, KindsAssumption, PreparationIs
  <2>3. session' \in [Targets -> [RoleSet -> Nat]] /\ pending' \in [Targets -> SUBSET RoleSet]
    <3>1. CASE pc = "case"
      <4>1. PICK out \in SUBSET (Targets \X RoleSet) :
              session' = [t \in Targets |-> [r \in RoleSet |-> IF <<t, r>> \in out THEN 0 ELSE session[t][r]]]
        BY <1>6, <3>1 DEF NextCase
      <4>2. session' \in [Targets -> [RoleSet -> Nat]]
        BY <4>1 DEF TypeOK
      <4> QED
        BY <1>6, <3>1, <4>2 DEF NextCase
    <3>2. CASE pc # "case"
      BY <1>6, <3>2 DEF NextCase, TypeOK, server
    <3> QED
      BY <3>1, <3>2
  <2>4. /\ pc' = "prepare" /\ cases' = cases + 1 /\ undrained' \in [Targets -> SUBSET RoleSet]
        /\ UNCHANGED <<at, tries, hold, procs, logins, young>>
    BY <1>6 DEF NextCase, server
  <2> QED
    BY <2>1, <2>2, <2>3, <2>4 DEF TypeOK, hold, procs
<1>7. CASE StartCase
  BY <1>7 DEF StartCase, Settled, TypeOK, main, hold, procs
<1>8. CASE Terminate
  BY <1>8, TargetsAre DEF Terminate, ToTerminate, Launched, TypeOK, hold, server
<1>9. CASE Reap
  <2>1. /\ at' \in 1 .. 2 /\ killed' \in SUBSET Targets /\ pc' \in {"reap", "ended", "escaped"}
        /\ UNCHANGED <<tries, cases, kind, undrained, work, hold, server, proc, terminated>>
    BY <1>0, <1>9 DEF Reap, TimeoutExpired, Launched, TypeOK
  <2> QED
    BY <1>0, <2>1 DEF TypeOK, hold, server
<1>10. ASSUME NEW t \in Targets, Boot(t) \/ Die(t) \/ Age(t) PROVE TypeOK'
  BY <1>10 DEF Boot, Die, Age, TypeOK, main, hold, server, procs
<1>11. CASE UNCHANGED vars
  BY <1>11 DEF vars, TypeOK, main, hold, server, procs
<1> QED
  BY <1>1, <1>2, <1>3, <1>4, <1>5, <1>6, <1>7, <1>8, <1>9, <1>10, <1>11, <1>12 DEF Next, MainStep

-----------------------------------------------------------------------------
(* The processes *)

\* The servers come up in order and go down in the reverse one.
LEMMA NextKeepsProcesses ==
  ASSUME TypeOK, InOrder, Reaped, [Next]_vars PROVE InOrder' /\ Reaped'
<1> USE TargetsAre
<1>0. /\ at \in 1 .. 2 /\ Len(Servers) = 2 /\ DOMAIN Servers = 1 .. 2 /\ Servers[at] \in Targets
      /\ \A t \in Targets : proc[t] \in {"none", "booting", "serving", "dead"}
      /\ \A t \in Targets : t = Servers[1] \/ t = Servers[2]
      /\ Servers[1] # Servers[2]
  BY DEF TypeOK
<1>1. CASE Raise
  BY <1>1 DEF Raise, InOrder, Reaped
<1>2. CASE Launch
  <2>1. CASE Raise
    BY <1>1, <2>1
  <2>2. CASE ~Raise
    <3>1. /\ pc = "launch" /\ proc' = [proc EXCEPT ![Servers[at]] = "booting"] /\ pc' = "wait" /\ at' = at
      BY <1>2, <2>2 DEF Launch
    <3>2. \A i \in 1 .. at - 1 : proc'[Servers[i]] = proc[Servers[i]]
      BY <1>0, <3>1 DEF TypeOK
    <3>3. proc'[Servers[at]] = "booting"
      BY <1>0, <3>1 DEF TypeOK
    <3> QED
      BY <1>0, <3>1, <3>2, <3>3 DEF InOrder, Reaped, Up, Launched
  <2> QED
    BY <2>1, <2>2
<1>3. CASE WaitReady
  <2>1. CASE Raise
    BY <1>1, <2>1
  <2>2. CASE ~Raise
    <3>1. pc = "wait" /\ UNCHANGED <<at, proc, terminated, killed>> /\ ~GivesUp(Servers[at])
      BY <1>3, <2>2 DEF WaitReady, procs
    <3>2. CASE pc' = "wait"
      BY <3>1, <3>2 DEF InOrder, Reaped, Up, Launched
    <3>3. CASE pc' # "wait"
      <4>1. proc[Servers[at]] = "serving" /\ pc' = IF at < Len(Servers) THEN "seed" ELSE "config"
        BY <1>3, <2>2, <3>3 DEF WaitReady, Answered
      <4>2. \A i \in 1 .. at : Up(i)
        BY <1>0, <3>1, <4>1 DEF InOrder, Up
      <4> QED
        BY <1>0, <3>1, <4>1, <4>2 DEF InOrder, Reaped, Up
    <3> QED
      BY <3>2, <3>3
  <2> QED
    BY <2>1, <2>2
<1>4. CASE Seed
  <2>1. CASE Raise
    BY <1>1, <2>1
  <2>2. CASE ~Raise
    BY <1>0, <1>4, <2>2 DEF Seed, InOrder, Reaped, Up, procs
  <2> QED
    BY <2>1, <2>2
<1>5. CASE Request \/ AnsweredWithError \/ NextCase \/ StartCase
  <2>1. /\ pc \in {"config", "prepare", "case"} /\ pc' \in {"config", "prepare", "case"}
        /\ UNCHANGED <<at, proc, terminated, killed>>
    BY <1>5 DEF Request, AnsweredWithError, NextCase, StartCase, main, procs
  <2> QED
    BY <2>1 DEF InOrder, Reaped, Up
<1>6. CASE RequestFails \/ CorpusEnds
  BY <1>1, <1>6 DEF RequestFails, CorpusEnds
<1>7. CASE Terminate
  BY <1>0, <1>7 DEF Terminate, ToTerminate, InOrder, Reaped, Launched
<1>8. CASE Reap
  <2>1. pc = "reap" /\ UNCHANGED <<proc, terminated>> /\ Launched' = Launched /\ pc' \in {"reap", "ended", "escaped"}
    BY <1>8 DEF Reap, TimeoutExpired, Launched
  <2>2. CASE TimeoutExpired(Servers[at])
    BY <2>1, <2>2 DEF TimeoutExpired, InOrder, Reaped
  <2>3. CASE ~TimeoutExpired(Servers[at])
    <3>1. Servers[at] \notin Launched \/ proc[Servers[at]] = "dead"
      BY <1>8, <2>3 DEF Reap
    <3>2. \A i \in at .. 2 : proc[Servers[i]] \in {"none", "dead"}
      BY <1>0, <2>1, <3>1 DEF Reaped, Launched
    <3>3. CASE at > 1
      <4>1. pc' = "reap" /\ at' = at - 1
        BY <1>8, <2>1, <2>3, <3>3 DEF Reap
      <4> QED
        BY <1>0, <2>1, <3>2, <4>1 DEF InOrder, Reaped
    <3>4. CASE at = 1
      <4>1. pc' = "ended"
        BY <1>8, <2>3, <3>4 DEF Reap
      <4>2. \A t \in Launched : proc[t] = "dead"
        BY <1>0, <3>2, <3>4 DEF Launched
      <4> QED
        BY <2>1, <4>1, <4>2 DEF InOrder, Reaped
    <3> QED
      BY <1>0, <3>3, <3>4
  <2> QED
    BY <2>2, <2>3
<1>9. ASSUME NEW t \in Targets, Boot(t) \/ Die(t) \/ Age(t) PROVE InOrder' /\ Reaped'
  <2>1. UNCHANGED <<pc, at, terminated, killed>>
    BY <1>9 DEF Boot, Die, Age, main, procs
  <2>2. \A x \in Targets : /\ proc[x] \in {"serving", "dead"} => proc'[x] \in {"serving", "dead"}
                           /\ proc'[x] = "none" <=> proc[x] = "none"
                           /\ proc[x] = "dead" => proc'[x] = "dead"
    BY <1>9 DEF Boot, Die, Age, procs, TypeOK
  <2>3. Launched' = Launched
    BY <2>2 DEF Launched
  <2>4. \A i \in 1 .. 2 : Up(i) => Up(i)'
    BY <2>2 DEF Up
  <2>5. InOrder'
    BY <1>0, <2>1, <2>3, <2>4 DEF InOrder
  <2>6. \A i \in 1 .. 2 : proc[Servers[i]] \in {"none", "dead"} => proc'[Servers[i]] \in {"none", "dead"}
    BY <1>0, <2>2
  <2>7. \A i \in at + 1 .. 2 : i \in 1 .. 2
    BY <1>0
  <2>8. \A x \in Launched : x \in Targets
    BY DEF Launched
  <2> QED
    BY <1>0, <2>1, <2>2, <2>3, <2>5, <2>6, <2>7, <2>8 DEF Reaped
<1>10. CASE UNCHANGED vars
  BY <1>10 DEF vars, main, procs, InOrder, Reaped, Up, Launched
<1> QED
  BY <1>2, <1>3, <1>4, <1>5, <1>6, <1>7, <1>8, <1>9, <1>10 DEF Next, MainStep

-----------------------------------------------------------------------------
(* The sessions *)

\* A request leaves the queue, answered as wanted or with an error.
Sent == Request \/ AnsweredWithError

\* What a server does with a request: only its own sessions and queues change, a
\* poll ends no session and fills no queue, only a logout ends one, and a login
\* begins the caller's.
LEMMA ServeEffects ==
  ASSUME TypeOK, Named, NEW t \in Targets, NEW r \in RoleSet, NEW do, Serve(t, r, do)
  PROVE  /\ \A x \in Targets : x # t => session'[x] = session[x] /\ pending'[x] = pending[x]
         /\ do \in {"poll", "act", "join", "warm"} => session' = session
         /\ do = "warm" => pending' = pending
         /\ do = "poll" => pending'[t] \subseteq pending[t] /\ (session[t][r] # 0 => r \notin pending'[t])
         /\ do = "logout" =>
              \A y \in RoleSet : session'[t][y] = session[t][y] \/ (y = r /\ session'[t][y] = 0)
         /\ do = "login" => /\ session'[t][r] = logins[t][r] + 1 /\ logins'[t][r] = logins[t][r] + 1
                            /\ \A y \in RoleSet : y # r => session'[t][y] = session[t][y]
<1>1. CASE do = "login"
  BY <1>1 DEF Serve, Login, TypeOK
<1>2. CASE do = "logout"
  <2>1. Logout(t, r)
    BY <1>2 DEF Serve
  <2>2. CASE UNCHANGED server
    BY <1>2, <2>2 DEF server
  <2>3. CASE /\ session' = [session EXCEPT ![t][r] = 0]
             /\ pending' = [pending EXCEPT ![t] = (@ \cup Online(t)) \ {r}]
    BY <1>2, <2>3 DEF TypeOK
  <2> QED
    BY <2>1, <2>2, <2>3 DEF Logout
<1>3. CASE do = "poll"
  <2>1. session[t][r] # 0 => session[t][r] = tokens[t][r]
    BY DEF Named
  <2> QED
    BY <1>3, <2>1 DEF Serve, Poll, TypeOK
<1>4. CASE do \in {"act", "join"}
  <2>1. Act(t, r) \/ UNCHANGED server
    BY <1>4 DEF Serve
  <2> QED
    BY <1>4, <2>1 DEF Act, server, TypeOK
<1>5. CASE do = "warm"
  BY <1>5 DEF Serve, server
<1>6. CASE do \notin {"login", "logout", "poll", "act", "join", "warm"}
  BY <1>6 DEF Serve
<1> QED
  BY <1>1, <1>2, <1>3, <1>4, <1>5, <1>6

\* What a request does that leaves the queue: the same, or nothing if it was
\* answered with an error; a login is not, and of a failed drain that is recorded.
LEMMA SentEffects ==
  ASSUME TypeOK, Named, Sent,
         NEW t \in Targets, NEW r \in RoleSet, NEW do, Head(work) = Send(t, r, do)
  PROVE  /\ \A x \in Targets : x # t => session'[x] = session[x] /\ pending'[x] = pending[x]
         /\ do # "login" => UNCHANGED hold
         /\ do \in {"poll", "act", "join", "warm"} => session' = session
         /\ do = "warm" => pending' = pending
         /\ do = "poll" => pending'[t] \subseteq pending[t]
         /\ do = "logout" =>
              \A y \in RoleSet : session'[t][y] = session[t][y] \/ (y = r /\ session'[t][y] = 0)
         /\ do = "login" => /\ session'[t][r] = logins[t][r] + 1
                            /\ tokens' = [tokens EXCEPT ![t][r] = logins[t][r] + 1]
                            /\ variables' = [variables EXCEPT ![t][r] = logins[t][r] + 1]
                            /\ \A y \in RoleSet : y # r => session'[t][y] = session[t][y]
         /\ \A x \in Targets : undrained[x] \subseteq undrained'[x]
         /\ pc = "prepare" /\ do = "poll" /\ session[t][r] # 0 /\ r \in pending'[t] => r \in undrained'[t]
<1>1. Head(work).target = t /\ Head(work).role = r /\ Head(work).do = do
  BY DEF Send
<1>2. CASE Request
  <2>1. Serve(t, r, do)
    BY <1>1, <1>2 DEF Request
  <2>2. do # "login" => UNCHANGED hold
    BY <1>1, <1>2 DEF Request
  <2>3. do = "login" => /\ tokens' = [tokens EXCEPT ![t][r] = logins'[t][r]]
                        /\ variables' = [variables EXCEPT ![t][r] = logins'[t][r]]
    BY <1>1, <1>2 DEF Request, KeepsToken
  <2>4. undrained' = undrained
    BY <1>1, <1>2 DEF Request, main
  <2> QED
    BY <2>1, <2>2, <2>3, <2>4, ServeEffects
<1>3. CASE AnsweredWithError
  <2>1. do # "login" /\ UNCHANGED hold
    BY <1>1, <1>3 DEF AnsweredWithError, Tolerates
  <2>4. /\ \A x \in Targets : undrained[x] \subseteq undrained'[x]
        /\ pc = "prepare" /\ do = "poll" => r \in undrained'[t]
    BY <1>1, <1>3 DEF AnsweredWithError, TypeOK
  <2>2. CASE UNCHANGED server
    BY <2>1, <2>2, <2>4 DEF server
  <2>3. CASE Serve(t, r, do)
    BY <2>1, <2>3, <2>4, ServeEffects
  <2> QED
    BY <1>1, <1>3, <2>2, <2>3 DEF AnsweredWithError
<1> QED
  BY <1>2, <1>3 DEF Sent

\* One request that leaves the queue keeps what the preparation is about.
LEMMA SentKeepsSessions ==
  ASSUME TypeOK, Draining, Named, Renewing, Aged, Sent
  PROVE  Draining' /\ Named' /\ Renewing' /\ Aged'
<1>0. /\ work \in Seq(Requests) /\ work # <<>> /\ work' = Tail(work) /\ pc \in {"config", "prepare"}
      /\ UNCHANGED <<pc, kind>>
  BY DEF TypeOK, Sent, Request, AnsweredWithError, main
<1>1. Head(work) \in Requests
  BY <1>0, SendOne
<1>2. PICK t \in Targets, r \in RoleSet, do \in {"login", "logout", "poll", "act", "join", "warm"} : Head(work) = Send(t, r, do)
  BY <1>1 DEF Requests, Send
<1>3. \A x \in Targets : x # t => session'[x] = session[x] /\ pending'[x] = pending[x] /\ Online(x)' = Online(x)
  BY <1>2, SentEffects DEF Online
<1>4. Named'
  <2>1. CASE do = "login"
    <3>1. variables' = tokens'
      BY <1>2, <2>1, SentEffects DEF Named
    <3>2. ASSUME NEW x \in Targets, NEW y \in RoleSet PROVE session'[x][y] \in {0, tokens'[x][y]}
      <4>1. CASE x = t /\ y = r
        <5>1. /\ session'[t][r] = logins[t][r] + 1
              /\ tokens' = [tokens EXCEPT ![t][r] = logins[t][r] + 1]
          BY <1>2, <2>1, SentEffects
        <5>2. tokens'[t][r] = logins[t][r] + 1
          BY <5>1 DEF TypeOK
        <5> QED
          BY <4>1, <5>1, <5>2
      <4>2. CASE ~(x = t /\ y = r)
        <5>1. session'[x][y] = session[x][y]
          BY <1>2, <2>1, <4>2, SentEffects
        <5>2. tokens'[x][y] = tokens[x][y]
          BY <1>2, <2>1, <4>2, SentEffects DEF TypeOK
        <5> QED
          BY <5>1, <5>2 DEF Named
      <4> QED
        BY <4>1, <4>2
    <3> QED
      BY <3>1, <3>2 DEF Named
  <2>2. CASE do # "login"
    <3>1. UNCHANGED hold
      BY <1>2, <2>2, SentEffects
    <3>2. \A x \in Targets, y \in RoleSet : session'[x][y] \in {0, session[x][y]}
      BY <1>2, <2>2, SentEffects
    <3> QED
      BY <3>1, <3>2 DEF Named, hold
  <2> QED
    BY <2>1, <2>2
<1>5. Draining'
  <2> SUFFICES ASSUME pc = "prepare"
               PROVE  /\ PollsLast(work')
                      /\ \A x \in Targets : \A y \in (Online(x) \cap pending[x])' :
                           y \in undrained'[x] \/ Has(work', Send(x, y, "poll"))
    BY <1>0 DEF Draining, LeftoversAreReported
  <2>1. PollsLast(work')
    BY <1>0, SendOne DEF Draining, PollsLast
  <2>2. ASSUME NEW x \in Targets, NEW y \in (Online(x) \cap pending[x])', y \notin undrained'[x]
        PROVE  Has(work', Send(x, y, "poll"))
    <3>0. y \in RoleSet /\ session'[x][y] # 0 /\ y \in pending'[x]
      BY <2>2 DEF Online
    <3>1. CASE x = t /\ do \notin {"poll", "warm"}
      <4>1. Follows(work, Send(t, r, do), Send(t, y, "poll"))
        BY <1>2, <3>0, <3>1 DEF Draining, PollsLast
      <4> QED
        BY <1>0, <1>2, <3>1, <4>1, SendOne
    <3>2. CASE x # t \/ do \in {"poll", "warm"}
      <4>1. session[x][y] # 0 /\ y \in pending[x] /\ (x = t /\ do = "poll" => y # r)
        BY <1>2, <1>3, <2>2, <3>0, <3>2, SentEffects
      <4>2. y \notin undrained[x]
        BY <1>2, <2>2, SentEffects
      <4>4. Has(work, Send(x, y, "poll"))
        BY <3>0, <4>1, <4>2 DEF Draining, Online
      <4>3. Head(work) # Send(x, y, "poll")
        BY <1>2, <3>2, <4>1 DEF Send
      <4> QED
        BY <1>0, <4>3, <4>4, SendOne
    <3> QED
      BY <3>1, <3>2
  <2> QED
    BY <2>1, <2>2
<1>6. Renewing'
  <2> SUFFICES ASSUME pc = "prepare", kind = "rank", NEW x \in Targets
               PROVE  /\ Primary \in Online(x)' \/ Has(work', Send(x, Primary, "login"))
                      /\ Follows(work', Send(x, Primary, "logout"), Send(x, Primary, "login"))
    BY <1>0 DEF Renewing
  <2>1. Follows(work, Send(x, Primary, "logout"), Send(x, Primary, "login"))
    BY DEF Renewing
  <2>2. Follows(work', Send(x, Primary, "logout"), Send(x, Primary, "login"))
    BY <1>0, <2>1, SendOne
  <2>3. CASE Head(work) = Send(x, Primary, "logout")
    BY <1>0, <2>1, <2>2, <2>3, SendOne
  <2>4. CASE Head(work) = Send(x, Primary, "login")
    <3>1. session'[x][Primary] = logins[x][Primary] + 1
      BY <2>4, RolesAre, SentEffects
    <3>2. logins[x][Primary] \in Nat
      BY RolesAre DEF TypeOK
    <3>3. Primary \in Online(x)'
      BY <3>1, <3>2, RolesAre DEF Online
    <3> QED
      BY <2>2, <3>3
  <2>5. CASE Head(work) \notin {Send(x, Primary, "logout"), Send(x, Primary, "login")}
    <3>1. session'[x][Primary] = session[x][Primary]
      <4>1. x = t /\ r = Primary => do \in {"poll", "act", "join", "warm"}
        BY <1>2, <2>5
      <4> QED
        BY <1>2, <1>3, <4>1, RolesAre, SentEffects
    <3>2. CASE Primary \in Online(x)
      BY <2>2, <3>1, <3>2 DEF Online
    <3>3. CASE Primary \notin Online(x)
      <4>1. Has(work, Send(x, Primary, "login"))
        BY <3>3 DEF Renewing
      <4> QED
        BY <1>0, <2>2, <2>5, <4>1, SendOne
    <3> QED
      BY <3>2, <3>3
  <2> QED
    BY <2>3, <2>4, <2>5
<1>7. Aged'
  BY <1>0 DEF Aged
<1> QED
  BY <1>4, <1>5, <1>6, <1>7

\* Every step keeps what a case rests on.
LEMMA NextKeepsSessions ==
  ASSUME TypeOK, Draining, Named, Renewing, Aged, [Next]_vars
  PROVE  Draining' /\ Named' /\ Renewing' /\ Aged'
<1>1. CASE Raise
  <2>1. pc' = "stop" /\ UNCHANGED <<hold, session, pending, young, kind>>
    BY <1>1 DEF Raise, server, main
  <2> QED
    BY <2>1 DEF Draining, LeftoversAreReported, Named, Renewing, Aged, hold
<1>2. CASE Launch \/ WaitReady \/ Seed \/ RequestFails \/ CorpusEnds
  <2>1. CASE Raise
    BY <1>1, <2>1
  <2>2. CASE ~Raise
    <3>1. pc' \notin {"prepare", "case"} /\ UNCHANGED <<hold, session>>
      BY <1>2, <2>2 DEF Launch, WaitReady, Seed, RequestFails, CorpusEnds, server
    <3> QED
      BY <3>1 DEF Draining, LeftoversAreReported, Named, Renewing, Aged, hold
  <2> QED
    BY <2>1, <2>2
<1>3. CASE Request \/ AnsweredWithError
  BY <1>3, SentKeepsSessions DEF Sent
<1>4. CASE NextCase
  <2>1. PICK k \in Kinds : kind' = k /\ work' = PrepareWork(k)
    BY <1>4 DEF NextCase
  <2>2. pc' = "prepare" /\ UNCHANGED hold /\ k \in {"plain", "room", "rank"}
    BY <1>4, KindsAssumption DEF NextCase
  <2>3. \A x \in Targets, y \in RoleSet : session'[x][y] \in {0, session[x][y]}
    <3>1. CASE pc = "case"
      <4>1. PICK out \in SUBSET (Targets \X RoleSet) :
              session' = [t \in Targets |-> [r \in RoleSet |-> IF <<t, r>> \in out THEN 0 ELSE session[t][r]]]
        BY <1>4, <3>1 DEF NextCase
      <4> QED
        BY <4>1
    <3>2. CASE pc # "case"
      BY <1>4, <3>2 DEF NextCase, server
    <3> QED
      BY <3>1, <3>2
  <2>4. Named'
    BY <2>2, <2>3 DEF Named, hold
  <2>5. \A x \in Targets : \A y \in Online(x)' : y \in RoleSet
    BY DEF Online
  <2>6. Draining'
    BY <2>1, <2>2, <2>5, PreparationIs DEF Draining, LeftoversAreReported
  <2>7. Renewing' /\ Aged'
    BY <2>1, <2>2, PreparationIs DEF Renewing, Aged
  <2> QED
    BY <2>4, <2>6, <2>7
<1>5. CASE StartCase
  <2>1. /\ pc = "prepare" /\ work = <<>> /\ pc' = "case" /\ young' = Settled
        /\ UNCHANGED <<hold, session, pending, kind, undrained>>
    BY <1>5 DEF StartCase, main
  <2>2. \A p : ~Has(work, p)
    BY <2>1 DEF Has
  <2>3. \A t \in Targets : Online(t)' = Online(t)
    BY <2>1 DEF Online
  <2>4. LeftoversAreReported'
    BY <2>1, <2>2, <2>3 DEF Draining, LeftoversAreReported
  <2>5. Draining'
    BY <2>1, <2>4 DEF Draining
  <2>6. Renewing'
    BY <2>1, <2>2, <2>3 DEF Renewing
  <2>7. Aged'
    BY <2>1 DEF Aged, Settled
  <2> QED
    BY <2>1, <2>5, <2>6, <2>7 DEF Named, hold
<1>6. CASE Terminate \/ Reap
  <2>1. pc' \notin {"prepare", "case"} /\ UNCHANGED <<hold, session>>
    BY <1>6 DEF Terminate, Reap, TimeoutExpired, server
  <2> QED
    BY <2>1 DEF Draining, LeftoversAreReported, Named, Renewing, Aged, hold
<1>7. ASSUME NEW t \in Targets, Boot(t) \/ Die(t) \/ Age(t) PROVE Draining' /\ Named' /\ Renewing' /\ Aged'
  <2>1. UNCHANGED <<pc, work, kind, undrained, hold, session, pending>> /\ \A x \in Targets : young'[x] \in {young[x], {}}
    BY <1>7 DEF Boot, Die, Age, main, server, TypeOK
  <2>2. \A x \in Targets : Online(x)' = Online(x)
    BY <2>1 DEF Online
  <2>3. Draining' /\ Renewing'
    BY <2>1, <2>2 DEF Draining, LeftoversAreReported, Renewing
  <2>4. Named'
    BY <2>1 DEF Named, hold
  <2>5. Aged'
    BY <2>1 DEF Aged
  <2> QED
    BY <2>3, <2>4, <2>5
<1>8. CASE UNCHANGED vars
  <2>1. UNCHANGED <<pc, work, kind, undrained, hold, session, pending, young>>
    BY <1>8 DEF vars, main, server
  <2>2. \A x \in Targets : Online(x)' = Online(x)
    BY <2>1 DEF Online
  <2> QED
    BY <2>1, <2>2 DEF Draining, LeftoversAreReported, Renewing, Named, Aged, hold
<1> QED
  BY <1>2, <1>3, <1>4, <1>5, <1>6, <1>7, <1>8 DEF Next, MainStep

-----------------------------------------------------------------------------
(* The theorems *)

LEMMA InitHolds == Init => IInv
<1> SUFFICES ASSUME Init PROVE IInv
  OBVIOUS
<1>1. 0 \in Nat /\ 1 \in DOMAIN Servers /\ <<>> \in Seq(Requests)
  BY TargetsAre
<1>2. TypeOK
  BY <1>1 DEF Init, TypeOK
<1>3. Draining /\ Named /\ Renewing /\ Aged
  BY DEF Init, Draining, LeftoversAreReported, Named, Renewing, Aged
<1>4. InOrder /\ Reaped
  BY DEF Init, InOrder, Reaped
<1> QED
  BY <1>2, <1>3, <1>4 DEF IInv

\* What holds of a reachable state of the fixture.
THEOREM FixtureInvariant == Spec => []IInv
<1>1. IInv /\ [Next]_vars => IInv'
  BY NextKeepsTypes, NextKeepsProcesses, NextKeepsSessions DEF IInv
<1> QED
  BY <1>1, InitHolds, PTL DEF Spec

\* The fixture's tables, queues and the state of main keep their types.
THEOREM FixtureTypeCorrect == Spec => []TypeOK
<1>1. IInv => TypeOK
  BY DEF IInv
<1> QED
  BY <1>1, FixtureInvariant, PTL

\* Whatever the case before left in the queues, and whatever logging the primary
\* out and in puts there, when a case starts prepare's polls have emptied the
\* queue of every live session but those whose failed drain its report shows.
THEOREM LeftoversAreKnown == Spec => []LeftoversAreReported
<1>1. IInv => LeftoversAreReported
  BY DEF IInv, Draining
<1> QED
  BY <1>1, FixtureInvariant, PTL

\* prepare writes a renewed token wherever it is read from: a case finds no live
\* session its variables do not name, and the primary's on both servers.
THEOREM VariablesAreCurrent == Spec => []VariablesNameSessions
<1>1. IInv => VariablesNameSessions
  BY DEF IInv, Named, Renewing, VariablesNameSessions
<1> QED
  BY <1>1, FixtureInvariant, PTL

\* After prepare's sleep the reference would not ignore the logout of the case.
THEOREM LogoutsCount == Spec => []LogoutWillCount
<1>1. IInv => LogoutWillCount
  BY DEF IInv, Aged, LogoutWillCount
<1> QED
  BY <1>1, FixtureInvariant, PTL

\* Both servers had answered wait_ready before anybody logged in.
THEOREM ServersHaveAnswered == Spec => []ServersAreUp
<1>1. IInv => ServersAreUp
  BY TargetsAre DEF IInv, InOrder, Up, ServersAreUp
<1> QED
  BY <1>1, FixtureInvariant, PTL

\* Wherever main was when it ended, the finally block told each server it had
\* started to stop, and saw each go unless one outlived its kill.
THEOREM NoServerIsLeft == Spec => []NoServerLeft
<1>1. IInv => NoServerLeft
  BY DEF IInv, Reaped, NoServerLeft
<1> QED
  BY <1>1, FixtureInvariant, PTL
=============================================================================

-------------------------- MODULE MCCoverageLedger --------------------------
(* Packet 1 is sent by one user and observed by another or read back, packet *)
(* 2 belongs to a policy with a waiver, packet 4 is the session readback.    *)
EXTENDS CoverageLedger

MCHandled       == {1, 2}
MCRoutes        == {"friends"}
MCPolicies      == {"plain", "waived"}
MCPolicyPackets == [plain |-> {1}, waived |-> {2}]
MCWaivers       == {"waived"}
MCReadback      == (1 :> {"friends"}) @@ (2 :> {}) @@ (4 :> {})

Poll(packets, token, policy) ==
  [kind |-> "poll", token |-> token, packets |-> packets, route |-> None, bancho |-> TRUE,
   body |-> TRUE, status |-> TRUE, predicate |-> TRUE, policy |-> policy,
   attested |-> policy \in MCWaivers]
Web(route, compared) ==
  [Poll(<<>>, None, None) EXCEPT !.kind = "web", !.route = route, !.body = compared]

\* a and b are tokens of two users, a2 is another token of the first.
Bound == [a |-> "first", a2 |-> "first", b |-> "second"]

Library ==
  {Poll(ps, t, None) : ps \in {<<>>, <<1>>}, t \in {"a", "b"}}
    \cup {Poll(<<>>, "a2", None), Poll(<<1, 2>>, "a", None), Poll(<<1>>, "a", "plain"),
          Poll(<<>>, "b", "plain"), Poll(<<4>>, "b", "plain"), Poll(<<2>>, "a", "waived"),
          [Poll(<<1>>, "a", None) EXCEPT !.predicate = FALSE],
          [Poll(<<>>, "b", None) EXCEPT !.body = FALSE],
          [Poll(<<>>, "b", None) EXCEPT !.bancho = FALSE],
          Web("friends", TRUE), Web("friends", FALSE), Web("other", TRUE)}

Case(id, category, steps, claims, routes, assertions, policyAssertions) ==
  [id |-> id, category |-> category, steps |-> steps, bound |-> Bound, claims |-> claims,
   routes |-> routes, assertions |-> assertions, policyAssertions |-> policyAssertions,
   digest |-> "pinned"]

Assertion(kind, packets, requests, observers, policy) ==
  [kind |-> kind, packets |-> packets, requests |-> requests, observers |-> observers,
   policy |-> policy]
Owner(policy, trigger, steps, observer) ==
  [policy |-> policy, trigger |-> trigger, steps |-> steps, observer |-> observer]

Some(n) == (SUBSET (1 .. n)) \ {{}}

\* One assertion of any kind over two steps.
Assertions ==
  {{Assertion(k, p, {r}, o, IF k = "policy-matrix" THEN "plain" ELSE None)} :
     k \in {"immediate-response", "policy-matrix", "recipient-poll", "state-readback"},
     p \in {{1}, {1, 2}}, r \in 1 .. 2, o \in Some(2)}

\* The owner of the matrices of a transcript: its trigger is the first of them.
Owners(steps, observer) ==
  LET matrices == {s \in DOMAIN steps : steps[s].policy # None}
      trigger  == CHOOSE s \in matrices : \A t \in matrices : s <= t IN
    IF matrices = {} THEN {} ELSE {Owner(steps[trigger].policy, trigger, matrices, observer)}

\* A transcript of its own, for every two steps of the library.
Only(steps, category, claims, a, observer) ==
  Case("only", category, steps, claims, {steps[s].route : s \in DOMAIN steps} \ {None}, a,
       Owners(steps, observer))
OneCase ==
  {c \in {<<Only(<<s, t>>, category, claims, a, observer)>> :
            s \in Library, t \in Library, category \in {"stable-packets", "malformed-input"},
            claims \in {{1}, {1, 2}}, a \in Assertions,
            observer \in {"none", "recipient-poll", "session-readback"}} : Accepted(c[1])}

Scenario(id, category, minimum, required) ==
  [id |-> id, category |-> category, minimum |-> minimum, required |-> required,
   digest |-> "pinned"]
OnlyScenario == {<<Scenario("only", "stable-packets", 1, {})>>}

\* Two good transcripts and one that waives a body, in any order, in part, and
\* with one thing wrong.
First(steps, observers) ==
  Case("first", "policy-matrix", steps, {1}, {"friends"},
       {Assertion("policy-matrix", {1}, {1}, {1}, "plain"),
        Assertion("recipient-poll", {1}, {1}, observers, None)},
       {Owner("plain", 1, {1}, "none")})
Waive(id, steps) ==
  Case(id, "policy-matrix", steps, UNION {ToSet(steps[s].packets) : s \in DOMAIN steps},
       {steps[s].route : s \in {r \in DOMAIN steps : steps[r].kind = "web"}},
       {Assertion("policy-matrix", {2}, {1}, {1}, "waived")}, {Owner("waived", 1, {1}, "none")})

Firsts ==
  {First(<<Poll(<<1>>, "a", "plain"), w, p>>, {3}) :
     w \in {Web("friends", TRUE), Web("other", TRUE), Web("friends", FALSE), Poll(<<>>, "b", None)},
     p \in {Poll(<<>>, "b", None), Poll(<<>>, "a2", None), Poll(<<1>>, "b", None)}}
  \cup {[First(<<Poll(<<>>, "a", "plain"), Web("friends", TRUE), Poll(<<1>>, "b", None)>>, {3})
           EXCEPT !.assertions = {Assertion("immediate-response", {1}, {3}, {3}, None)}]}
Waivings ==
  {Waive(id, steps) : id \in {"last", "first", "extra"},
     steps \in {<<Poll(<<2>>, "a", "waived")>>,
                <<Poll(<<2>>, "a", "waived"), Poll(<<>>, "b", None)>>,
                <<Poll(<<2>>, "a", "waived"), Web("friends", TRUE)>>}}
Malform(c) == [c EXCEPT !.category = "malformed-input"]

Corpus ==
  LET firsts == Firsts \cup {Malform(c) : c \in Firsts}
      lasts  == Waivings \cup {Malform(c) : c \in Waivings} IN
    {<<c>> : c \in firsts \cup lasts} \cup (firsts \X lasts) \cup (lasts \X firsts)

TwoScenarios ==
  {<<Scenario("first", "policy-matrix", 3, {2}), Scenario("last", category, 1, {})>> :
     category \in {"policy-matrix", "malformed-input"}}

AllOptions == [command : {"validate", "run"}, selection : BOOLEAN, partial : BOOLEAN,
               requireAll : BOOLEAN, sources : BOOLEAN]
Selected == {o \in AllOptions : o.selection /\ ~o.requireAll /\ ~o.partial /\ o.sources}

MCProjects ==
  {[corpora |-> OneCase, scenarios |-> OnlyScenario, options |-> Selected],
   [corpora |-> Corpus, scenarios |-> TwoScenarios, options |-> AllOptions]}
=============================================================================

--------------------------- MODULE MCConformanceRun ---------------------------
(* Instances of ConformanceRun for TLC: a corpus, and the configurations a  *)
(* run over it may start with.                                              *)
EXTENDS ConformanceRun

TheVars == {"map", "id", "extra"}

Pair  == <<"zigcho", "reference">>
Alone == <<"zigcho">>

Base == [session |-> "player", uses |-> {}, captures |-> <<>>, rules |-> FALSE,
         masks |-> {}, compares |-> {"status", "body"}, judge |-> "difference",
         allowed |-> [t \in Targets |-> {}]]

\* A mutating case whose first reply is captured into the second request and
\* masked in the second reply.
CaptureCase ==
  [mutates |-> TRUE, requires |-> {"map"}, bindings |-> <<"player">>,
   steps |-> << [Base EXCEPT !.uses = {"map"}, !.captures = <<"id">>, !.compares = {"status"}],
                [Base EXCEPT !.uses = {"id"}, !.rules = TRUE, !.masks = {"id"}] >>,
   groups |-> {}, groupRules |-> FALSE, rotates |-> {}]

\* A case under a policy matrix, whose session the fixture hook replaces.
PolicyCase ==
  [mutates |-> FALSE, requires |-> {}, bindings |-> <<"player">>,
   steps |-> << [Base EXCEPT !.judge = "policy", !.allowed = [t \in Targets |-> {200}]] >>,
   groups |-> {}, groupRules |-> FALSE, rotates |-> {"player"}]

\* A score submission whose id is captured into an action, which is compared
\* together with its drain and masked.
MixedCase ==
  [mutates |-> TRUE, requires |-> {"map"}, bindings |-> <<"player">>,
   steps |-> << [Base EXCEPT !.uses = {"map"}, !.captures = <<"id">>, !.judge = "score"],
                [Base EXCEPT !.uses = {"id"}, !.rules = TRUE, !.masks = {"id"}], Base >>,
   groups |-> {2}, groupRules |-> TRUE, rotates |-> {}]

\* A step of its own, then an action and its drain compared together.
GroupCase ==
  [mutates |-> TRUE, requires |-> {"map"}, bindings |-> <<"player">>,
   steps |-> << Base, [Base EXCEPT !.uses = {"map"}], Base >>,
   groups |-> {2}, groupRules |-> TRUE, rotates |-> {}]

\* A score submission: its shared fields are compared and its id is captured.
ScoreCase ==
  [mutates |-> TRUE, requires |-> {"map"}, bindings |-> <<"player">>,
   steps |-> << [Base EXCEPT !.uses = {"map"}, !.captures = <<"id">>, !.judge = "score"] >>,
   groups |-> {}, groupRules |-> FALSE, rotates |-> {}]

MixedCorpus   == <<MixedCase, PolicyCase>>
CaptureCorpus == <<CaptureCase, PolicyCase>>
GroupCorpus   == <<ScoreCase, GroupCase>>

\* What the configuration supplies; the other variables are absent.
Supplies(q) == [v \in TheVars |-> IF v = "map" THEN q ELSE "absent"]

Options(complete, qualities, going) ==
  {[allowMutating |-> mutate, requireAll |-> complete, goOn |-> go, hook |-> complete,
    roles |-> roles, allows |-> [t \in Targets |-> t = "zigcho" \/ peer],
    fixture |-> [t \in Targets |-> Supplies(q)]] :
      mutate \in BOOLEAN, go \in going, roles \in IF complete THEN BOOLEAN ELSE {TRUE}, peer \in BOOLEAN, q \in qualities}
\* A partial run stops at the first failure; a complete one may go on.
ProofConfigs   == Options(TRUE, Quality, BOOLEAN)
PartialConfigs == Options(FALSE, {"good", "absent"}, {FALSE})
AnyConfigs     == ProofConfigs \cup PartialConfigs

NoNested    == {}
NestedId    == {"id"}
TheSessions == {"player", "other"}
TheStatuses == {200, 400}
TheBodies   == {<<>>, <<"p">>}
OneStatus   == {200}
OneBody     == {<<>>}
=============================================================================

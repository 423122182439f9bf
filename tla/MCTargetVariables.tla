-------------------------- MODULE MCTargetVariables --------------------------
(* Two targets and one key with two leaves: every shape of the shared and of *)
(* the targets' parts, and the transcripts of two steps of these forms.      *)
EXTENDS TargetVariables

MCTargets == <<"zigcho", "reference">>

AllItems == {Nothing, Scalar, Unset} \cup ((SUBSET Leaves) \ {{}})

Step(uses, expects, captures, rules, policy) ==
  [uses |-> uses, expects |-> expects, captures |-> captures, rules |-> rules, policy |-> policy]

One   == <<"one">>
Id    == <<"one", "id">>
Token == <<"one", "token">>

First  == {<<>>, <<One>>, <<Id>>, <<Id, Token>>, <<Id, One>>, <<One, Id>>}
Second == {<<>>, <<One>>, <<Id>>}
AtMostOne(paths) == {{}} \cup {{path} : path \in paths}

\* Both steps capture and use, also one into what the other captured and over it;
\* a path may be required.
Uses == {[requires |-> r, steps |-> <<Step(u1, {}, c1, {}, {}), Step(u2, {}, c2, {}, {})>>] :
           r \in AtMostOne({One, Id}), c1 \in First, c2 \in Second,
           u1 \in AtMostOne({Id}), u2 \in AtMostOne(Paths)}

\* An expectation, a rule or the policy of the second step looks one path up.
Lookups == {[requires |-> {}, steps |-> <<Step({}, {}, c1, {}, {}), second>>] :
              c1 \in First,
              second \in UNION {{Step({}, {p}, c2, {}, {}), Step({}, {}, c2, {p}, {}),
                               Step({}, {}, c2, {}, {p})} : p \in Paths, c2 \in Second}}

AllTranscripts == Uses \cup Lookups
=============================================================================

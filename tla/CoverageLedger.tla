---------------------------- MODULE CoverageLedger ----------------------------
(***************************************************************************)
(* What a corpus of transcripts claims to cover and what it really sends:  *)
(* check_transcript_coverage of src/coverage.py over transcripts that      *)
(* validate_transcript accepted, and what main of src/run.py makes of its  *)
(* report before anything is sent.                                         *)
(*                                                                         *)
(* Steps are named by their positions.  A step is its request (kind, token,*)
(* packets in order, route), its response contract (format, body and       *)
(* status compared, an effective predicate) and the policy of its matrix.  *)
(***************************************************************************)
EXTENDS Naturals, Sequences, SequencesExt, FiniteSets

CONSTANTS
  Projects,         \* what a command may find: corpora of transcripts, the manifest's lists
                    \* of required scenarios, and command lines, see TypeOK
  Handled,          \* the packets the manifest says the server handles
  Routes,           \* the routes of the manifest
  Policies,         \* the declared policy differences of the reference
  PolicyPackets,    \* the packets each policy is about
  Waivers,          \* the policies with a source attestation
  ReadbackRoutes,   \* the routes a packet's effect may be read back from
  Ping,             \* the packet a session readback sends
  None

\* A command finds at least one transcript; the manifest's scenarios have ids of
\* their own, and src/manifest.json lists some.
ASSUME ProjectsAssumption ==
  \A project \in Projects :
    /\ \A found \in project.corpora : found \in Seq(ToSet(found)) /\ found # <<>>
    /\ \A list \in project.scenarios :
         /\ list \in Seq(ToSet(list)) /\ list # <<>>
         /\ \A i, j \in DOMAIN list : list[i].id = list[j].id => i = j

VARIABLES
  pc,          \* "cases", "manifest", "decide", "rejected", "started", "reported"
  options,     \* the command line and what the checks of the sources say
  scenarios,   \* the required scenarios, in order
  corpus,      \* the transcripts, in the order they will run
  next,        \* the transcript checked next
  declared,    \* packets claimed by the transcripts that are not malformed
  claimedRoutes,
  exercised,   \* policies some step has a matrix of
  triggered,   \* what the asserted triggers of each policy sent
  errors       \* the codes of the errors found

ledger == <<declared, claimedRoutes, exercised, triggered>>
vars   == <<pc, options, scenarios, corpus, next, ledger, errors>>

-----------------------------------------------------------------------------
(* A transcript *)

StepsOf(c)     == DOMAIN c.steps
Sends(c, s)    == ToSet(c.steps[s].packets)
Sent(c)        == UNION {Sends(c, s) : s \in StepsOf(c)}
Occurrences(c) == {o \in StepsOf(c) \X Sent(c) : o[2] \in Sends(c, o[1])}
MatrixSteps(c) == {s \in StepsOf(c) : c.steps[s].policy # None}
CasePolicies(c) == {c.steps[s].policy : s \in MatrixSteps(c)}
Requested(c)   == {c.steps[s].route : s \in {r \in StepsOf(c) : c.steps[r].kind = "web"}}
Malformed(c)   == c.category = "malformed-input"

IsEmptyPoll(step)       == step.kind = "poll" /\ step.token # None /\ step.packets = <<>>
IsSessionReadback(step) == step.kind = "poll" /\ step.token # None /\ step.packets = <<Ping>>

\* The user a step acts as, if its token is one of the session bindings.
Role(c, s) == LET t == c.steps[s].token IN IF t \in DOMAIN c.bound THEN c.bound[t] ELSE None

\* Mutant: two tokens are two users.
DistinctTokens(c, s, o) == c.steps[s].token # c.steps[o].token

Distinct(c, s, o) == Role(c, s) # None /\ Role(c, o) # None /\ Role(c, s) # Role(c, o)

\* What an assertion may say its observers are.
Kinds == {"immediate-response", "policy-matrix", "recipient-poll", "state-readback"}

\* validate_transcript, as far as the ledger relies on it.
Accepted(c) ==
  /\ c.steps # <<>>
  /\ \A s \in StepsOf(c) : c.steps[s].kind = "poll" => c.steps[s].token # None
  /\ c.claims # {} => c.category # "legacy-web"
  /\ \A p \in c.policyAssertions :
       /\ p.trigger \in p.steps /\ p.steps \subseteq {s \in MatrixSteps(c) : s >= p.trigger}
       /\ (Cardinality(p.steps) = 1) = (p.observer = "none")
       /\ \A s \in p.steps : c.steps[s].policy = p.policy
       /\ \A q \in c.policyAssertions : q # p => q.steps \cap p.steps = {}
  /\ UNION {p.steps : p \in c.policyAssertions} = MatrixSteps(c)
  /\ \A a \in c.assertions :
       /\ a.kind \in Kinds
       /\ a.packets # {} /\ a.packets \subseteq c.claims
       /\ a.requests # {} /\ a.requests \subseteq StepsOf(c)
       /\ a.observers # {} /\ a.observers \subseteq StepsOf(c)
       /\ (a.kind = "policy-matrix") = (a.policy # None)

-----------------------------------------------------------------------------
(* The checks of a transcript.  Broken names those that fail. *)

Broken(checks) == {code \in DOMAIN checks : ~checks[code]}

\* Mutant: a waiver may be followed by other steps.
WaiversCheckedByScenario(c) == Broken([
  policy_source_attestation_mismatch |->
    \A s \in MatrixSteps(c) : c.steps[s].attested = (c.steps[s].policy \in Waivers),
  source_attested_policy_not_terminal_scenario |->
    \A s \in MatrixSteps(c) : c.steps[s].attested /\ scenarios # <<>> => c.id = Last(scenarios).id])

\* A policy may waive a body only if the reference names its source attestation,
\* in the last step of the last scenario.
WaiverErrors(c) == Broken([
  policy_source_attestation_mismatch |->
    \A s \in MatrixSteps(c) : c.steps[s].attested = (c.steps[s].policy \in Waivers),
  source_attested_policy_not_terminal_step |->
    \A s \in MatrixSteps(c) : c.steps[s].attested => s = Len(c.steps),
  source_attested_policy_not_terminal_scenario |->
    \A s \in MatrixSteps(c) : c.steps[s].attested /\ scenarios # <<>> => c.id = Last(scenarios).id])

PolicyErrors(c) == Broken([
  unknown_policy |-> CasePolicies(c) \subseteq Policies,
  policy_observer_shape_invalid |->
    \A p \in c.policyAssertions : \A s \in p.steps \ {p.trigger} :
      /\ s > p.trigger
      /\ IF p.observer = "recipient-poll"
           THEN IsEmptyPoll(c.steps[s]) ELSE IsSessionReadback(c.steps[s]),
  policy_observer_not_distinct |->
    \A p \in c.policyAssertions : \A s \in p.steps \ {p.trigger} :
      p.observer = "recipient-poll" => Distinct(c, p.trigger, s)])

StepErrors(c) == Broken([
  packet_step_without_packet_response |->
    \A s \in StepsOf(c) : c.steps[s].kind = "poll" /\ ~Malformed(c) => c.steps[s].bancho,
  multiple_client_packets_in_behavior_step |->
    \A s \in StepsOf(c) : Len(c.steps[s].packets) <= 1,
  covered_response_not_compared |->
    \A s \in StepsOf(c) : Sends(c, s) # {} \/ c.steps[s].kind = "web" =>
      c.steps[s].body /\ c.steps[s].status])

ClaimErrors(c) == Broken([
  unobserved_packet_claim |-> c.claims \subseteq Sent(c),
  unobserved_route_claim |-> c.routes \subseteq Requested(c),
  undeclared_packet_request |-> Sent(c) \subseteq c.claims,
  undeclared_route_request |-> Requested(c) \subseteq c.routes])

\* Who observes what an assertion's requests did, and when.
ObserverErrors(c, a) == Broken([
  noncausal_immediate_observer |->
    a.kind \in {"immediate-response", "policy-matrix"} => a.requests = a.observers,
  observer_not_after_request |-> a.kind \in {"recipient-poll", "state-readback"} =>
    \A s \in a.requests : \E o \in a.observers : o > s,
  recipient_observer_not_distinct |-> a.kind = "recipient-poll" =>
    \A s \in a.requests : \E o \in a.observers : o > s /\ Distinct(c, s, o),
  recipient_observer_is_not_empty_poll |-> a.kind = "recipient-poll" =>
    \A o \in a.observers : IsEmptyPoll(c.steps[o]),
  state_readback_route_mismatch |-> a.kind = "state-readback" =>
    \A p \in a.packets, o \in a.observers :
      c.steps[o].kind = "web" /\ c.steps[o].route \in ReadbackRoutes[p],
  policy_observer_matrix_mismatch |-> a.kind = "policy-matrix" =>
    \A s \in a.requests \cup a.observers : c.steps[s].policy = a.policy])

\* What the observer's response can show.
EvidenceErrors(c, a) == Broken([
  packet_observer_without_packet_response |-> ~Malformed(c) =>
    \A o \in a.observers : c.steps[o].kind = "poll" => c.steps[o].bancho,
  assertion_body_not_compared |-> \A o \in a.observers : c.steps[o].body,
  behavior_observer_without_runtime_predicate |-> ~Malformed(c) =>
    \A o \in a.observers : c.steps[o].policy # None \/ c.steps[o].predicate,
  assertion_request_step_did_not_send_packet |->
    \A s \in a.requests : a.packets \subseteq Sends(c, s)])

Asserted(c) == UNION {a.packets : a \in c.assertions}
AssertedOccurrences(c) ==
  UNION {{o \in a.requests \X a.packets : o[2] \in Sends(c, o[1])} : a \in c.assertions}

AssertionErrors(c) == Broken([
    packet_behavior_not_asserted |-> c.claims \subseteq Asserted(c),
    assertion_for_unclaimed_packet |-> Asserted(c) \subseteq c.claims,
    packet_occurrence_not_asserted |-> Occurrences(c) \subseteq AssertedOccurrences(c)])
  \cup UNION {ObserverErrors(c, a) \cup EvidenceErrors(c, a) : a \in c.assertions}

CaseErrors(c) == WaiverErrors(c) \cup PolicyErrors(c) \cup StepErrors(c)
                   \cup ClaimErrors(c) \cup AssertionErrors(c)

\* Mutant: the claims are taken for what the triggers sent.
TriggeredClaims(c, policy) ==
  UNION {c.claims : p \in {q \in c.policyAssertions : q.policy = policy}}

\* A trigger's packets count for its policy whether or not the rest is right.
Triggered(c, policy) ==
  UNION {Sends(c, p.trigger) : p \in {q \in c.policyAssertions : q.policy = policy}}

-----------------------------------------------------------------------------
(* The checks of the whole corpus *)

Ids(named) == [i \in DOMAIN named |-> named[i].id]

\* Only a corpus with every scenario is checked for their order.
OutOfOrder ==
  /\ Len(corpus) = Len(scenarios)
  /\ ToSet(Ids(corpus)) = ToSet(Ids(scenarios))
  /\ Ids(corpus) # Ids(scenarios)

ScenarioErrors(expected) ==
  UNION {Broken([
      required_scenario_category_mismatch |-> c.category = expected.category,
      required_scenario_too_small |-> Len(c.steps) >= expected.minimum,
      missing_required_scenario_step |-> expected.required \subseteq StepsOf(c),
      required_scenario_contract_changed |-> c.digest = expected.digest])
    : c \in {d \in ToSet(corpus) : d.id = expected.id}}

\* Mutant: a packet of a malformed transcript counts, too.
MissingErrorsLenient == Broken([
  missing_packet_transcript |-> Handled \subseteq UNION {c.claims : c \in ToSet(corpus)},
  missing_route_transcript |-> Routes \subseteq claimedRoutes,
  missing_policy_matrix |-> Policies \subseteq exercised,
  missing_required_scenario |-> ToSet(Ids(scenarios)) \subseteq ToSet(Ids(corpus))])

\* What a part of the corpus may leave out.
MissingErrors == Broken([
  missing_packet_transcript |-> Handled \subseteq declared,
  missing_route_transcript |-> Routes \subseteq claimedRoutes,
  missing_policy_matrix |-> Policies \subseteq exercised,
  missing_required_scenario |-> ToSet(Ids(scenarios)) \subseteq ToSet(Ids(corpus))])

PartialCodes == {"missing_packet_transcript", "missing_route_transcript",
                 "missing_policy_matrix", "missing_required_scenario"}

\* Mutant: a policy need not be tried with all of its packets.
CorpusErrorsSubset == Broken([
  unknown_coverage |-> claimedRoutes \subseteq Routes,
  policy_packet_set_mismatch |->
    \A p \in Policies \cap exercised : triggered[p] \subseteq PolicyPackets[p],
  unexpected_scenario |->
    scenarios # <<>> => ToSet(Ids(corpus)) \subseteq ToSet(Ids(scenarios)),
  required_scenario_sequence_mismatch |-> ~OutOfOrder])

CorpusErrors == Broken([
  unknown_coverage |-> /\ claimedRoutes \subseteq Routes
                       /\ UNION {c.claims : c \in ToSet(corpus)} \subseteq Handled,
  policy_packet_set_mismatch |->
    \A p \in Policies \cap exercised : triggered[p] = PolicyPackets[p],
  unexpected_scenario |->
    scenarios # <<>> => ToSet(Ids(corpus)) \subseteq ToSet(Ids(scenarios)),
  required_scenario_sequence_mismatch |-> ~OutOfOrder])

ManifestErrors ==
  MissingErrors \cup CorpusErrors \cup UNION {ScenarioErrors(s) : s \in ToSet(scenarios)}

-----------------------------------------------------------------------------
(* The command *)

\* The place of a scenario in the manifest; what is not there comes last.
Rank(id) ==
  IF id \in ToSet(Ids(scenarios)) THEN CHOOSE i \in DOMAIN scenarios : scenarios[i].id = id
    ELSE Len(scenarios) + 1

\* _order_manifest_scenarios is a stable sort: `from' says where each came from.
Sorts(from, found) ==
  /\ IsInjective(from)
  /\ \A i, j \in DOMAIN from : i < j =>
       LET a == Rank(found[from[i]].id)
           b == Rank(found[from[j]].id) IN a < b \/ (a = b /\ from[i] < from[j])

\* discover_transcripts accepts valid transcripts with ids of their own.
Init ==
  /\ pc = "cases"
  /\ \E project \in Projects :
       /\ options \in project.options
       /\ scenarios \in project.scenarios
       /\ \E found \in project.corpora :
            /\ \A i \in DOMAIN found : Accepted(found[i])
            /\ IsInjective(Ids(found))
            /\ \E from \in [DOMAIN found -> DOMAIN found] :
                 /\ IF options.selection THEN \A i \in DOMAIN found : from[i] = i
                                         ELSE Sorts(from, found)
                 /\ corpus = [i \in DOMAIN found |-> found[from[i]]]
  /\ next = 1
  /\ declared = {} /\ claimedRoutes = {} /\ exercised = {}
  /\ triggered = [p \in Policies |-> {}]
  /\ errors = {}

\* One turn of the loop over the transcripts.
CheckCase ==
  /\ pc = "cases"
  /\ LET c == corpus[next]
         valid == IF Malformed(c) THEN {} ELSE {c} IN
       /\ errors' = errors \cup CaseErrors(c)
       /\ declared' = declared \cup UNION {v.claims : v \in valid}
       /\ claimedRoutes' = claimedRoutes \cup c.routes
       /\ exercised' = exercised \cup CasePolicies(c)
       /\ triggered' = [p \in Policies |-> triggered[p] \cup Triggered(c, p)]
  /\ pc' = IF next < Len(corpus) THEN "cases" ELSE "manifest"
  /\ next' = IF next < Len(corpus) THEN next + 1 ELSE next
  /\ UNCHANGED <<options, scenarios, corpus>>

CheckManifest ==
  /\ pc = "manifest"
  /\ errors' = errors \cup ManifestErrors
  /\ pc' = "decide"
  /\ UNCHANGED <<options, scenarios, corpus, next, ledger>>

End(verdict) ==
  /\ pc = "decide"
  /\ pc' = verdict
  /\ UNCHANGED <<options, scenarios, corpus, next, ledger, errors>>

Consistent == errors \subseteq PartialCodes

\* validate: status ok, or the errors a selection may have were allowed.
Report ==
  /\ options.command = "validate"
  /\ errors = {} \/ (options.partial /\ Consistent)
  /\ End("reported")

\* run: what main refuses before it calls run_transcripts.
MayStart ==
  /\ ~(options.requireAll /\ options.selection)
  /\ options.requireAll => options.sources
  /\ Consistent
  /\ options.selection \/ errors = {}

StartRun == options.command = "run" /\ MayStart /\ End("started")

Refuse ==
  /\ IF options.command = "run" THEN ~MayStart
       ELSE errors # {} /\ ~(options.partial /\ Consistent)
  /\ End("rejected")

Next == CheckCase \/ CheckManifest \/ Report \/ StartRun \/ Refuse

Spec == Init /\ [][Next]_vars

-----------------------------------------------------------------------------
(* Properties *)

\* The ledger never counts more than the transcripts hold.
TypeOK ==
  /\ pc \in {"cases", "manifest", "decide", "rejected", "started", "reported"}
  /\ options \in [command : {"validate", "run"}, selection : BOOLEAN, partial : BOOLEAN,
                  requireAll : BOOLEAN, sources : BOOLEAN]
  /\ next \in DOMAIN corpus
  /\ declared \subseteq UNION {c.claims : c \in ToSet(corpus)}
  /\ triggered \in [Policies -> SUBSET UNION {Sent(c) : c \in ToSet(corpus)}]

\* An observer can see what step s did: its own reply; or a later empty poll of
\* another user; or a later readback of the packet's state.
Sees(c, kind, s, o, p) ==
  CASE kind \in {"immediate-response", "policy-matrix"} -> o = s
    [] kind = "recipient-poll" -> o > s /\ IsEmptyPoll(c.steps[o]) /\ Role(c, s) # Role(c, o)
    [] kind = "state-readback" -> o > s /\ c.steps[o].route \in ReadbackRoutes[p]

\* A reply can tell a wrong answer: its body is compared between the targets and
\* is more than nothing.
Tells(c, o) == c.steps[o].body /\ (Malformed(c) \/ c.steps[o].policy # None \/ c.steps[o].predicate)

\* In whatever may run, also in a selection, every packet that is sent has an
\* assertion with an observer that can see its effect and tell it is wrong.
EveryPacketIsWitnessed ==
  pc = "started" => \A c \in ToSet(corpus) : \A sent \in Occurrences(c) :
    \E a \in c.assertions : \E o \in a.observers :
      /\ sent[1] \in a.requests /\ sent[2] \in a.packets
      /\ Sees(c, a.kind, sent[1], o, sent[2]) /\ Tells(c, o)

\* A default run sends every handled packet in a well-formed transcript and
\* requests every route, and compares the replies: the claims are not taken
\* for it.
SurfaceIsCovered ==
  pc = "started" /\ ~options.selection =>
    /\ \A p \in Handled : \E c \in ToSet(corpus) : ~Malformed(c) /\ p \in Sent(c)
    /\ \A r \in Routes : \E c \in ToSet(corpus) : \E s \in StepsOf(c) :
         c.steps[s].kind = "web" /\ c.steps[s].route = r /\ c.steps[s].body /\ c.steps[s].status

\* In a default run every policy difference is tried by a step that carries its
\* matrix, with each of its packets.
PoliciesAreTried ==
  pc = "started" /\ ~options.selection =>
    \A policy \in Policies : \A p \in PolicyPackets[policy] :
      \E c \in ToSet(corpus) : \E s \in StepsOf(c) :
        c.steps[s].policy = policy /\ p \in Sends(c, s)

\* In a default run nothing is sent after a reply whose body is waived: the
\* packet it may have left in some queue is never polled.
WaiverIsLast ==
  pc = "started" /\ ~options.selection =>
    \A i \in DOMAIN corpus : \A s \in MatrixSteps(corpus[i]) :
      corpus[i].steps[s].attested => i = Len(corpus) /\ s = Len(corpus[i].steps)
=============================================================================

# Verification of stable-conformance

This directory models the conformance runner of this repository in TLA+,
checks the models with TLC and proves theorems about them with TLAPS. The
reference is the code under `src/`; every definition that models code is
listed in `PROJECT.json` under `map` with the lines it stands for.

## 1. Inventory

The repository compares two osu!stable servers, Zigcho and a reference, by
replaying transcripts against both and comparing what they answer. Around that
runner there are fixtures that start the servers, source inventories, and a
benchmark.

### 1.1 Conformance run (`runner.py`, entered from `run.py`)

State: the options and configuration, one `TargetState` per target (its
variables, its sessions with token and user id, its client), the case, step and
target under way, the history of the case's replies, and the reports.
Operations: validate a complete run dry, challenge the sessions, call the
fixture hook, gate each case, send each step to the targets in turn, save
captures, normalise, compare, aggregate causal response groups, judge, decide
the exit code.
It calls one `TargetClient` per target, synchronously; the hook
(`integration/live.py`) shares the `TargetState` objects and changes them
between cases.
Hard: captures of a failed step stay in the target's variables; validation is
done on a snapshot of them; the first target's failure must not keep the request
from the second; sessions are challenged at one moment and used at others; the
verdict combines skips, failures, stops and preflights.
Correct when: both targets are asked the same steps; nothing is sent before
its gates and identities hold; the dry validation is honoured at run time; a
passed run has compared everything it was meant to; every run ends.

### 1.2 Target client (`http_target.py`)

State: `_poisoned`, and for each call a daemon thread and a queue of one slot.
Operation: `request`, which starts the worker, waits up to a wall deadline, and
closes the client for good when that passes.
Hard: an abandoned worker goes on, reads the live variables, and may put its
request on the wire after the caller was told it failed; the socket timeout and
the wall deadline race.
Correct when: every call returns; no request follows an expired one; an accepted
reply answers the request that was validated; there is never a second worker.

### 1.3 Packet protocol (`protocol.py`)

Pure functions: frame a byte stream, decode each payload, note diagnostics,
normalise fields, build packets. The framing and decoding are loops with limits
and five ways out. Correct when the packets tile the stream, a body
reported complete is whole, and each diagnostic points at what it is about.

### 1.4 Transcript contract and policy matrices (`transcript.py`, part of `runner.py`)

`validate_transcript` decides what a transcript may say: the names its captures
take and its steps use, the policy assertions and behavior assertions it owns,
and what a policy matrix may compare, remove, waive or relate to an earlier
reply. `_check_policy_matrix` then compares the two replies of such a step by
the matrix and nothing else. Both are pure; the hard part lies between them:
what the validator lets through decides what the comparison cannot see.
Correct when nothing that both servers may send is removed, required packets are
found in order, and hiding the login bot hides no person.

### 1.5 Variables of the targets (`load_config` and captures in `runner.py`)

State: a dictionary of nested dictionaries for each target, merged from a shared
and a specific part, changed by captures, read by requests, expectations, rules and
policies of later steps. Hard: which dictionaries are one object for both targets;
a plan made by name for lookups made by value; captures inside and over captures.
Correct when a request is sent with what this very case captured, what a case
declares stays as it was loaded, and what the plan accepted renders.

### 1.6 Coverage ledger (`coverage.py`, the gates in `run.py`)

State while it runs: the packets declared, the routes claimed, the policies
exercised and triggered, the errors. One pass over the transcripts, one check of
the whole against the manifest, then a decision: run, report or refuse.
Hard: claims, requests, assertions and observers are four lists that may
disagree; a selection may run with some errors; the order of the corpus is decided
elsewhere. Correct when whatever may run has every packet witnessed by an observer
that can see and tell, and a default run covers the surface.

### 1.7 Pure helpers

`normalization.py` masks values by path and finds the first difference,
`score_charts.py` parses score replies, `strict_json.py` rejects duplicate keys,
`check.py` scans Zig sources. Pure functions; their hard parts are boundary cases.

### 1.8 Live fixture (`integration/`)

`live.py` starts the servers, seeds them, logs players in before each case,
drains their queues and cleans up; `proxy.py` and `mirror.py` forward HTTP;
`seed.py` and `reference_boot.py` prepare databases. Hard: the order of
shutdown, a timeout in the cleanup, a queue that is filled again after its drain, a
drain that is answered with an error and ignored, a session renewed in three places, a
login the server refuses while an older one lives.
Correct when a case starts with the sessions its variables name and with queues that are
empty or reported as not drained, main ends whatever fails, and no server outlives it.

### 1.9 Benchmark (`benchmarks/`)

One asyncio event loop. `client.py`: `active` and `peak`; `request` opens a
connection per request within a limit and reads a body in one of three framings
under a ceiling and a timeout. `mixed.py`: the tokens, `next_poll`, the
keepalive task and its `done` event, then for each phase the schedule of every
actor, the series, the receipts and a sampler. `bootstrap` logs the players
in, eight at a time, while the keepalive task polls those already connected, and
runs the preflights; `phase` drives periodic load until a deadline and verifies
the scores it got receipts for. `report.py` reduces latencies to buckets and
quantiles; `database.py` and `fixtures.py` build data. All coroutines share one
client; the two tasks share `tokens`, `next_poll` and an event.
Hard: a slot given back on every way out, cancellation included; keepalive
against logins; shutting the keepalive task down while it polls; slots missed by a
slow operation near the deadline; the overflow bucket.
Correct when: `active` is the number of requests in flight; a connected player
is never idle for long; a ramp that succeeds has everybody connected; every slot
of a schedule is served or reported; what is verified is what was acknowledged;
ramp and phase end.

The hazards of this code, each at its line, are listed in `PROJECT.json` under
`hazards`, with the properties that would catch them.

## 2. The modules

| Module | What it is |
| --- | --- |
| `ClientPromise` | abstract: what a target client promises its caller |
| `TransportClient` | `TargetClient.request`: caller, workers, queues, wire; implements `ClientPromise` |
| `RunVerdict` | abstract: what the exit code of a run promises |
| `ConformanceRun` | `run_transcripts` and all it calls, over clients that behave as `ClientPromise`; implements `RunVerdict` |
| `ConformanceRunProofs` | its theorems: gates, verdict, requests, comparison, identities, the steps of both targets |
| `TargetVariables` | `load_config`'s merge, the dry plan, captures: the variables as objects |
| `TargetVariablesProofs` | its theorems |
| `PolicyMatrix` | `_validate_policy_matrix` and `_check_policy_matrix`, with the login bot |
| `CoverageLedger` | `check_transcript_coverage` and what `main` of `run.py` makes of it |
| `TranscriptProofs` | theorems of `CoverageLedger` and `PolicyMatrix` |
| `LiveFixture` | `integration/live.py`: processes, logins, the hook, cleanup |
| `LiveFixtureProofs` | its theorems |
| `PacketFraming` | `decode_packet_stream` and `decode_semantic_packet_stream` |
| `TargetReplyProofs` | theorems of `TransportClient` and `PacketFraming` |
| `BenchClient` | `Client.request` of the benchmark: slots, framings, ceiling, timeout, cancellation |
| `BenchReport` | `Series` of `report.py`, fed with the client's answers |
| `LoginRamp` | the login ramp of `Workload.bootstrap`: logins, keepalive task, clock |
| `BenchPhase` | `Workload.phase`: periodic schedules, sampler, verification, clock |
| `BenchClientProofs`, `LoginRampProofs`, `BenchPhaseProofs` | their theorems |
| `MC...` | the instances TLC checks |

### 2.1 `TransportClient` and the code

`made` counts calls of `request`; `worker[i]`, `queue[i]` and `wire[i]` are the
thread, the one-slot queue and the request of call `i`. `Refuse` is the early
raise on `_poisoned`; `Start` makes queue and thread; `Take` and `Deadline` are
the two results of `results.get(timeout)`. `Render` reads the live variables,
whose contents are the number `version`; `ChangeVariables` (captures and the hook)
happens only between calls, because the caller is blocked in `request`
meanwhile. `Send`, `Headers`, `ReadBody` and `SocketFails` are `_request_blocking`,
`Arrive` is the network. The deadline may pass whenever the queue is empty and
the socket timeout at any stage, so no order of the two timers is assumed. In
particular the socket's timeout may come first and then leaves the client open:
an ordinary `failed` call of `ClientPromise` whose request may still arrive.

`ClientPromise` has no threads: its one variable is the sequence of the calls that
returned, each with its outcome and whether its request arrived. They end one after
the other as `answered`, `failed`, `expired` or `refused`; after `expired` all are
`refused`; requests of failed and expired calls may arrive late. The refinement
mapping hides the call in progress: it is not in the sequence until it returns.

### 2.2 `ConformanceRun` and the code

The runner is one thread, so `pc` names where it stands and each action is one
stretch of it up to and including one call through a client.

| Actions | Code |
| --- | --- |
| `RejectRun`, `StartRun` | `_validate_complete_run_requirements`, `_validate_complete_variable_plan`, the start of `run_transcripts` |
| `ChallengeAnswered`, `ChallengeFails`, `EndRunPreflights`, `EndCasePreflights` | `_run_session_preflights`, for the run or for a case |
| `Prepare`, `PrepareRaises` | the fixture hook |
| `SkipCase`, `StartCase` | the gates of `_run_case` |
| `Validate`, `ValidateFails` | the loop of `_run_step` that renders both requests |
| `Accept`, `RejectReply`, `ExchangeFails` | one turn of the exchange loop: request, checks, captures, canonical reply |
| `PassStep`, `FailStep`, `PassGroup`, `FailGroup` | comparison, policy, score, response group |
| `Summarise` | the summary and the exit code of `run.py` |
| `ArriveLate` | the network, as in `ClientPromise` |

What is abstracted:

- A variable is `absent`, `good` or `bad`; `bad` means that no valid request
  renders from it (wrong type, wrong range, an invalid packet). Validation,
  rendering and the packet check of a request all come down to "its variables
  are good".
- A body is its sequence of packets after normalisation; the body of a score
  step is the part of the charts both targets share. A reply is rejected without
  saying by which check, only how many captures had been saved by then.
- A policy matrix compares the statuses it allows; whatever else it says, and
  the framing of score replies, may reject a step (`StepFails`) but never
  accept one.
- A challenge fails for any reason: transport, framing, status packet of another
  user, a user id that cannot be masked.
- `roles` stands for the type and uniqueness checks of tokens and user ids.
- `Nested` is the set of names with a dot in them: `_has_path` and captures
  follow the dots, `normalization._replacement` does not.
- The hook's own traffic is left out; it may replace the tokens of the sessions
  its case `rotates`, and it may raise.
- A status is a number of three digits, all that the HTTP library returns, and the
  answer to a session's status request has 200 (`StatusesAssumption`).
- Names inside names, and what two targets share, are the subject of
  `TargetVariables`; what a policy compares, of `PolicyMatrix`.
- Not in the model: redaction of reports, source attestation, the target-set
  errors of `load_config`, the restricted-channel requirement beyond `roles`, and the
  errors a partial run reports for a waiver. That a comparison of groups also looks at
  what was `consumed` of a body adds nothing to framed packets.

`RunVerdict` knows only the verdicts of the cases, whether a preflight failed,
and the exit code: each case is judged once, in order, a failure stops the run
unless `--continue-on-failure`, and the exit code is 0 only if nothing failed
and, in a complete proof, nothing was skipped. The two abstract specifications
meet in `ConformanceRun`: upwards it implements `RunVerdict`; downwards its `Call`,
`CallFails`, `CallAnswers` and `ArriveLate` are written after `ClientPromise`, which
`TransportClient` implements. That they agree is by construction and not a property.

### 2.3 `PacketFraming` and the code

`CountLimit`, `TruncatedHeader`, `PayloadTooLarge`, `TruncatedPayload` and
`FramePacket` are the branches of one turn of the framing loop, `EndOfData` is
its condition; then `DecodeCompressed`, `DecodeBroken`, `DecodeOpaque` and
`DecodeSemantic` are the branches of the second loop. Bytes are abstract: a
header is the length it declares and a payload what its decoder makes of it,
both arbitrary. That a decoder raises at an offset within its payload is an
assumption here, which `PayloadReader.error` justifies (offsets are those of the
reader).

### 2.4 The benchmark modules and the code

asyncio is cooperative, so in these modules an action is the code between
two awaits, and what may interleave is exactly what awaits.

`BenchClient`: `stage[c]` is what the request of caller `c` is awaiting. `Full`
and `Refuse` are the returns and raises before the slot is taken, `Begin` takes
it, `Connected`, `Drained`, `Head` pass the awaits, `Length`, `Chunk`, `Stream` are
the three framings. Every way out is a `Leave`, which is the `finally` block:
a response, `Fail` (the exceptions the code names), `Expire`, `Cancel`, and
`NoStatus` (one it does not name). Header fields and bytes are left out; sizes
are counted. A socket whose writer was closed but not yet waited for is not
in the model.

`BenchReport` extends it with one `Series`: an operation adds its response without
awaiting anything in between, so a step of the client that answers is conjoined
with `Count` (`Answered`), and one that awaits on or ends in an exception leaves the
series alone (`Unanswered`). `NoReceipt` is the replay operation that makes a
response of its own. `Quantile` is the walk over the buckets; its running count is
`Within`, a `Total` of counts: as many as there are units (`Units`), a sum without
recursion. Latencies are counted
in half milliseconds, so that `Bucket` has something to round. `took` is history:
the real latencies, against which `QuantilesAreTight` holds what is reported.

`LoginRamp`: `login[p]` is the coroutine `one`, `calls` the requests in flight
on the shared client, `beat` the keepalive task. `StartLogin`, `LoginValid`,
`LoginInvalid` are the coroutine; `AllIn` and `RampExpires` end the gather,
`StopBeat` and `Finish` are the `finally` block and the check after it; `Look`,
`PollEnds`, `PollRaises`, `Rest`, `Wake` are the keepalive loop. A request is
what `BenchClient` makes of one: it ends within `Timeout`, with an answer, an
error, or an exception. When one coroutine of a gather raises, its siblings go
on, as asyncio's do. `seen` is a history variable that only `KeptAlive` reads.

`BenchPhase`: `due[a]` and `stage[a]` are the local variables of `periodic`;
`Begin` is the sleep that ends, `End` the whole of what follows an operation,
`Skipped` its arithmetic. The sampler is `Look`, `Sample`, `Rest`; `StopSampling`,
`Conclude`, `Fail` are the `finally` block and the end of the phase. What an
operation asks of the server is one outcome, valid or not. Lateness, latencies,
the other columns of the report and the queries of the verification are left out.

The clocks of the last two are integers, and code takes no time: time passes in
`Tick`, in `LoginRamp` only when nothing is ready to run; in `BenchPhase` a
sleeper may be resumed up to `Lag` late. Both assume an event loop that keeps up
with its timers.

### 2.5 `TargetVariables` and the code

A variable of a target is a scalar or a reference; `heap` holds the nested
dictionaries, so that two targets can hold one object. A value is the place it
came from (`source`, `owner`, `path`): two values are equal only when they come from
one place. Two levels stand for any depth, since `_get_path` and `_set_path` repeat
one step per level, and a capture brings a scalar, as every capture of the corpus does.
Lists are left out, and names with a literal dot as keys of the configuration.

`root` and `heap` are read and changed as one memory (`Now`): `Find` is `_get_path`,
`FindKey` the lookup of a normalizer, which takes the whole name as one key,
`Collides` and `SetPath` are `_set_path`, and `Saved` is the loop of captures, in a run
(`Exchange`) and in the copy of the plan (`Planned`). `Load` is `load_config` with
`_resolve_variables` and `_merge_variables`; `TranscriptRejects` the rules of
`validate_transcript` on captures; `PlanRejects` is `_validate_complete_variable_plan`,
which decides some things by name (`Unresolved`, `Shadows`) and others in the copy
(`Unplannable`).

A step has the paths its request uses, its expectations, its captures, and what the
normalizers (`rules`) and the policy look up. `Validate` renders both requests; each
target then has one turn, in which it is `Refused` or makes as many captures as the
reply gives values (`Exchange`), and the next has its turn whatever happened to the
first; `Judge` looks up what the policy reads, once both have answered, and only if
nothing went wrong. `errors` is what the step's `target_errors` and its early
returns say, reduced to its kind: a `request` that does not render, a `capture` that
collides, a `lookup` by an expectation, a normalizer or the policy that misses its
variable, or anything else about a `reply`. The kinds matter because the code keeps its
word for the first two only: `PlanHolds` is about these, and `PlanFindsAll`, which
is about the third, is a finding.

### 2.6 `PolicyMatrix` and the code

A packet is its id, the user it is about, the list it carries and the rest of
its payload. `Allowed` is `_validate_policy_matrix`, `TargetKept`, `Crashes` and
`Holds` are `_check_policy_matrix` in its order: each target's contract, then
branding and selection, removal, baselines and cross comparisons. A filter of the
code is `At`: what stands at some places of a sequence, in their order. `Met` is the
walk of `_is_subsequence`. The bot's id, `Bot`, differs between the targets and is
replaced by `Marker` in lists of friends. An absent key is
`Absent`, an absent list of ids the empty set. `MatrixAssumption` says that replies
and required lists are sequences, that only users are listed as friends, and that the
marker, a string, is no user's number. `crashed` is the exception of
`compare_packet_ids` on a reply that is text: it needs a matrix of the
malformed-input category that waives a body and still selects packets, which
the validator accepts and no shipped transcript has.

### 2.7 `CoverageLedger` and the code

A step is what the checks read of it: kind, token, packets, route, which parts
are compared, predicate and policy. `Broken` turns a record of named conditions
into the set of codes that fail, so each field of `WaiverErrors` ... `CorpusErrors`
is one `_error(...)` of the code and its name the code's code (`unknown_coverage`
stands for the packets' and the routes' together). `CheckCase` is one turn of
the loop, `CheckManifest` what follows it, `Report`, `StartRun` and `Refuse` what
`main` does with the result; `Init` is discovery and the stable sort by the
manifest's order, stated as what a stable sort is (`Sorts`). `Accepted` is the part
of `validate_transcript` the ledger relies on. The counts of the report are left
out.

### 2.8 `LiveFixture` and the code

`main` is one thread; `work` holds the requests still to send, in order. `Launch`,
`WaitReady`, `Seed` start one server after the other; `ConfigWork` and
`PrepareWork` are the requests of `build_config` and `prepare`, the latter a case's
`Actions` on a server and then a poll of every role there. The two servers and
their order are fixed, as in the code; the roles are any table with a primary. A
leave, join, create or leaderboard request is an `act`, which may put packets
anywhere but into its own queue. `Request` is one that is served. `AnsweredWithError`
is one that is not answered with 200, which `request` returns like any other answer:
the server's own error, or the proxy's 502, whether the server is gone, has done nothing
or has done all of it. `Tolerates` names the requests whose answer nobody checks:
every drain, the actions of `build_config`, and those of `prepare` as far as
`packet_ids` reads the error's body as a stream. The hook then writes the drain's status
into its evidence (`undrained`) and goes on. `RequestFails` is the rest: the checks
that raise, and no answer at all. `KeepsToken` writes a new token in the
fixture's table and in the runner's variables. `Terminate`, `TimeoutExpired` and
`Reap` are the finally block. The servers are not in the repository: `Boot`,
`Die`, `Login`, `Act`, `Poll`, `Logout`, `Age` are what the fixture relies on.
They may die at any time, refuse a second login (the reference), ignore a logout in
the first second (the reference), and put packets in any other session's queue, but
they handle a request before they answer it. A packet that a server puts into a queue
of its own accord, after the request that caused it was answered, is outside this
model: the fixture has no means against it.
A case may log anybody out and leave packets anywhere.

## 3. The runs

| Run | Question | States |
| --- | --- | --- |
| `transport_client` | Does one client, over all interleavings of caller, workers and network, keep its promise, send nothing after an expiry, and always return? | 62 000 |
| `conformance_run` | Complete and partial, with every failure: same steps to both, valid requests, dry validation honoured, identities and gates first, nothing left out of a passed proof, no difference lost between an action and its drain, the verdict kept, and an end? | 260 000 |
| `group_status` | the finding below: TLC finds the documented statement violated | stops at the violation |
| `target_variables` | Is a captured variable used only after this case captured it, does a complete run keep what the case declared, and does what the plan accepted render? | 716 000 |
| `aliased_object` | the other finding that is a run | stops at the violation |
| `policy_matrix` | What can a matrix that the validator accepts hide from the comparison? | 1 870 000 |
| `coverage_ledger` | Is every packet witnessed in whatever may run, and does a default run cover the surface and end with its waiver? | 461 000 |
| `packet_framing` | Is every stream cut without gap or overlap and called complete only when it is whole? | 11 000 |
| `live_fixture` | Does a case start with the sessions its variables name and without a packet nobody knows of, does main end, and is no server left? | 1 600 000 |
| `bench_client` | Does the benchmark's client give every slot back once, on each way out, and do the reported quantiles bound what was measured? | 1 287 000 |
| `login_ramp` | Does the ramp keep every connected player alive, never fill its own client, never report success with a player lost, and end? | 1 821 000 |
| `bench_phase` | Is every slot of a schedule served or reported, does the load stop, is every acknowledged score verified, and does the phase end with its sampler? | 237 000 |

Besides these runs the directory keeps configurations for what they leave out.
`MC...More.cfg` check the further properties of their modules: types, the policies
of a default run (`PoliciesAreTried`), declared packets and waivers
(`OnlyDeclaredPackets`, `WaiverComparesNothing`), the settled logout and the servers that are up
(`LogoutWillCount`, `ServersAreUp`), and that every framing and every request ends
(`Returns`, `RequestsEnd`). `MCRotatedToken`, `MCNestedVariable`, `MCBenchStatus`,
`MCShadowedFixture` and `MCOverwrittenCapture` each end in a violation, see 3.3.

### 3.1 Bounds and why they are enough

- `transport_client`: 4 calls (`MaxCalls`), 2 changes of the variables
  (`MaxVersion`). Two calls show every race of one abandoned worker; the third
  and fourth show refusals after it and failed calls before it. The theorems
  hold for all bounds.
- `conformance_run`: two targets; a case whose score step captures a value that an
  action uses and masks, which is compared together with its drain; a case with a policy
  step whose session the hook replaces; every choice of options, gates,
  roles and fixture quality, complete and partial; empty and non-empty bodies, so a
  packet may be in either reply of the group, both or none. That gives every branch of
  the step loop on both targets, at the first, middle and last step. One status: what a
  second one adds is the finding `group_status`, which has two.
- `target_variables`: two targets, one key with two leaves, every shape of the shared
  part and of the targets' own; transcripts of two steps that capture up to two
  paths each, over and into one another, require one, and use these paths or look them up
  by expectation, rule and policy in any step. Two leaves show what a capture into an
  object leaves alone, two steps what a later capture takes away from an earlier.
- `policy_matrix`: pairs out of twelve contracts, two of them mistaken, with
  selections, removals, waivers, baselines; replies of up to two packets, text
  and cut ones. Packet 8 may be sent by both, 24 by one, both or neither: two ids
  are enough for one kept and one removed. Logins: both bot ids, each of which is a
  person's on the other server, and up to two packets of people.
- `coverage_ledger`: all pairs of fifteen steps with one assertion of any kind
  over any requests and observers; and corpora of one or two transcripts, good,
  malformed, waiving, in either order, under all command lines. Two transcripts show
  a missing one, a wrong order and a waiver that is not last. The theorems hold for
  all corpora.
- `packet_framing`: real header size, streams to 26 bytes, payload limit 2, count
  limit 2, declared lengths to 3. All limits, one less and one more, occur,
  with up to two packets before them. The theorems hold for all limits.
- `live_fixture`: two servers, two users, two cases of three kinds (`MaxCases`),
  two looks of `wait_ready` (`MaxTries`). The second case starts from whatever
  the first left; a user has another to be disturbed by.
- `bench_client`: three callers and two slots, so the limit is met while its
  holders can still end in any way (the callers are symmetric). Callers call again
  for ever, so a slot lost or returned twice is seen later. Three responses are
  followed (`MaxResponses`), the fewest for which a rank rounds; latencies lie on,
  between and beyond the bounds of three buckets (`Last` 2, for 10 000 ms) and the
  overflow. The ceiling of a body is 1; `MCBenchClientMore.cfg` checks `BodiesCapped`
  with ceiling 2, read one or two units at a time, and that the report adds up.
- `login_ramp`: four players, two at a time, timeout 4, polling period 2, pause 1,
  safety limit 8. Two slow logins in a row last 8, longer than the 7 `KeptAlive`
  allows, so without the keepalive task it would be violated; a poll may outlast
  the period; the safety limit may cut logins at either stage. `Capacity` is `N`,
  the smallest the assumption allows. `Horizon` bounds the clock at 14; `EndsInTime`
  (12) shows it is never reached.
- `bench_phase`: a rare actor whose first slot may come before, at or after the
  deadline, and a frequent one whose longest operation runs over two of its slots,
  at every phase against the deadline. `Horizon` 16 is above the 14 of
  `LoadEndsInTime`.

With the code's constants `KeptAlive` allows a connected player to be idle for
5 + 30 + 0.1 s, far below the five minutes after which a server drops it.
`EverySlotAccounted` says "each slot once" except in one case that the code
does decide differently: an operation that runs over a deadline falling exactly
on a slot reports that slot as missed too. The code's first slots are random
fractions, so this does not happen in practice.

The cfgs say `CHECK_DEADLOCK FALSE` because a run, a ramp, a phase, a function, a
command and a sequence of calls that has ended stops. `bench_client` never stops
and checks for deadlock.

### 3.2 Fairness and why the code justifies it

- `TransportClient`: `WF(Take \/ Deadline)` only. `results.get(timeout=...)`
  returns in bounded time whatever else happens. Nothing is assumed of workers,
  network or server, which may hang for ever.
- `ConformanceRun`: `WF(Run)`. The runner is one thread that blocks only in
  calls of its clients, and `EveryCallReturns` says they return. `ArriveLate` is
  not fair: a lost request may never arrive.
- `PacketFraming`: `WF(Next)`, a sequential function on finite input.
- `LiveFixture`: `WF(MainStep)`. Each wait of `main` has a limit: a request its
  client's timeout, `wait_ready` its 45 looks, the reaping 10 and 5 seconds.
  Nothing is assumed of the servers, which may hang, die, or never boot.
- `TargetVariables`, `PolicyMatrix`, `CoverageLedger`: none, they state safety only.
- `BenchClient`: `WF(Expire(c))` for each caller: `asyncio.timeout(30)` encloses
  every await of the request. Nothing is assumed of server or network.
- `LoginRamp`: `WF(Next)`: the event loop runs what is ready and otherwise lets
  time pass. Answers need not come; that a request ends after `Timeout` is in
  `Ready`, which stops the clock until it has ended.
- `BenchPhase`: weak fairness of each timer and task: the clock, each actor, the
  sampler and the main task. An operation ends, well or badly, because its
  request does (`RequestsEnd`).

### 3.3 Findings

`group_status` and `aliased_object` are runs; each of the others has a configuration
under which TLC finds the statement violated.

- `group_status`: the steps of a response group are compared by their packets
  only, so different HTTP statuses pass, against `README.md:82`. Latent in the
  shipped corpus: every grouped step there expects status 200.
- `MCRotatedToken`: in a complete run sessions are challenged once, before the
  first case; a token the hook supplies later is used without a challenge, against
  `README.md:18`. The hook checks the user id of its own login instead.
- `MCNestedVariable`: dotted variable names pass the dry validation and then
  are not found by a normalizer (`normalization.py:100`), after the step was sent.
  `DryRunHolds` holds of the lookup the code makes, with exactly these names excepted.
- `aliased_object`: `_merge_variables` copies the shared variables one level
  deep, so an object only the shared part has is one dictionary for both targets
  and a capture into it changes both, against `README.md:19`. Latent:
  `config.example.json` shares scalars only.
- `MCShadowedFixture`: captures are compared with required paths for equality
  only, so a capture of `one` replaces the object of a required `one.token` in a
  partial run, against `transcript.py:522`. A complete run refuses it.
- `MCOverwrittenCapture`: the plan decides by name that a captured path stays; a
  later capture of its parent takes it away, or a normalizer does not follow its dots,
  and the lookup raises after the requests were sent, against `README.md:74`.
- `MCBenchStatus`: a reply whose status line has no space makes `Client.request`
  raise `IndexError` instead of returning an error, and so ends the keepalive task
  or a whole phase, against `benchmarks/README.md:11`. `LoginRamp` and `BenchPhase`
  model the consequence (`PollRaises`, `Raise`): their properties hold in spite of it.

## 4. The proofs

The theorems hold for every value of the constants that the named assumptions
allow (`MaxCallsNat` and `MaxVersionNat`; `OrderAssumption`, `StatusesAssumption`,
`NestedAssumption` and `CorpusAssumption`; `SizesAssumption`; `LimitsAssumption`,
`CallersAssumption` and `SeriesAssumption`; `RampAssumption`; `PhaseAssumption`;
`ProjectsAssumption` and `MatrixAssumption`; `RolesAssumption`, `KindsAssumption` and
`BoundsAssumption`; `TargetsAssumption` and `TranscriptsAssumption`). TLC evaluates
these assumptions in the runs. No theorem has a hypothesis besides.

**TargetReplyProofs**, the client. The safety invariants are not inductive: that no
request follows an expired call needs that `poisoned` is exactly "some call
expired", and that an accepted reply answers the checked request needs the stage
of the worker. `IInv` adds to the type invariant: calls not made or refused have left
no trace (`Untouched`); exactly the returned calls have an outcome
(`ReturnedHaveOutcome`); a worker is done exactly when its queue is full
(`QueueFollowsWorker`); the poison records the one expired call and everything
after is refused (`PoisonRecordsExpiry`); until the caller gives up, worker and
caller see the same version (`SameVersion`). One lemma per action shows that it
keeps `IInv`. `TypeCorrect`, `AtMostOneWorker`, `NoTrafficAfterExpiry` and
`AcceptedReplyIsToTheCheckedRequest` follow. `ImplementsPromise` proves the
refinement: with `IInv`, each step is a step of `ClientPromise` or a stutter. The call
that is not refused is the last one made, and its outcome appears when the caller
takes it; from `PoisonRecordsExpiry` the client is closed exactly when the
sequence holds an expired call.

**TargetReplyProofs**, the framing. `FramingInv` adds to the three invariants: nothing is noted
while framing goes on, and once it is over either the data is used up or an
error says so (`StopIsNoted`); a payload that failed left an error
(`BrokenIsNoted`); packets and entries stay within their limits
(`WithinLimits`). `FramingTypeCorrect`, `FramingTiles`,
`CompleteBodiesAreWhole` and `DiagnosticsPointIntoTheirPart` follow.

**ConformanceRunProofs.** That no failure is passed over, that nothing required is
skipped in a complete run and that a preflight's doubt is not forgotten are facts
about where the thread stands, which case it is at and how many verdicts it has
written. `IInv` therefore adds to the type invariant and the gates: the logs
are sequences and the turn is a target's (`Shape`); a case past its gates still has
them open (`GatesOpen`); one verdict for each case before the one under way, the
last of them not a failure unless the run was told to go on (`Pace`); a complete run
past its preflights is without doubt or told to go on (`DoubtAllowed`); what the dry
validation found present stays present, because captures only ever set variables
(`NothingToSkip`). The lemmas `CallFailsRecorded`, `CallAnswersRecorded`,
`ArriveRecorded` and `CaptureTypes` say what a call, a late arrival and a capture
leave behind. `RunTypeCorrect` and `MutationsAreGated` follow, and
`ImplementsVerdict` shows the refinement: `InitJudges` for the initial states,
`NextJudges` for each action.

On top of that `IInv` stand further invariants, each for a theme of its own.

`StepInv` is about the variables. `FixtureKept`: in a complete run the plan was
accepted and no capture has replaced a variable the configuration supplied, since
the plan refuses captures that shadow it. `Saved`: the captures of the case's
earlier steps are in both targets' variables, those of the step under way at each
target that did not reject it. `RequestsStayValid` then says that the captures of the
first target never spoil the request to the second, because each target's captures
are its own; `DryValidationIsHonoured` that the plan's snapshot holds at run time, for
what a request renders from and, but for dotted names, for what a normalizer finds
(`Missed`).

`SaidInv` is about what was said, the log of the answered calls, which no action
reads: a pass is decided from the memory of the case under way. `Past` and `Once`
say where in the corpus an answer can be and that no step is asked twice; `Current`
and `Remembered` that the memory keeps the compared part of each answer, and that it
shows no difference outside a policy or an unfinished group; `Settled` that a case
judged passed agrees in the log itself; `Outcome` that a run that passed judged all
of them. `NoDifferenceIsLost` follows, group steps included, for any corpus.

`IdentityInv` adds `Introduced`: within the preflights each report and the targets
before the one under way speak for a challenge in the log; past them every binding
is challenged at both. `IdentitiesComeFirst` follows. That a complete run collects the
sessions of all its cases (`BindingsCollected`) is two loops, one in the other: both
walks exist and keep what they have met (`WalkExists`, `Climb`, `CollectedHolds`). A
complete run challenges all bindings of the corpus before its first case, a partial run
each case's own.

`ProofInv` extends `SaidInv` to what was asked, whatever the outcome: a failed,
expired or refused call carries its step as well as an answered one. `Placed` says
that it carries a step of the corpus, `InOrder` that each target's calls follow the
corpus, `Together` that the targets were asked the same except for the step being
exchanged, which those whose turn is over were asked. `BothAreAskedTheSame` follows:
neither a reply rejected at the first target nor a dead client keeps a step from the
second. For a passed proof the question is why nothing is missing: `Accounted` says
that a call that was not acceptable failed its case or is about to; `Complete` that
a complete run has two targets and does not pass with a case skipped. A run that
passed judged every case passed (`Outcome`), and a passed case asked all of its steps:
`PassedProofsAreComplete`.

**TargetVariablesProofs.** Everything rests on what one capture does to a memory. One
that does not collide changes the place its path leads to and no other
(`SaveChanges`); what a target then finds elsewhere is as before, except below the path
and in an object that is shared (`FoundAfterSave`). `SavedKeeps` carries this through
the captures of a step, one after the other, since a walk over a range exists and
keeps what each of its steps keeps (`WalkExists`, `Climb`): what was captured and what
was not, when a capture collides, which roots are scalars. The plan's copy is such a
walk, too, and `AcceptedPlanSays` reads off it what an accepted plan says of the names
(`PlanSays`): each path is captured before it is looked up or was loaded, no capture
takes a loaded one, none collides.

`IInv` then says of a case under way: a target has captured what the steps behind it
capture, and all of it if nothing went wrong (`CapturedSoFar`); between the steps
nothing did (`NoErrorBetween`); the transcript was accepted and, in a complete run, so
was the plan (`Accepted`); a root is a scalar exactly where one was loaded or captured,
an object of the shared part has been there from the start, and in a complete run
everything loaded is kept (`MemoryHolds`). The last is an invariant only because an
object that is shared was loaded in each target that holds it, so that the plan
of either target refuses a capture into what the other has loaded there.
`VariablesTypeCorrect` and `CompleteRunsKeepTheFixture` follow, with shared objects and
whatever the replies.

`FreshCapturesAreUsed` and `PlansHold` rest on one fact about overwriting, legal and
not prevented by any check: a capture may take away what an earlier one put
into an object only by taking the object's own name. So `CapturesHold` says that a
captured path is found with a value captured there, by this target or into a shared
object, unless the name above it was captured, too; and that name is then a scalar, so
that a request that uses the path below it does not render. A request that is sent did
render (`Rendered`: no capture of another target takes a value away, `OthersFind`), so it
carries what was captured in this case. In a complete run the plan has rendered it
against a copy in which the same names were captured, so the name above was not
(`PlanSays`), and `RequestsFindAll` and `CapturesDoNotCollide` say the rest. None of it
holds of rules and policies, which the plan accepts by name only: `PlanFindsAll` is
violated (`MCOverwrittenCapture`). `TargetSeparated` is violated, too (`aliased_object`),
and nothing is proved about it.

**TranscriptProofs.** The properties of `CoverageLedger` are about the transcripts and the decision
is taken from a set of error codes and four sets of counted names. `Loaded` says
what discovery and the sort leave: accepted transcripts with ids of their own, and,
in a default run, in the manifest's order. `Noted`: the errors contain those of each
transcript gone through, and of the manifest once it was checked. `Counted`: what is
declared, claimed or triggered is so in some transcript of the corpus. From a code
that is missing its condition follows (`NotBroken`). `StartedIsWitnessed` uses
that none of the partial codes is one of a transcript's; `DefaultRunCoversSurface` and
`DefaultRunTriesPolicies` that a default run starts without errors;
`DefaultRunEndsWithWaiver` that a scenario at the manifest's last place ranks above
all others, so the sort puts none behind it.

For `PolicyMatrix` the invariant is short: what was accepted is allowed, and a verdict
says what the comparison found (`Judged`). The work is in what a filter is. `Nth` is a
bijection between the numbers up to the cardinality of a set of places and the places,
and rises (`NthIs`); so a filter of a filter is a filter (`AtParts`), and where two
filters agree, so do their parts (`PartsAgree`). `RemovalsHideNothingShared`: what
both servers may send is in no removal, so it is a part of what was compared.
`PeopleAreCompared`: what is selected by an id behind the bot stands at the places of
that id that are not the bot's, and a marked list still tells whom it lists. For
`RequiredIdsAreInOrder` the walk first has to exist: a shortest sequence without one
would extend a shorter one's (`SomeWalk`); the place of a required id is the least at
which the walk has met as many. `OnlyDeclaredPacketsPass` and `WaiversStandAlone`
follow from `Judged` alone.

**BenchClientProofs.** The type invariant is not inductive by itself: that
`active - 1` is a natural number needs that the caller leaving is counted. `IInv` is
`TypeOK` with `SlotsMatchRequests`; the step of each action is a fact about the
cardinality of `Busy` with one caller more or less. `ClientTypeCorrect` and
`SlotsAreReturned` follow, for any number of callers and any limit. `Capped` is
inductive for each caller by itself: what was read never exceeds the ceiling by more
than the one byte the stream framing looks for; `ResponsesAreCapped` follows.
`SeriesOnlyWatches`: each step of the client with its series is a step of the client
or leaves it alone, so both properties hold of what `bench_client` runs
(`ReportedClientIsSound`); `SeriesTypeCorrect` adds that every answer has a label and
every latency a bucket. What a report says rests on `Tallied`: up to each bound the
buckets count as many responses as really took at most so long, all valid ones are
in the buckets, and all others under a label. Sums are cardinalities of sets of units,
so that adding to one count adds one element (`OneMore`) and no induction is needed.
`TallyMakesTight` does the rest for one state: a rank rounded up is reached exactly
when the exact share is (`RoundingUp`), and the least bucket that reaches it exists
because the naturals are well founded (`MinIsLeast`). `QuantilesAreHonest` and
`AnswersAreCounted` follow, for any buckets, quantiles and responses.

**LiveFixtureProofs.** What a case finds is decided by requests that are still to
send, so the invariant speaks of `work`. `Draining`: while the fixture prepares a
case, a queue with packets belongs to somebody still to be polled or recorded as
undrained, and behind every request that may fill queues there is a poll of
everybody on that server (`PollsLast`). `Named`: the runner's variables and the
fixture's table agree, and a live session is the one they name. `Renewing`: the primary of a case that renews
its session is logged in or has a login ahead, and behind each logout there is one.
`Aged`, `InOrder` and `Reaped` are about the sleep, the order of the start and the
finally block: who was started was told to stop, and whom the reaping has passed is
gone. `LeftoversAreKnown`, `VariablesAreCurrent`, `LogoutsCount`, `ServersHaveAnswered`
and `NoServerIsLeft` follow for any table of roles, any cases and any limits, with
servers that die at any time.

**LoginRampProofs.** `IInv` says why nothing but the order of the code keeps a
player's requests apart: a login is in flight only while its coroutine asks, a poll
only while its player is in and the task polls or has crashed, and none begins
after the safety limit (`CallsAwaited`); what the gather, `done` and the
outcome imply of each other (`Progress`); and when the task last looked and what
it then left for each player (`Rhythm`). From the first, requests inject into
players, and with `N <= Capacity` (2000 against 2048) the client always has room:
`OneRequestForEachPlayer`, `GeneratorIsNeverFull`. From the third,
`PlayersAreKeptAlive`; from the second, `ReadyIsConnected` and `RampEndsInTime`.

**BenchPhaseProofs.** `IInv` ties the schedule to what was counted: the slot an actor
works for is its first plus a whole number of periods, as many as it completed and
missed (`Schedule`); how late the clock may be against it (`Timing`, `Latest`); what
the end of the load implies (`Ending`). The arithmetic is in `SkippedWhole`: the
slots skipped are whole periods and end at the first slot not yet passed.
`SlotsAreAccounted`, `LoadIsOverInTime` and `ReceiptsAreVerified` follow, for any
number of actors, periods and deadline.

**Model-checked only.** Liveness under fairness (`EveryCallReturns`, `RunEnds`,
`Returns`, `RequestsEnd`, `RampEnds`, `PhaseEnds`, `MainEnds`) and everything about
`ENABLED` is out of this prover's reach. Every safety property of the passing runs is
a theorem. The library's induction theorems cannot be used here; `Climb`, `WalkExists`
and `SomeWalk` show the way around, by a least counterexample, one recursion at a time.

## 5. Plan

Order of work: the client, because every other property rests on it; the run;
the framing its comparison rests on; then what surrounds them. Done: all modules of
section 2 and the proofs of section 4. Open: the payload decoders of `protocol.py` as
functions of abstract bytes, should one of them come to keep state between packets.

## 6. Not modelled, and why

- `check.py`: character scanners over Zig source without state between them.
- `strict_json.py`, `seed.py`, `reference_boot.py`, `database.py`, `fixtures.py`:
  wrappers, SQL, process set-up, text and byte builders.
- `proxy.py` forwards one request at a time and keeps no state, `mirror.py` answers
  from constants.
- `normalization.py`, `score_charts.py` and the payload decoders of `protocol.py`
  are pure functions of texts, trees and bytes. The runs take what they return as an
  arbitrary value (a reply's body, a chart's shared part, a payload that decodes or does
  not). Their boundary cases are therefore not covered: the nine
  bytes of the ULEB128 reader (`protocol.py:446`), wildcard paths.
- Of `report.py`, the sum and maximum of a series, the window over the server's own
  histograms (`window_metrics`) and the process samples: arithmetic on what was
  read, after the phase has ended.
- The benchmark's set-up between login ramp and phases is a straight sequence of
  requests, any failure of which ends it. That players idle while 2000 of them join
  channels eight at a time, after the keepalive task has ended (`mixed.py:147`), is
  not examined.
- The inventory and source-attestation commands of `run.py` and the checks of shapes
  in `validate_transcript`, `load_config` and `validate_proof_metadata` accept or
  refuse input before anything happens.
- The servers are outside this repository: they appear as arbitrary answers, or as
  the assumptions of section 2.8.

## 7. How to run

    tlc -workers 2 -config MCConformanceRun.cfg MCConformanceRun
    tlc -workers 2 -config MCTargetVariables.cfg MCTargetVariables
    tlapm ConformanceRunProofs.tla
    tlapm LiveFixtureProofs.tla

`PROJECT.json` lists the runs with their cfg files, and for each property of a
passing run a mutant: a plausible bug under which TLC finds that property
violated. The mutants stand in the modules next to the definitions they alter,
marked "Mutant".

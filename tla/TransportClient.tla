--------------------------- MODULE TransportClient ---------------------------
(***************************************************************************)
(* TargetClient.request of src/http_target.py: the caller's thread starts  *)
(* a daemon worker for each call, waits on a one-slot queue until a wall   *)
(* deadline, and poisons the client when the deadline passes first.  The   *)
(* abandoned worker goes on: it renders the request from the target's LIVE *)
(* variables, may still put it on the wire, and its result goes to a queue *)
(* nobody reads.                                                           *)
(*                                                                         *)
(* Time is abstract: the deadline may pass at any moment while the caller  *)
(* waits, the worker's own socket timeout at any moment while it is on the *)
(* network.  `version' stands for the contents of state.variables.         *)
(***************************************************************************)
EXTENDS Naturals

CONSTANTS
  MaxCalls,    \* bound on the calls made through the client
  MaxVersion   \* bound on the changes of the target's variables

ASSUME MaxCallsNat   == MaxCalls \in Nat
ASSUME MaxVersionNat == MaxVersion \in Nat

VARIABLES
  poisoned,   \* TargetClient._poisoned
  caller,     \* "idle", or "waiting" in results.get(timeout) for call `made'
  made,       \* calls begun so far
  worker,     \* stage of each call's worker thread
  queue,      \* content of each call's one-slot queue
  wire,       \* each call's request: not sent, on its way, at the server
  outcome,    \* what request() returned or raised for each call
  version,    \* contents of state.variables, which the worker reads
  checked,    \* the version the runner validated before it made the call
  rendered    \* the version the worker rendered the request from

vars == <<poisoned, caller, made, worker, queue, wire, outcome,
          version, checked, rendered>>

Calls    == 1 .. MaxCalls
Versions == 0 .. MaxVersion

Stages   == {"absent", "render", "connect", "await", "read", "done"}
Results  == {"empty", "response", "error"}
Journey  == {"unsent", "sent", "reached"}
Outcomes == {"none", "answered", "failed", "expired", "refused"}

TypeOK ==
  /\ poisoned \in BOOLEAN
  /\ caller \in {"idle", "waiting"}
  /\ made \in 0 .. MaxCalls
  /\ caller = "waiting" => made > 0
  /\ worker \in [Calls -> Stages]
  /\ queue \in [Calls -> Results]
  /\ wire \in [Calls -> Journey]
  /\ outcome \in [Calls -> Outcomes]
  /\ version \in Versions
  /\ checked \in [Calls -> Versions]
  /\ rendered \in [Calls -> Versions]

Init ==
  /\ poisoned = FALSE
  /\ caller = "idle"
  /\ made = 0
  /\ worker = [i \in Calls |-> "absent"]
  /\ queue = [i \in Calls |-> "empty"]
  /\ wire = [i \in Calls |-> "unsent"]
  /\ outcome = [i \in Calls |-> "none"]
  /\ version = 0
  /\ checked = [i \in Calls |-> 0]
  /\ rendered = [i \in Calls |-> 0]

-----------------------------------------------------------------------------
(* The caller's thread. *)

\* request() on a poisoned client raises before it starts a worker.
Refuse ==
  /\ caller = "idle"
  /\ made < MaxCalls
  /\ poisoned
  /\ made' = made + 1
  /\ outcome' = [outcome EXCEPT ![made + 1] = "refused"]
  /\ UNCHANGED <<poisoned, caller, worker, queue, wire, version, checked, rendered>>

\* Mutant: a closed client still starts workers.
StartUnchecked ==
  /\ caller = "idle"
  /\ made < MaxCalls
  /\ made' = made + 1
  /\ caller' = "waiting"
  /\ worker' = [worker EXCEPT ![made + 1] = "render"]
  /\ checked' = [checked EXCEPT ![made + 1] = version]
  /\ UNCHANGED <<poisoned, queue, wire, outcome, version, rendered>>

\* request() makes a fresh queue, starts the worker and waits.
Start ==
  /\ caller = "idle"
  /\ made < MaxCalls
  /\ ~poisoned
  /\ made' = made + 1
  /\ caller' = "waiting"
  /\ worker' = [worker EXCEPT ![made + 1] = "render"]
  /\ checked' = [checked EXCEPT ![made + 1] = version]
  /\ UNCHANGED <<poisoned, queue, wire, outcome, version, rendered>>

\* Mutant: an exception in the queue is returned, not raised.
TakeRaw ==
  /\ caller = "waiting"
  /\ queue[made] # "empty"
  /\ caller' = "idle"
  /\ outcome' = [outcome EXCEPT ![made] = queue[made]]
  /\ UNCHANGED <<poisoned, made, worker, queue, wire, version, checked, rendered>>

\* Mutant: whatever the worker put counts as the reply.
TakeAnything ==
  /\ caller = "waiting"
  /\ queue[made] # "empty"
  /\ caller' = "idle"
  /\ outcome' = [outcome EXCEPT ![made] = "answered"]
  /\ UNCHANGED <<poisoned, made, worker, queue, wire, version, checked, rendered>>

\* results.get returns what the worker put; an exception is raised again.
Take ==
  /\ caller = "waiting"
  /\ queue[made] # "empty"
  /\ caller' = "idle"
  /\ outcome' = [outcome EXCEPT ![made] =
                   IF queue[made] = "response" THEN "answered" ELSE "failed"]
  /\ UNCHANGED <<poisoned, made, worker, queue, wire, version, checked, rendered>>

\* Mutant: the client stays open after the deadline.
DeadlineKeepsClient ==
  /\ caller = "waiting"
  /\ queue[made] = "empty"
  /\ caller' = "idle"
  /\ outcome' = [outcome EXCEPT ![made] = "expired"]
  /\ UNCHANGED <<poisoned, made, worker, queue, wire, version, checked, rendered>>

\* Mutant: the deadline only covers a request that was sent.
DeadlineOnceSent ==
  /\ caller = "waiting"
  /\ queue[made] = "empty"
  /\ wire[made] # "unsent"
  /\ caller' = "idle"
  /\ poisoned' = TRUE
  /\ outcome' = [outcome EXCEPT ![made] = "expired"]
  /\ UNCHANGED <<made, worker, queue, wire, version, checked, rendered>>

\* queue.Empty: the wall deadline passed with nothing in the queue.
Deadline ==
  /\ caller = "waiting"
  /\ queue[made] = "empty"
  /\ caller' = "idle"
  /\ poisoned' = TRUE
  /\ outcome' = [outcome EXCEPT ![made] = "expired"]
  /\ UNCHANGED <<made, worker, queue, wire, version, checked, rendered>>

\* Mutant: the variables also change while a call is under way.
ChangeVariablesAnyTime ==
  /\ version < MaxVersion
  /\ version' = version + 1
  /\ UNCHANGED <<poisoned, caller, made, worker, queue, wire, outcome, checked, rendered>>

\* Between calls the caller changes the target's variables: captures of the
\* reply it took, or the fixture hook replacing a session token.
ChangeVariables ==
  /\ caller = "idle"
  /\ version < MaxVersion
  /\ version' = version + 1
  /\ UNCHANGED <<poisoned, caller, made, worker, queue, wire, outcome, checked, rendered>>

-----------------------------------------------------------------------------
(* The worker of call i: _request_blocking, then results.put_nowait. *)

Put(i, result) ==
  /\ worker' = [worker EXCEPT ![i] = "done"]
  /\ queue' = [queue EXCEPT ![i] = result]

\* prepare_request reads the variables of the moment.
Render(i) ==
  /\ worker[i] = "render"
  /\ rendered' = [rendered EXCEPT ![i] = version]
  /\ worker' = [worker EXCEPT ![i] = "connect"]
  /\ UNCHANGED <<poisoned, caller, made, queue, wire, outcome, version, checked>>

\* prepare_request raises TranscriptError: nothing was sent.
RenderFails(i) ==
  /\ worker[i] = "render"
  /\ Put(i, "error")
  /\ UNCHANGED <<poisoned, caller, made, wire, outcome, version, checked, rendered>>

\* The opener connects and hands the request to the network.
Send(i) ==
  /\ worker[i] = "connect"
  /\ worker' = [worker EXCEPT ![i] = "await"]
  /\ wire' = [wire EXCEPT ![i] = "sent"]
  /\ UNCHANGED <<poisoned, caller, made, queue, outcome, version, checked, rendered>>

\* The status line and headers are in; an HTTPError is a response too.
Headers(i) ==
  /\ worker[i] = "await"
  /\ wire[i] = "reached"
  /\ worker' = [worker EXCEPT ![i] = "read"]
  /\ UNCHANGED <<poisoned, caller, made, queue, wire, outcome, version, checked, rendered>>

\* The body is read whole, or exceeds max_response_bytes.
ReadBody(i) ==
  /\ worker[i] = "read"
  /\ \E result \in {"response", "error"} : Put(i, result)
  /\ UNCHANGED <<poisoned, caller, made, wire, outcome, version, checked, rendered>>

\* OSError, URLError, the socket's own timeout, a broken body: the request
\* may already be on its way, and this error does not poison the client.
SocketFails(i) ==
  /\ worker[i] \in {"connect", "await", "read"}
  /\ Put(i, "error")
  /\ UNCHANGED <<poisoned, caller, made, wire, outcome, version, checked, rendered>>

Work(i) ==
  \/ Render(i)
  \/ RenderFails(i)
  \/ Send(i)
  \/ Headers(i)
  \/ ReadBody(i)
  \/ SocketFails(i)

\* The network delivers a request that was sent, however late.
Arrive(i) ==
  /\ wire[i] = "sent"
  /\ wire' = [wire EXCEPT ![i] = "reached"]
  /\ UNCHANGED <<poisoned, caller, made, worker, queue, outcome, version, checked, rendered>>

-----------------------------------------------------------------------------
Next ==
  \/ Refuse
  \/ Start
  \/ Take
  \/ Deadline
  \/ ChangeVariables
  \/ \E i \in Calls : Work(i) \/ Arrive(i)

\* results.get(timeout) returns in bounded time whatever the worker, the
\* network and the server do: only the caller's own return is fair.
Spec == Init /\ [][Next]_vars /\ WF_vars(Take \/ Deadline)

-----------------------------------------------------------------------------
(* Properties *)

\* One client never has two workers at once: a second request can only follow
\* a worker that has finished, because the call that abandons its worker is
\* the last one to start any.
OneWorker ==
  \A i, j \in Calls :
    worker[i] \notin {"absent", "done"} /\ worker[j] \notin {"absent", "done"} => i = j

\* After a wall-deadline timeout no later call puts anything on the wire.
ExpiredEndsTraffic ==
  \A i, j \in Calls : i < j /\ outcome[i] = "expired" => wire[j] = "unsent"

\* A reply the caller accepts answers the request it validated: the server
\* received this call's request, rendered from the variables as they were
\* when the call was made, although the worker reads them unlocked.
AnswersTheCheckedRequest ==
  \A i \in Calls :
    outcome[i] = "answered" => wire[i] = "reached" /\ rendered[i] = checked[i]

\* request() always comes back, even from a server that never answers.
EveryCallReturns == caller = "waiting" ~> caller = "idle"

\* The threads, queues and sockets implement the promise of ClientPromise:
\* the call in progress has not happened yet, a finished one has its outcome.
Returned == IF caller = "waiting" THEN made - 1 ELSE made

Promise == INSTANCE ClientPromise WITH
  returned <- [i \in 1 .. Returned |-> [outcome |-> outcome[i], reached |-> wire[i] = "reached"]]

KeepsPromise == Promise!Spec
=============================================================================

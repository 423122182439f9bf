----------------------------- MODULE BenchClient -----------------------------
(***************************************************************************)
(* Client.request of src/benchmarks/client.py, the asyncio HTTP client the *)
(* whole benchmark shares: a counter of requests in flight with a limit, a *)
(* fresh connection per request, three ways of reading a body under one    *)
(* ceiling, one wall timeout, and a finally block for every way out.       *)
(*                                                                         *)
(* asyncio is cooperative: an action is the code between two awaits.       *)
(* Bytes are counted in units small enough for MaxBody to be a small       *)
(* number; the values of headers and bodies are left out.                  *)
(***************************************************************************)
EXTENDS Integers, FiniteSets

CONSTANTS
  Callers,     \* the coroutines that call request, one call each at a time
  Capacity,    \* self.limit
  MaxBody,     \* self.max_body
  ReadSize     \* most that one reader.read of an undelimited body asks for

ASSUME LimitsAssumption ==
  /\ Capacity \in Nat \ {0}
  /\ MaxBody \in Nat
  /\ ReadSize \in Nat \ {0}

ASSUME CallersAssumption == IsFiniteSet(Callers)

VARIABLES
  active,    \* self.active
  peak,      \* self.peak
  stage,     \* what each caller's request is awaiting
  size,      \* bytes of the body read so far
  answer     \* what each caller's last request came to

vars == <<active, peak, stage, size, answer>>

Stages  == {"idle", "connect", "drain", "head", "chunk", "length", "stream"}
Answers == {"none", "capacity", "refused", "response", "timeout", "transport",
            "cancelled", "escaped"}
NoBody  == 0

Busy == {c \in Callers : stage[c] # "idle"}

TypeOK ==
  /\ active \in Nat
  /\ peak \in Nat
  /\ stage \in [Callers -> Stages]
  /\ size \in [Callers -> Nat]
  /\ answer \in [Callers -> Answers]

Init ==
  /\ active = 0
  /\ peak = 0
  /\ stage = [c \in Callers |-> "idle"]
  /\ size = [c \in Callers |-> NoBody]
  /\ answer = [c \in Callers |-> "none"]

-----------------------------------------------------------------------------
(* Before the slot is taken. *)

\* The limit is reached: a Response that says so, at once.
Full(c) ==
  /\ stage[c] = "idle"
  /\ active >= Capacity
  /\ answer' = [answer EXCEPT ![c] = "capacity"]
  /\ size' = [size EXCEPT ![c] = NoBody]
  /\ UNCHANGED <<active, peak, stage>>

\* Mutant: the check of the arguments moved into the try block, whose finally
\* gives back a slot that was never taken.
RefuseInTry(c) ==
  /\ stage[c] = "idle"
  /\ active < Capacity
  /\ active' = active - 1
  /\ answer' = [answer EXCEPT ![c] = "refused"]
  /\ size' = [size EXCEPT ![c] = NoBody]
  /\ UNCHANGED <<peak, stage>>

\* A method, path or body the client does not send: ValueError to the caller.
Refuse(c) ==
  /\ stage[c] = "idle"
  /\ active < Capacity
  /\ answer' = [answer EXCEPT ![c] = "refused"]
  /\ size' = [size EXCEPT ![c] = NoBody]
  /\ UNCHANGED <<active, peak, stage>>

Begin(c) ==
  /\ stage[c] = "idle"
  /\ active < Capacity
  /\ active' = active + 1
  /\ peak' = IF active' > peak THEN active' ELSE peak
  /\ stage' = [stage EXCEPT ![c] = "connect"]
  /\ size' = [size EXCEPT ![c] = NoBody]
  /\ answer' = [answer EXCEPT ![c] = "none"]

-----------------------------------------------------------------------------
(* In flight. *)

\* Every way out of the try block: the finally block returns the slot.
Leave(c, how) ==
  /\ active' = active - 1
  /\ stage' = [stage EXCEPT ![c] = "idle"]
  /\ answer' = [answer EXCEPT ![c] = how]
  /\ UNCHANGED peak

Await(c, next) ==
  /\ stage' = [stage EXCEPT ![c] = next]
  /\ UNCHANGED <<active, peak, answer>>

\* The exceptions request() names: refused or broken connections, a header it
\* would not send, an early end, a line or a number it cannot read, a body
\* over the ceiling.
Fail(c) ==
  /\ stage[c] # "idle"
  /\ Leave(c, "transport")
  /\ UNCHANGED size

\* Mutant: the timeout wraps the reading of the reply only.
ExpireReading(c) ==
  /\ stage[c] \in {"head", "chunk", "length", "stream"}
  /\ Leave(c, "timeout")
  /\ UNCHANGED size

\* asyncio.timeout: whatever is awaited is cancelled.
Expire(c) ==
  /\ stage[c] # "idle"
  /\ Leave(c, "timeout")
  /\ UNCHANGED size

\* Mutant: the slot returned after the except clauses and not in a finally
\* block, which CancelledError passes by.
CancelKeepsSlot(c) ==
  /\ stage[c] # "idle"
  /\ stage' = [stage EXCEPT ![c] = "idle"]
  /\ answer' = [answer EXCEPT ![c] = "cancelled"]
  /\ UNCHANGED <<active, peak, size>>

\* The caller's own task is cancelled.
Cancel(c) ==
  /\ stage[c] # "idle"
  /\ Leave(c, "cancelled")
  /\ UNCHANGED size

Connected(c) ==
  /\ stage[c] = "connect"
  /\ Await(c, "drain")
  /\ UNCHANGED size

Drained(c) ==
  /\ stage[c] = "drain"
  /\ Await(c, "head")
  /\ UNCHANGED size

\* A status line of one word: lines[0].split(" ")[1] raises IndexError, which
\* request() does not name.
NoStatus(c) ==
  /\ stage[c] = "head"
  /\ Leave(c, "escaped")
  /\ UNCHANGED size

\* The head says how the body is delimited; a declared length over the ceiling
\* is not read.
Head(c) ==
  /\ stage[c] = "head"
  /\ \/ \E how \in {"chunk", "stream"} : Await(c, how) /\ UNCHANGED size
     \/ \E amount \in 0 .. MaxBody :
          Await(c, "length") /\ size' = [size EXCEPT ![c] = amount]

\* readexactly(amount) returns the whole declared body.
Length(c) ==
  /\ stage[c] = "length"
  /\ Leave(c, "response")
  /\ UNCHANGED size

\* Mutant: each chunk held against the ceiling by itself.
ChunkAlone(c) ==
  /\ stage[c] = "chunk"
  /\ \/ Leave(c, "response") /\ UNCHANGED size
     \/ \E amount \in 1 .. MaxBody :
          /\ size' = [size EXCEPT ![c] = @ + amount]
          /\ UNCHANGED <<active, peak, stage, answer>>

\* One chunk whose size keeps the body under the ceiling, or the last one.
Chunk(c) ==
  /\ stage[c] = "chunk"
  /\ \/ Leave(c, "response") /\ UNCHANGED size
     \/ \E amount \in 1 .. MaxBody :
          /\ size[c] + amount <= MaxBody
          /\ size' = [size EXCEPT ![c] = @ + amount]
          /\ UNCHANGED <<active, peak, stage, answer>>

\* Bytes of a body that ends with the connection: one byte over the ceiling is
\* asked for, so that a body that is too long can be told from one that fits.
Stream(c) ==
  /\ stage[c] = "stream"
  /\ \/ Leave(c, "response") /\ UNCHANGED size
     \/ \E amount \in 1 .. ReadSize :
          /\ size[c] + amount <= MaxBody + 1
          /\ size' = [size EXCEPT ![c] = @ + amount]
          /\ IF size[c] + amount > MaxBody
               THEN Leave(c, "transport")
               ELSE UNCHANGED <<active, peak, stage, answer>>

Next ==
  \E c \in Callers :
    \/ Full(c) \/ Refuse(c) \/ Begin(c)
    \/ Connected(c) \/ Drained(c) \/ NoStatus(c) \/ Head(c)
    \/ Length(c) \/ Chunk(c) \/ Stream(c)
    \/ Fail(c) \/ Expire(c) \/ Cancel(c)

\* asyncio.timeout fires for a request that is still in flight: the only
\* progress the client can count on.
Spec == Init /\ [][Next]_vars /\ \A c \in Callers : WF_vars(Expire(c))

-----------------------------------------------------------------------------
(* Properties. *)

\* `active' is exactly the number of requests in flight, whatever way earlier
\* ones ended, and never exceeds the limit: a slot that is lost shrinks the
\* generator for the rest of the run, one returned twice lifts its cap.
SlotsMatchRequests ==
  /\ active = Cardinality(Busy)
  /\ active <= peak
  /\ peak <= Capacity

\* "the generator caps concurrent requests and each response body"
\* (benchmarks/README.md): no response is larger than the ceiling in any of
\* the three framings, and no more than one byte over it is ever held.
BodiesCapped ==
  \A c \in Callers :
    /\ size[c] <= MaxBody + 1
    /\ (stage[c] # "idle" \/ answer[c] = "response") => size[c] <= MaxBody

\* Every request comes to an end, however slowly the server dribbles.
RequestsEnd == \A c \in Callers : stage[c] # "idle" ~> stage[c] = "idle"

\* "errors, overflow, missed slots and scheduler lateness are reported
\* separately" (benchmarks/README.md): what a server sends comes back as a
\* Response, never as an exception that ends the phase.
ErrorsAreReported == \A c \in Callers : answer[c] # "escaped"

=============================================================================

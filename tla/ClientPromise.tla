---------------------------- MODULE ClientPromise ----------------------------
(***************************************************************************)
(* What one TargetClient (src/http_target.py) promises the code above it,  *)
(* without its threads and queues.  Calls are made one after the other,    *)
(* every call ends with exactly one outcome, and the call that runs into   *)
(* the wall deadline is the last one that can put a request on the wire.   *)
(***************************************************************************)
EXTENDS Sequences

VARIABLE
  returned   \* of each call that has returned, in order: its outcome, and
             \* whether the server has received its request

vars == returned

\* A wall-deadline timeout closes the client for good.
Closed == \E i \in DOMAIN returned : returned[i].outcome = "expired"

Init == returned = <<>>

Return(outcome, reached) ==
  returned' = Append(returned, [outcome |-> outcome, reached |-> reached])

\* The reply to this very call: the server did receive the request.
Answer == ~Closed /\ Return("answered", TRUE)

\* An ordinary transport error; the request may or may not have arrived.
Fail == ~Closed /\ \E reached \in BOOLEAN : Return("failed", reached)

\* The wall deadline.
Expire == ~Closed /\ \E reached \in BOOLEAN : Return("expired", reached)

\* Every later call fails at once, without touching the network.
Refuse == Closed /\ Return("refused", FALSE)

\* Bytes of a call already given up may still arrive.
ArriveLate(i) ==
  /\ returned[i].outcome \in {"failed", "expired"}
  /\ ~returned[i].reached
  /\ returned' = [returned EXCEPT ![i].reached = TRUE]

Next ==
  \/ Answer
  \/ Fail
  \/ Expire
  \/ Refuse
  \/ \E i \in DOMAIN returned : ArriveLate(i)

Spec == Init /\ [][Next]_vars
=============================================================================

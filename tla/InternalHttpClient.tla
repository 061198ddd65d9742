------------------------ MODULE InternalHttpClient ------------------------
(***************************************************************************)
(* One call between services through packages/shared/internal-http-client: *)
(* a request with a timeout, sent once more after a pause when the answer  *)
(* is a 5xx.  The service may apply the request and still answer 5xx, and  *)
(* it may get to a request when the caller has long given up.              *)
(***************************************************************************)
EXTENDS Integers

CONSTANTS
  Timeout,   \* axios timeout, in ticks
  Backoff    \* the pause before the second request, in ticks

ASSUME ClientAssumption == Timeout \in Nat \ {0} /\ Backoff \in Nat

VARIABLES
  pc,        \* the caller
  attempt,   \* the request it is at; the second one carries _retried
  elapsed,   \* ticks since that request was sent, or since the pause began
  total,     \* history: ticks since the call began
  wire,      \* what became of each request
  applied    \* the requests whose effect the service has made

vars == <<pc, attempt, elapsed, total, wire, applied>>

Attempts == {1, 2}

Answers == {"2xx", "4xx", "5xx"}

Init ==
  /\ pc = "waiting" /\ attempt = 1 /\ elapsed = 0 /\ total = 0
  /\ wire = [i \in Attempts |-> IF i = 1 THEN "sent" ELSE "unsent"]
  /\ applied = {}

\* The service makes the effect of a request, in time or not.
Apply(i) ==
  /\ wire[i] = "sent" /\ i \notin applied
  /\ applied' = applied \cup {i}
  /\ UNCHANGED <<pc, attempt, elapsed, total, wire>>

\* It answers: 2xx once it has applied, 4xx before it does, 5xx at any point.
Answer(i, s) ==
  /\ wire[i] = "sent"
  /\ s = "2xx" => i \in applied
  /\ s = "4xx" => i \notin applied
  /\ wire' = [wire EXCEPT ![i] = s]
  /\ UNCHANGED <<pc, attempt, elapsed, total, applied>>

\* Connection refused or reset: no response at all.
Break(i) ==
  /\ wire[i] = "sent"
  /\ wire' = [wire EXCEPT ![i] = "broken"]
  /\ UNCHANGED <<pc, attempt, elapsed, total, applied>>

Settle(how) == pc' = how /\ UNCHANGED <<attempt, elapsed, total, wire, applied>>

Resolve == pc = "waiting" /\ wire[attempt] = "2xx" /\ Settle("resolved")

\* Mutant: a call without an answer counts as retryable.
RetryAnything ==
  /\ pc = "waiting" /\ attempt = 1
  /\ wire[1] = "5xx" \/ elapsed = Timeout
  /\ pc' = "backoff" /\ elapsed' = 0
  /\ UNCHANGED <<attempt, total, wire, applied>>

\* shouldRetry: a 5xx on the first request; the pause begins.
Retry ==
  /\ pc = "waiting" /\ attempt = 1 /\ wire[1] = "5xx"
  /\ pc' = "backoff" /\ elapsed' = 0
  /\ UNCHANGED <<attempt, total, wire, applied>>

\* Mutant: no timeout is configured.
RejectOnAnswer ==
  /\ pc = "waiting"
  /\ wire[attempt] \in {"4xx", "broken"} \/ (wire[attempt] = "5xx" /\ attempt = 2)
  /\ Settle("rejected")

\* throw error: a refusal, a second 5xx, a broken connection, or the timeout.
Reject ==
  /\ pc = "waiting"
  /\ \/ wire[attempt] \in {"4xx", "broken"}
     \/ wire[attempt] = "5xx" /\ attempt = 2
     \/ elapsed = Timeout
  /\ Settle("rejected")

\* client(config): the same request again.
Resend ==
  /\ pc = "backoff" /\ elapsed = Backoff
  /\ pc' = "waiting" /\ attempt' = 2 /\ elapsed' = 0
  /\ wire' = [wire EXCEPT ![2] = "sent"]
  /\ UNCHANGED <<total, applied>>

Tick ==
  /\ \/ pc = "waiting" /\ elapsed < Timeout
     \/ pc = "backoff" /\ elapsed < Backoff
  /\ elapsed' = elapsed + 1 /\ total' = total + 1
  /\ UNCHANGED <<pc, attempt, wire, applied>>

Caller == Resolve \/ Retry \/ Reject \/ Resend \/ Tick

Service == \E i \in Attempts : Apply(i) \/ Break(i) \/ \E s \in Answers : Answer(i, s)

Next == Caller \/ Service

Spec == Init /\ [][Next]_vars
----------------------------------------------------------------------------
TypeOK ==
  /\ pc \in {"waiting", "backoff", "resolved", "rejected"}
  /\ attempt \in Attempts
  /\ elapsed \in Nat /\ (elapsed <= IF pc = "backoff" THEN Backoff ELSE Timeout)
  /\ total \in Nat
  /\ wire \in [Attempts -> {"unsent", "sent", "broken"} \cup Answers]
  /\ applied \subseteq Attempts

(* The second request never overtakes the first: it is sent only when the  *)
(* service has answered the first one, so the service never works on two   *)
(* copies of one call at a time (index.ts 32-40).                          *)
NeverTwoAtOnce == wire[2] # "unsent" => wire[1] = "5xx"

(* A resolved call was applied, by the request that was answered; and what *)
(* was never sent was never applied (index.ts 24-44).                      *)
ResolvedMeansApplied ==
  /\ pc = "resolved" => attempt \in applied
  /\ applied \subseteq {i \in Attempts : wire[i] # "unsent"}

(* The caller waits no longer than two timeouts and the pause, however the *)
(* service behaves (index.ts 9, 39).                                       *)
BoundedCall == total <= 2 * Timeout + Backoff

(* What makes these facts inductive: the time spent at each point, and     *)
(* that a 2xx is given only by a service that has applied the request.     *)
TimeInv ==
  /\ pc = "backoff" => attempt = 1 /\ total <= Timeout + elapsed
  /\ pc # "backoff" /\ attempt = 1 => total <= elapsed
  /\ pc # "backoff" /\ attempt = 2 => total <= Timeout + Backoff + elapsed
  /\ attempt = 1 <=> wire[2] = "unsent"

CallInv ==
  /\ TimeInv /\ NeverTwoAtOnce /\ ResolvedMeansApplied
  /\ pc = "backoff" => wire[1] = "5xx"
  /\ \A i \in Attempts : wire[i] = "2xx" => i \in applied

============================================================================

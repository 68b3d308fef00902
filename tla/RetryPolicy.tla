---------------------------- MODULE RetryPolicy ----------------------------
(***************************************************************************)
(* When a failed JMAP request may be sent again: src/jmap/core/retry.py    *)
(* and the two helpers of src/jmap/_shell.py that feed it.  The functions  *)
(* there are pure, and so are the operators here; JmapClient uses them for *)
(* every decision of its retry loop.                                       *)
(***************************************************************************)
EXTENDS Naturals

CONSTANT MaxAttempts    \* RetryPolicy.max_attempts: every attempt, the first included

ASSUME MaxAttemptsAssumption == MaxAttempts \in Nat \ {0}

Safety == {"NeverApplied", "MaybeApplied", "Futile"}

\* What went wrong: a transport failure, or a response whose status is not 2xx.
\* `type` is the problem type, of which only "limit" (URN_LIMIT) is told apart.
TransportFailures == {"connect", "timeout", "interrupted"}
ProblemTypes      == {"limit", "other"}

RateLimited        == 429
ServiceUnavailable == 503
Unauthorized       == 401

\* Mutant: a broken connection taken for one that was never made.
ClassifyTransportHopeful(failure) ==
    IF failure \in {"connect", "interrupted"} THEN "NeverApplied" ELSE "MaybeApplied"

ClassifyTransport(failure) ==
    IF failure = "connect" THEN "NeverApplied" ELSE "MaybeApplied"

\* failure_of: the problem type is looked at before the status.
ClassifyStatus(status, type) ==
    IF type = "limit" \/ status \in {RateLimited, ServiceUnavailable}
    THEN "NeverApplied"
    ELSE IF status >= 500 THEN "MaybeApplied" ELSE "Futile"

ShouldRetry(safety, attempt, mutating, guarded) ==
    /\ attempt < MaxAttempts
    /\ \/ safety = "NeverApplied"
       \/ safety = "MaybeApplied" /\ (~mutating \/ guarded)

=============================================================================

------------------------------- MODULE Meshy --------------------------------
(***************************************************************************)
(* The client of the mesh generation service: polling against a deadline,  *)
(* retries with back-off, and the download of the model.                   *)
(*                                                                         *)
(* Time is what is left until the deadline of the task being polled; every *)
(* request and every sleep takes some of it, and it may become negative.   *)
(* What the service and the network answer is the environment.             *)
(***************************************************************************)
EXTENDS Integers

CONSTANTS
    PollInterval,   \* POLL_INTERVAL_S
    PreviewTimeout, \* PREVIEW_TIMEOUT_S
    RefineTimeout,  \* REFINE_TIMEOUT_S
    MaxRetries,     \* MAX_RETRIES
    RetryAfterMax,  \* the most of a Retry-After that is waited
    RetryAfters,    \* what services send as Retry-After
    BaseDelay,      \* RETRY_BASE_DELAY_S
    MaxLatency      \* bound: what one request may take, the client's timeout

ASSUME MeshyAssumption ==
    /\ PollInterval \in Nat \ {0} /\ BaseDelay \in Nat /\ MaxLatency \in Nat
    /\ PreviewTimeout \in Nat \ {0} /\ RefineTimeout \in Nat \ {0}
    /\ MaxRetries \in Nat \ {0} /\ RetryAfterMax \in Nat
    /\ RetryAfters \subseteq Nat
    /\ \A a \in 0 .. MaxRetries - 1 : BaseDelay * 2 ^ a \in 0 .. RetryAfterMax

VARIABLES
    pc,         \* where the call is
    stage,      \* the task at work: the preview, or its refinement
    left,       \* time until the deadline of poll_until_done
    attempt,    \* _get_with_retry's
    url,        \* the finished task has a GLB to download
    glb,        \* task -> its file in the session's directory
    reply       \* how the call has ended

clientVars == <<pc, stage, left, attempt, url, glb, reply>>

-----------------------------------------------------------------------------

Stages == {"preview", "refine"}

\* "lost"  a TransportError or a timeout   "busy"  429, or 500, 502, 503, 504
\* "refused"  any other error status       "garbled"  no JSON, or no result
Failures == {"lost", "busy", "refused", "garbled"}
TaskStates == {"pending", "failed", "succeeded"}

\* "raised": the tool ends in an exception that is none of Meshy's.
Replies == {"ok", "GenerationTimeout", "MeshyAPIError", "ImportError",
            "raised"}

ClientTypeOK ==
    /\ pc \in {"create", "poll", "get", "download", "stream", "import",
               "sew", "done"}
    /\ stage \in Stages
    /\ left \in Int
    /\ attempt \in 0 .. MaxRetries - 1
    /\ url \in BOOLEAN
    /\ glb \in [Stages -> {"none", "torn", "whole"}]
    /\ reply \in Replies \union {"none"}

ClientInit ==
    /\ pc = "create"
    /\ stage = "preview"
    /\ left = 0
    /\ attempt = 0
    /\ url = FALSE
    /\ glb = [s \in Stages |-> "none"]
    /\ reply = "none"

Timeout == IF stage = "preview" THEN PreviewTimeout ELSE RefineTimeout

Fails(r) ==
    /\ pc' = "done"
    /\ reply' = r
    /\ UNCHANGED <<stage, attempt, url>>

-----------------------------------------------------------------------------
(* create_preview and create_refine.                                       *)

\* A POST is tried once: what is not an answer of Meshy's passes everybody.
CreateFails ==
    /\ pc = "create"
    /\ \E f \in Failures :
         Fails(IF f \in {"busy", "refused"} THEN "MeshyAPIError" ELSE "raised")
    /\ UNCHANGED <<left, glb>>

Create ==
    /\ pc = "create"
    /\ pc' = "poll"
    /\ left' = Timeout
    /\ UNCHANGED <<stage, attempt, url, glb, reply>>

-----------------------------------------------------------------------------
(* poll_until_done and _get_with_retry.                                    *)

\* The deadline is looked at at the top of the loop.
Poll ==
    /\ pc = "poll" /\ left > 0
    /\ pc' = "get"
    /\ attempt' = 0
    /\ UNCHANGED <<stage, left, url, glb, reply>>

PollTimesOut ==
    /\ pc = "poll" /\ left <= 0
    /\ Fails("GenerationTimeout")
    /\ UNCHANGED <<left, glb>>

\* Mutant: the service says how long.
BackoffUncapped == RetryAfters \union {BaseDelay * 2 ^ attempt}

\* _backoff: as long as Retry-After says, up to a limit, or exponentially when
\* there is none, or none that is a number.  The jitter is left out.
Backoff ==
    {IF r < RetryAfterMax THEN r ELSE RetryAfterMax : r \in RetryAfters}
        \union {BaseDelay * 2 ^ attempt}

\* The last attempt is not followed by a wait.
MayRetry == attempt < MaxRetries - 1

\* "4xx is never retried; 429 and 5xx are."
Retried == {"lost", "busy"}

Retry(d) ==
    /\ pc = "get" /\ MayRetry
    /\ attempt' = attempt + 1
    /\ \E f \in Retried, b \in Backoff : left' = left - d - b
    /\ UNCHANGED <<pc, stage, url, glb, reply>>

\* _check_response, or the last of the attempts.
GetFails(d) ==
    /\ pc = "get"
    /\ \E f \in Failures :
         /\ f \in Retried => ~ MayRetry
         /\ Fails(IF f = "garbled" THEN "raised" ELSE "MeshyAPIError")
    /\ left' = left - d
    /\ UNCHANGED glb

Sleep(rest) == IF rest < PollInterval THEN rest ELSE PollInterval

\* Mutant: the loop sleeps without a look at the time.
PendingAgain(d) ==
    /\ pc = "get"
    /\ left - d > 0
    /\ pc' = "poll"
    /\ UNCHANGED <<stage, left, attempt, url, glb, reply>>

Pending(d) ==
    /\ pc = "get"
    /\ left - d > 0
    /\ pc' = "poll"
    /\ left' = left - d - Sleep(left - d)
    /\ UNCHANGED <<stage, attempt, url, glb, reply>>

\* No time is left after the request.
PendingTooLong(d) ==
    /\ pc = "get"
    /\ left - d <= 0
    /\ left' = left - d
    /\ Fails("GenerationTimeout")
    /\ UNCHANGED glb

TaskFailed(d) ==
    /\ pc = "get"
    /\ left' = left - d
    /\ Fails("MeshyAPIError")
    /\ UNCHANGED glb

\* A result that comes after the deadline is taken.
TaskSucceeded(d) ==
    /\ pc = "get"
    /\ left' = left - d
    /\ url' \in BOOLEAN
    /\ pc' = "download"
    /\ UNCHANGED <<stage, attempt, glb, reply>>

Get == \E d \in 0 .. MaxLatency :
    \/ Retry(d) \/ GetFails(d) \/ Pending(d) \/ PendingTooLong(d)
    \/ TaskFailed(d) \/ TaskSucceeded(d)

-----------------------------------------------------------------------------
(* download_glb.                                                           *)

\* Before a byte is written: an unexpected host, an error status, a declared
\* length over the limit; or no connection.
DownloadRefused ==
    /\ pc = "download" /\ url
    /\ Fails("MeshyAPIError") \/ Fails("raised")
    /\ UNCHANGED <<left, glb>>

DownloadOpens ==
    /\ pc = "download" /\ url
    /\ pc' = "stream"
    /\ glb' = [glb EXCEPT ![stage] = "torn"]
    /\ UNCHANGED <<stage, left, attempt, url, reply>>

\* Over the limit, or empty: the file goes.
DownloadRejected ==
    /\ pc = "stream"
    /\ glb' = [glb EXCEPT ![stage] = "none"]
    /\ Fails("MeshyAPIError")
    /\ UNCHANGED left

\* The connection breaks: what there is of the file stays.
DownloadBreaks ==
    /\ pc = "stream"
    /\ Fails("raised")
    /\ UNCHANGED <<left, glb>>

=============================================================================

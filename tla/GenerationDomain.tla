-------------------------- MODULE GenerationDomain --------------------------
(***************************************************************************)
(* The domain rules of generation work: internal/app decides what a job    *)
(* row and an attempt row may look like and how one may follow another,    *)
(* without any storage.  Every write of internal/postgres builds the new   *)
(* row, passes it to one of these rules and gives up when the rule         *)
(* refuses it.                                                             *)
(*                                                                         *)
(* Times are natural numbers; 0 stands for a nil time and an attempt       *)
(* number 0 for a nil attempt.  The clock of the database starts at 1.     *)
(***************************************************************************)
EXTENDS Integers, Sequences, FiniteSets

CONSTANTS
    MaxGenerationAttempts,              \* provider calls a job may ever use
    MaxGenerationInvalidRegenerations,  \* retries granted to invalid output
    RetryBackoff,                       \* delay after the n-th attempt
    MaxRetryJitter,                     \* bound of the random addition to it
    MaxLeaseVersion,                    \* math.MaxInt64 of the lease counter
    ReservedTokens                      \* fixed reservation of one call

ASSUME AttemptLimitAssumption ==
    /\ MaxGenerationAttempts \in Nat \ {0}
    /\ MaxGenerationInvalidRegenerations \in Nat

ASSUME BackoffAssumption ==
    /\ RetryBackoff \in [1 .. MaxGenerationAttempts -> Nat \ {0}]
    /\ MaxRetryJitter \in Nat

ASSUME CounterAssumption ==
    /\ MaxLeaseVersion \in Nat \ {0}
    /\ ReservedTokens \in Nat \ {0}

-----------------------------------------------------------------------------
(* Job rows.  "absent" is a row that has not been inserted yet.            *)

ActiveStatus == {"pending", "running", "retry_wait"}
FinalStatus == {"succeeded", "skipped", "cancelled"}
JobStatus == {"absent", "failed"} \cup ActiveStatus \cup FinalStatus

TriggerKinds ==
    {"scheduled", "reply", "repost", "quote", "human_post", "continuation"}

\* What the provider adapter may report instead of a result.
GenerationFailure ==
    {"provider_transient", "provider_rate_limited", "provider_timeout",
     "invalid_output", "unsafe_output", "repeated_output",
     "provider_credentials", "provider_configuration",
     "unsupported_accounting", "execution_cancelled", "provider_permanent"}

\* Mutant: rejected credentials are retried like an outage.
RetryableFailure_Credentials ==
    {"provider_transient", "provider_rate_limited", "provider_timeout",
     "provider_credentials"}

\* Failures NextGenerationRetry may answer with another attempt.
RetryableFailure ==
    {"provider_transient", "provider_rate_limited", "provider_timeout"}

\* Terminal status of each denial a worker may acknowledge.
DenialStatus ==
    [context_rejected    |-> "skipped",
     publication_denied  |-> "skipped",
     policy_denied       |-> "skipped",
     source_removed      |-> "cancelled",
     execution_cancelled |-> "cancelled",
     outcome_unavailable |-> "failed"]

\* Terminal status of each refusal of ReserveGeneration.
AdmissionStatus ==
    [source_removed   |-> "cancelled",
     policy_disabled  |-> "cancelled",
     policy_denied    |-> "skipped",
     budget_exhausted |-> "skipped",
     invalid_output   |-> "failed",
     attempt_limit    |-> "failed"]

ReasonCodes ==
    {"", "stale_trigger", "operator_retry", "lease_lost", "skip_reason"}
        \cup GenerationFailure \cup DOMAIN DenialStatus
        \cup DOMAIN AdmissionStatus

Job == [status           : JobStatus,
        createdAt        : Nat,
        availableAt      : Nat,
        expiresAt        : Nat,
        leaseVersion     : Nat,
        leaseExpiresAt   : Nat,
        publishedAttempt : Nat,
        reasonCode       : ReasonCodes]

(* The row constraints of GenerationJob.Validate that relate its fields;   *)
(* the shape of identifiers and of text is left out.                       *)
ValidJob(b) ==
    /\ b.status # "absent"
    /\ b.createdAt <= b.availableAt /\ b.availableAt < b.expiresAt
    /\ b.status = "pending" => b.leaseVersion = 0
    /\ b.status \in {"running", "retry_wait"} => b.leaseVersion > 0
    /\ IF b.status = "running" THEN b.leaseExpiresAt > b.availableAt
                               ELSE b.leaseExpiresAt = 0
    /\ IF b.status = "succeeded" THEN /\ b.leaseVersion > 0
                                      /\ b.publishedAttempt # 0
                                 ELSE b.publishedAttempt = 0
    /\ (b.reasonCode = "") <=> b.status \in {"pending", "running", "succeeded"}

\* An owner acts under its lease: expiry is exclusive.
ValidateLease(b, version, t) ==
    /\ b.status = "running"
    /\ version > 0 /\ b.leaseVersion = version
    /\ t < b.leaseExpiresAt /\ t < b.expiresAt
    /\ t >= b.availableAt

-----------------------------------------------------------------------------
(* Attempt rows.  `calls`, `fenced` and `acknowledged` are not columns:    *)
(* they record what happened to the reservation so that properties can     *)
(* speak of it (provider calls made with it, a pause of its agent since    *)
(* it was taken, and who allowed the job to go on after it).               *)

AttemptStatus == {"reserved", "succeeded", "failed", "unknown"}

Attempt == [leaseVersion  : Nat,
            pauseRevision : Nat,
            startedAt     : Nat,
            status        : AttemptStatus,
            decision      : {"", "publish", "skip"},
            errorCode     : {"", "lease_lost"} \cup GenerationFailure,
            notBefore     : Nat,
            tokens        : Nat,
            finishedAt    : Nat,
            calls         : Nat,
            fenced        : BOOLEAN,
            acknowledged  : {"", "worker", "operator"}]

ValidAttempt(a) ==
    /\ a.leaseVersion > 0 /\ a.startedAt > 0
    /\ a.decision # "" => a.status = "succeeded"
    /\ a.notBefore # 0 => a.status \in {"failed", "unknown"}
    /\ a.tokens <= ReservedTokens
    /\ IF a.status = "reserved"
       THEN a.finishedAt = 0 /\ a.tokens = 0 /\ a.errorCode = ""
       ELSE a.finishedAt >= a.startedAt
    /\ a.status = "succeeded" => a.errorCode = ""
    /\ a.status \in {"failed", "unknown"} => a.errorCode # ""
    /\ a.status = "unknown" => a.tokens = 0

\* Outcomes are append-only: only a reservation may finish.
ValidateGenerationAttemptTransition(a, b) ==
    /\ ValidAttempt(a) /\ ValidAttempt(b)
    /\ a.status = "reserved" /\ b.status # "reserved"
    /\ b.leaseVersion = a.leaseVersion
    /\ b.pauseRevision = a.pauseRevision
    /\ b.startedAt = a.startedAt

\* Mutant: an uncertain call is refunded.
AccountedTokens_UnknownFree(a) ==
    IF a.status = "reserved" THEN ReservedTokens ELSE a.tokens

(* What a reservation counts for in the daily budget: all of it unless the *)
(* provider's usage was verified.                                          *)
AccountedTokens(a) ==
    IF a.status \in {"reserved", "unknown"} \/ a.tokens = 0
       \/ a.errorCode = "unsupported_accounting"
    THEN ReservedTokens
    ELSE a.tokens

InvalidOutputs(history) ==
    Cardinality({n \in DOMAIN history : history[n].errorCode = "invalid_output"})

-----------------------------------------------------------------------------
(* Retry schedule: NextGenerationRetry returns an instant or gives up.     *)

RetryGranted(failure, count, invalid) ==
    /\ count >= 1 /\ count < MaxGenerationAttempts
    /\ \/ failure \in RetryableFailure
       \/ /\ failure = "invalid_output"
          /\ invalid >= 1 /\ invalid <= MaxGenerationInvalidRegenerations

\* Mutant: the provider's hint is not looked at.
RetryInstant_NoHint(t, count, notBefore, jitter) ==
    t + RetryBackoff[count] + jitter

\* The provider's hint can only delay the next attempt.
RetryInstant(t, count, notBefore, jitter) ==
    LET next == t + RetryBackoff[count] + jitter
    IN  IF notBefore > next THEN notBefore ELSE next

-----------------------------------------------------------------------------
(* The life of a job row: ValidateGenerationJobTransition and, for the     *)
(* cleanup that follows a removal, ValidateGenerationSourceInvalidation.   *)
(* `unlinked` says that the job was triggered by a repost that is gone;    *)
(* `a` is the attempt a publication names.                                 *)

IsClaim(b, c, t) ==
    /\ c.status = "running"
    /\ \/ b.status \in {"pending", "retry_wait"}
       \/ b.status = "running" /\ t >= b.leaseExpiresAt

ClaimAllowed(b, c, t) ==
    /\ b.leaseVersion < MaxLeaseVersion
    /\ c.leaseVersion = b.leaseVersion + 1
    /\ t >= b.availableAt /\ t < b.expiresAt
    /\ c.leaseExpiresAt > t

StaleSkip(b, c, t) ==
    t >= b.expiresAt /\ c.status = "skipped" /\ c.reasonCode = "stale_trigger"

OwnedStepAllowed(b, c, t, unlinked) ==
    /\ c.leaseVersion = b.leaseVersion
    /\ b.status \in {"pending", "retry_wait"} =>
          c.status \in {"skipped", "cancelled", "failed"}
    /\ b.status = "failed" =>
          c.status = "retry_wait" /\ b.leaseVersion > 0 /\ t < b.expiresAt
    /\ b.status = "running" =>
          /\ \/ t < b.leaseExpiresAt
             \/ StaleSkip(b, c, t)
             \/ /\ unlinked /\ t < b.expiresAt
                /\ c.status = "cancelled" /\ c.reasonCode = "source_removed"
          /\ c.status # "pending"
          /\ c.status = "running" =>
                c.leaseExpiresAt > b.leaseExpiresAt /\ t < b.expiresAt

ValidateGenerationJobTransition(b, c, t, unlinked, a) ==
    /\ ValidJob(b) /\ ValidJob(c)
    /\ c.createdAt = b.createdAt /\ c.expiresAt = b.expiresAt
    /\ b.status \notin FinalStatus
    /\ t >= b.createdAt
    /\ unlinked => c.status = "cancelled" \/ StaleSkip(b, c, t)
    /\ IF IsClaim(b, c, t) THEN ClaimAllowed(b, c, t)
                           ELSE OwnedStepAllowed(b, c, t, unlinked)
    /\ IF c.status = "retry_wait"
       THEN c.availableAt >= t /\ t < b.expiresAt
       ELSE c.availableAt = b.availableAt
    /\ t >= b.expiresAt => StaleSkip(b, c, t)
    /\ c.status = "succeeded" =>
          /\ ValidateLease(b, b.leaseVersion, t)
          /\ ValidAttempt(a)
          /\ a.leaseVersion = c.leaseVersion
          /\ a.status = "succeeded"
          /\ a.startedAt >= b.availableAt /\ a.finishedAt <= t

ValidateGenerationSourceInvalidation(b, c, t) ==
    /\ ValidJob(b) /\ ValidJob(c)
    /\ b.status \in ActiveStatus
    /\ c.createdAt = b.createdAt /\ c.expiresAt = b.expiresAt
    /\ c.leaseVersion = b.leaseVersion /\ c.leaseExpiresAt = 0
    /\ c.availableAt = b.availableAt
    /\ t >= b.createdAt
    /\ IF t < b.expiresAt
       THEN c.status = "cancelled" /\ c.reasonCode = "source_removed"
       ELSE c.status = "skipped" /\ c.reasonCode = "stale_trigger"
=============================================================================

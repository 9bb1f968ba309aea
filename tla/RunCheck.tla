------------------------------ MODULE RunCheck ------------------------------
(***************************************************************************)
(* checker.RunCheck (src/internal/checker/checker.go): one health check,   *)
(* up to maxRetries further requests after transient failures, under a     *)
(* context that may be cancelled at any moment.  WorkerPool takes this     *)
(* loop as one step; the properties here are what it relies on.            *)
(*                                                                         *)
(* A request sent under a cancelled context fails at once (net/http looks  *)
(* at the context before it dials); one in flight may be answered or fail. *)
(***************************************************************************)
EXTENDS Naturals, Sequences

CONSTANT MaxRetries       \* maxRetries; the code says 2

ASSUME RetryAssumption == MaxRetries \in Nat

VARIABLES
    cancelled,            \* the parent context is done
    startedLate,          \* history: it was when RunCheck was called
    at,                   \* where the loop is
    tries,                \* what came of each request so far
    verdict               \* the status of the check returned

vars == <<cancelled, startedLate, at, tries, verdict>>

\* A response with the expected code, in time or slow, or with another code.
Answer == {"expected", "expectedSlow", "unexpected"}

\* A network error; the monitor's own timeout; the parent's cancellation.
Error == {"transient", "deadline", "canceled"}

Init ==
    /\ cancelled \in BOOLEAN /\ startedLate = cancelled
    /\ at = "send"
    /\ tries = <<>>
    /\ verdict = "none"

Cancel ==
    /\ ~cancelled
    /\ cancelled' = TRUE
    /\ UNCHANGED <<startedLate, at, tries, verdict>>

\* attemptRequest sends the GET ...
Send ==
    /\ at = "send" /\ ~cancelled
    /\ at' = "wait"
    /\ UNCHANGED <<cancelled, startedLate, tries, verdict>>

isTransient(e) == e \notin {"deadline", "canceled"}

\* The loop goes on only after a transient error, and only so often.
Outcome(o) ==
    /\ tries' = Append(tries, o)
    /\ at' = IF o \in Error /\ isTransient(o) /\ Len(tries) < MaxRetries
             THEN "backoff" ELSE "judge"
    /\ UNCHANGED <<cancelled, startedLate, verdict>>

\* A fault that AbortedByCancel excludes: a request made without the context.
SendDetached == at = "send" /\ cancelled /\ \E o \in Answer : Outcome(o)

\* ... which fails at once if ctx is done ...
SendFails == at = "send" /\ cancelled /\ Outcome("canceled")

\* ... or is answered, or fails.
Return ==
    /\ at = "wait"
    /\ \E o \in Answer \cup Error : (o = "canceled" => cancelled) /\ Outcome(o)

\* A fault that Returns excludes: the timer's case waits for the cancellation.
BackoffStuck ==
    /\ at = "backoff" /\ cancelled
    /\ at' = "send"
    /\ UNCHANGED <<cancelled, startedLate, tries, verdict>>

\* The select of the backoff: its timer ...
BackoffOver ==
    /\ at = "backoff"
    /\ at' = "send"
    /\ UNCHANGED <<cancelled, startedLate, tries, verdict>>

\* ... or ctx.Done().
BackoffCancelled ==
    /\ at = "backoff" /\ cancelled
    /\ verdict' = "aborted"
    /\ at' = "done"
    /\ UNCHANGED <<cancelled, startedLate, tries>>

LastTry == tries[Len(tries)]

\* A fault that VerdictFollowsLastTry excludes: once failed, a check stays failed.
VerdictOfWorst ==
    LET failed == {tries[i] : i \in DOMAIN tries} \cap Error
    IN  CASE "canceled" \in failed -> "aborted"
          [] failed # {} -> "down"
          [] LastTry = "unexpected" -> "down"
          [] LastTry = "expectedSlow" -> "slow"
          [] OTHER -> "up"

\* What is returned after the loop: lastErr, then the status code, then the time.
Verdict ==
    CASE LastTry = "canceled" -> "aborted"
      [] LastTry \in Error \ {"canceled"} -> "down"
      [] LastTry = "unexpected" -> "down"
      [] LastTry = "expectedSlow" -> "slow"
      [] OTHER -> "up"

Judge ==
    /\ at = "judge"
    /\ verdict' = Verdict
    /\ at' = "done"
    /\ UNCHANGED <<cancelled, startedLate, tries>>

Step == Send \/ SendFails \/ Return \/ BackoffOver \/ BackoffCancelled \/ Judge

-----------------------------------------------------------------------------
\* checker.go:25-30: a check is at most 1 + MaxRetries requests, all but the last of
\* which failed for a transient reason, and it says what the last one came to,
\* whatever went wrong before; a check that was retried successfully is no outage.
VerdictFollowsLastTry ==
    /\ Len(tries) <= MaxRetries + 1
    /\ \A i \in DOMAIN tries : i < Len(tries) => tries[i] = "transient"
    /\ at = "done" =>
        \/ verdict = "up"   /\ LastTry = "expected"
        \/ verdict = "slow" /\ LastTry = "expectedSlow"
        \/ verdict = "down" /\ LastTry \in {"unexpected", "transient", "deadline"}
        \/ verdict = "aborted" /\ LastTry \in {"transient", "canceled"}

\* What WorkerPool!FinishCheck and TakeJobLate take for granted: a check reports
\* a cancellation only if there was one, and one that began after it always does.
AbortedByCancel ==
    at = "done" => /\ verdict = "aborted" => cancelled
                   /\ startedLate => verdict = "aborted"
=============================================================================

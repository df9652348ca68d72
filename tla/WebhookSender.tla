---------------------------- MODULE WebhookSender ---------------------------
(***************************************************************************)
(* One delivery cycle of the webhook sender (sender.go): the guard, then   *)
(* up to MaxAttempts calls with pauses in between, then the verdict of the *)
(* dispatch service (evaluate in dispatch_notification.go).  The URL is    *)
(* that of a subscription, so the guard of the registration has passed it  *)
(* (create-subscription.ts), by the answers its name had then.             *)
(*                                                                         *)
(* The client is external: it may take the notification and say so, say    *)
(* something else, break off or go silent before or after taking it.  So   *)
(* is the DNS: the addresses of a name may change at any time.             *)
(***************************************************************************)
EXTENDS WebhookGuards

CONSTANTS
  Urls,                  \* bound: what may be registered
  Resolutions,           \* bound: the addresses a name may resolve to; none: it does not
  Statuses,              \* what clients answer, and what a subscription may expect
  MaxAttempts,           \* WEBHOOK_SYNC_MAX_ATTEMPTS
  Timeout,               \* WEBHOOK_TIMEOUT_MS
  BaseDelay, MaxDelay    \* WEBHOOK_SYNC_BASE_DELAY_MS, WEBHOOK_SYNC_MAX_DELAY_MS

\* The configuration is refused when it allows no attempt; a timeout of zero would
\* switch the time limit off, a base delay of zero the pauses.
ASSUME SenderAssumption ==
  /\ Urls \subseteq Url
  /\ Resolutions \subseteq SUBSET Address
  /\ Statuses \subseteq Nat \ {0}
  /\ MaxAttempts \in Nat \ {0}
  /\ Timeout \in Nat \ {0}
  /\ BaseDelay \in Nat \ {0}
  /\ MaxDelay \in Nat

VARIABLES
  step,                  \* what Send does next
  expected,              \* the expected status of the subscription
  attempt,               \* the calls made
  answer,                \* of the last call, and in the end of Send
  accepted,              \* how often the client took the notification
  lost,                  \* how often its answer to that did not arrive whole
  elapsed,               \* the time calls and pauses took
  url,                   \* the URL of the subscription
  addresses,             \* the addresses its name has; not used for a literal
  moved                  \* have they changed since the registration?
                         \* (accepted, lost, elapsed, moved: observed only by properties)

subscription == <<url, addresses, moved>>
vars == <<step, expected, attempt, answer, accepted, lost, elapsed, subscription>>

\* No answer is status 0.  Errors: the guard refuses the address, the connection fails,
\* a time limit passes, the caller's context ends.
Answer == [status : Statuses \cup {0},
           error : {"none", "refused", "network", "timeout", "canceled"}]

Init ==
  /\ step = "validate"
  /\ expected \in Statuses
  /\ attempt = 0
  /\ answer = [status |-> 0, error |-> "none"]
  /\ accepted = 0 /\ lost = 0 /\ elapsed = 0
  /\ url \in Urls
  /\ addresses \in Resolutions
  /\ url.literal # {} => addresses = {}
  /\ AssertAllowed(url, addresses)
  /\ moved = FALSE

SenderTypeOK ==
  /\ step \in {"validate", "call", "pause", "done"}
  /\ expected \in Statuses
  /\ attempt \in 0..MaxAttempts
  /\ answer \in Answer
  /\ accepted \in Nat /\ lost \in Nat /\ elapsed \in Nat
  /\ url \in Urls /\ addresses \in Resolutions
  /\ moved \in BOOLEAN

-----------------------------------------------------------------------------
RetryableStatus(s) == s >= 500 \/ s \in {408, 429}

\* Every time limit of net and net/http reports an error that is a DeadlineExceeded.
RetryableError(e) == e \notin {"refused", "canceled", "timeout"}

Retryable(a) ==
  \/ a.error # "none" /\ RetryableError(a.error)
  \/ a.error = "none" /\ RetryableStatus(a.status)

Resolve ==
  /\ step # "done"
  /\ url.literal = {}
  /\ addresses' \in Resolutions \ {addresses}
  /\ moved' = TRUE
  /\ UNCHANGED <<step, expected, attempt, answer, accepted, lost, elapsed, url>>

\* The first layer of the guard, before anything leaves the process.  What url.Parse makes
\* of a string new URL() had to normalise is left open.
Validate ==
  /\ step = "validate"
  /\ \/ /\ url.plain => ValidateURL(url, addresses)
        /\ step' = "call"
        /\ UNCHANGED answer
     \/ /\ url.plain => ~ValidateURL(url, addresses)
        /\ step' = "done"
        /\ answer' = [status |-> 0, error |-> "refused"]
  /\ UNCHANGED <<expected, attempt, accepted, lost, elapsed, subscription>>

\* The second layer: the dialer refuses an address it is about to connect to.
ControlDial == url.plain => \E a \in Destinations(url, addresses) : ~checkIP(a)

\* What a call may come back with, and whether the client took the notification: it says
\* so with the status its subscription expects, and may have done so when it is silent.
Outcome ==
  {o \in [answer : Answer, took : BOOLEAN] :
    /\ o.answer.status # 0 => /\ o.took = (o.answer.status = expected)
                              /\ o.answer.error # "refused"
    /\ o.answer.status = 0 => o.answer.error # "none"
    /\ o.answer.error = "refused" => ~o.took}

\* A mistake in the loop: it runs up to MaxAttempts + 1.
LastLate(n) == n > MaxAttempts

Last(n) == n = MaxAttempts

Call ==
  /\ step = "call"
  /\ attempt' = attempt + 1
  /\ \E o \in Outcome, t \in 0..Timeout :
       /\ o.answer.error = "refused" => ControlDial
       /\ answer' = o.answer
       /\ step' = IF Retryable(o.answer) /\ ~Last(attempt + 1) THEN "pause" ELSE "done"
       /\ accepted' = accepted + (IF o.took THEN 1 ELSE 0)
       /\ lost' = lost + (IF o.took /\ o.answer.error # "none" THEN 1 ELSE 0)
       /\ elapsed' = elapsed + t
  /\ UNCHANGED <<expected, subscription>>

\* A mistake in backoff: the window keeps growing.
BackoffUncapped == BaseDelay .. (BaseDelay + BaseDelay * 2^(attempt - 1) - 1)

\* BaseDelay and a random part below min(BaseDelay * 2^(attempt - 1), MaxDelay).
Backoff ==
  {d \in BaseDelay .. (BaseDelay + BaseDelay * 2^(attempt - 1) - 1) :
    MaxDelay > 0 => d < BaseDelay + MaxDelay}

Pause ==
  /\ step = "pause"
  /\ \/ step' = "call" /\ UNCHANGED answer
        /\ \E d \in Backoff : elapsed' = elapsed + d
     \/ step' = "done" /\ answer' = [answer EXCEPT !.error = "canceled"]
        /\ UNCHANGED elapsed
  /\ UNCHANGED <<expected, attempt, accepted, lost, subscription>>

Next == Validate \/ Call \/ Pause \/ Resolve

Spec == Init /\ [][Next]_vars

-----------------------------------------------------------------------------
\* A mistake in evaluate: a status that was read is believed, error or not.
EvaluateStatusOnly == answer.status = expected

\* evaluate: the cycle is recorded as SUCCESS, else FAILED.
Succeeded == answer.error = "none" /\ answer.status = expected

-----------------------------------------------------------------------------
(* What holds.                                                             *)

\* What the rest of the pipeline takes a cycle for (Dispatcher, Send): the client took
\* the notification as often as its answer was lost, and once more exactly if the cycle
\* is recorded as a success.  Not so for a subscription that expects an error status.
CycleIsSend ==
  step = "done" /\ ~RetryableStatus(expected) =>
    accepted = lost + (IF Succeeded THEN 1 ELSE 0)

\* "The dispatcher runs the same checks again" (webhook-url-guard.ts): a URL that could be
\* registered, in the form it is judged in, is refused by the dispatch service only if its
\* name has come to resolve differently.
RegisteredIsDeliverable == answer.error = "refused" /\ url.plain => moved

\* A cycle cannot outlast its configuration: this is what the age limit of the sweep
\* (RETRY_STALLED_AFTER_SECONDS) has to exceed.
CycleIsBounded ==
  MaxDelay > 0 =>
    elapsed <= attempt * (Timeout + BaseDelay + MaxDelay)
=============================================================================

---------------------------- MODULE ProviderCall ----------------------------
(***************************************************************************)
(* One call of Send of a notification provider (sms, email and push are    *)
(* the same code): httpclient.Do with its retries, and what Send makes of  *)
(* the answer.  The provider is external: a 2xx says it took the request,  *)
(* a 4xx that it did not; a 3xx, a 5xx, an answer that never comes and an  *)
(* answer that cannot be read say neither.  Redirections that net/http     *)
(* follows are part of the attempt; a 3xx is one that it does not (300,    *)
(* 304, no Location) and hands on.                                         *)
(***************************************************************************)
EXTENDS Integers

CONSTANT Retries  \* PROVIDER_MAX_RETRIES, which nothing validates

ASSUME RetriesAssumption == Retries \in Int

VARIABLES
    at,        \* top of the loop, waiting for an answer, reading it, returned
    attempt,   \* the loop variable of Do
    parses,    \* PROVIDER_URL is one: a setting, which nothing validates
    live,      \* the caller's context is not cancelled
    taken,     \* the provider took the request of this attempt
    underway,  \* requests nobody waits for any more that it may still take
    accepted,  \* history: how often it took one
    status,    \* the class of the answer Do returned
    result     \* what Send returned

vars == <<at, attempt, parses, live, taken, underway, accepted, status, result>>

StatusClass == {"2xx", "3xx", "4xx", "5xx"}

\* A negative setting allows no attempt at all.
MaxAttempts == IF Retries < 0 THEN 0 ELSE Retries + 1

TypeOK ==
    /\ at \in {"loop", "asking", "reading", "returned"}
    /\ attempt \in 0 .. MaxAttempts
    /\ parses \in BOOLEAN /\ live \in BOOLEAN /\ taken \in BOOLEAN
    /\ underway \in 0 .. MaxAttempts /\ accepted \in 0 .. MaxAttempts
    /\ status \in StatusClass \cup {"none"}
    /\ result \in {"none", "sent", "rejected", "connectionFailed"}

Init ==
    /\ at = "loop" /\ attempt = 0 /\ live = TRUE /\ taken = FALSE
    /\ parses \in BOOLEAN
    /\ underway = 0 /\ accepted = 0 /\ status = "none" /\ result = "none"

Return(r) == at' = "returned" /\ result' = r

\* A plausible bug asks once more than it should.
MayAskInclusive == attempt <= Retries + 1

MayAsk == attempt <= Retries

\* The request goes out, if it can be made: NewRequestWithContext refuses a URL
\* that does not parse, and ends Do.  With a cancelled context it fails before it
\* goes out, and the loop goes on.
Ask ==
    /\ at = "loop" /\ MayAsk
    /\ \/ /\ ~parses
          /\ Return("connectionFailed")
          /\ UNCHANGED <<attempt, taken>>
       \/ /\ parses /\ live
          /\ at' = "asking" /\ taken' = FALSE
          /\ UNCHANGED <<attempt, result>>
       \/ /\ parses /\ ~live
          /\ attempt' = attempt + 1
          /\ UNCHANGED <<at, taken, result>>
    /\ UNCHANGED <<parses, live, underway, accepted, status>>

\* The context ends during the delay before a retry.
Interrupted ==
    /\ at = "loop" /\ MayAsk
    /\ attempt > 0 /\ ~live
    /\ Return("connectionFailed")
    /\ UNCHANGED <<attempt, parses, live, taken, underway, accepted, status>>

\* ErrHTTPMaxRetries; at once when Retries is negative.
Exhausted ==
    /\ at = "loop" /\ ~MayAsk
    /\ Return("connectionFailed")
    /\ UNCHANGED <<attempt, parses, live, taken, underway, accepted, status>>

\* No answer: refused, timed out, or cancelled while the request is out.
NoAnswer ==
    /\ at = "asking"
    /\ at' = "loop"
    /\ attempt' = attempt + 1
    /\ underway' = IF taken THEN underway ELSE underway + 1
    /\ UNCHANGED <<parses, live, taken, accepted, status, result>>

\* A 5xx is worth another attempt while one is left, any other answer ends Do.
\* Plausible bugs give up one attempt early, or do not count this one.
AgainEarly(s) == s = "5xx" /\ attempt < Retries - 1

Again(s) == s = "5xx" /\ attempt < Retries

NextAttemptUncounted == attempt

NextAttempt == attempt + 1

Answer(s) ==
    /\ at = "asking"
    /\ s = "2xx" => taken
    /\ s = "4xx" => ~taken
    /\ \/ /\ Again(s)
          /\ at' = "loop" /\ attempt' = NextAttempt
          /\ UNCHANGED status
       \/ /\ ~Again(s)
          /\ at' = "reading" /\ status' = s
          /\ UNCHANGED attempt
    /\ UNCHANGED <<parses, live, taken, underway, accepted, result>>

\* Send: a body that cannot be read counts as no connection, a status of 400 or
\* more as a rejection, and everything else as sent, whatever the body says.
RefusingServerOnly == {"5xx"}

Refusing == {"4xx", "5xx"}

Conclude ==
    /\ at = "reading"
    /\ \/ Return("connectionFailed")
       \/ Return(IF status \in Refusing THEN "rejected" ELSE "sent")
    /\ UNCHANGED <<attempt, parses, live, taken, underway, accepted, status>>

\* app.Shutdown cancels the context the consumers pass down.
Cancel ==
    /\ live
    /\ live' = FALSE
    /\ UNCHANGED <<at, attempt, parses, taken, underway, accepted, status, result>>

\* The provider takes the request that is waited for, or one given up.
ProviderTakes ==
    /\ at = "asking" /\ ~taken
    /\ taken' = TRUE
    /\ accepted' = accepted + 1
    /\ UNCHANGED <<at, attempt, parses, live, underway, status, result>>

ProviderTakesLate ==
    /\ underway > 0
    /\ underway' = underway - 1
    /\ accepted' = accepted + 1
    /\ UNCHANGED <<at, attempt, parses, live, taken, status, result>>

Do ==
    \/ Ask \/ Interrupted \/ Exhausted \/ NoAnswer
    \/ \E s \in StatusClass : Answer(s)

Next == Do \/ Conclude \/ Cancel \/ ProviderTakes \/ ProviderTakesLate

Spec == Init /\ [][Next]_vars

\* The goroutine runs, and the client's Timeout ends an attempt that gets no
\* answer, as it does if PROVIDER_TIMEOUT is positive.  Nothing obliges the
\* provider.
FairSpec == Spec /\ WF_vars(Do \/ Conclude)

-----------------------------------------------------------------------------
(* Properties *)

Contract == INSTANCE SendContract WITH
    MaxRequests <- MaxAttempts,
    outcome     <- CASE result = "none" -> "asking"
                     [] result = "sent" -> IF status = "3xx" THEN "redirected" ELSE "sent"
                     [] OTHER -> "failed"

\* Send keeps the contract NotificationPipeline builds on: retries hand the
\* provider at most Retries + 1 requests, counting those it takes after Do gave
\* them up, and Send reports as sent what no provider took only where a
\* redirection that is not followed passes for an answer (sms/service.go:40).
ImplementsSendContract == Contract!CSpec

\* With its context alive Send reports a failure to connect, or a 5xx, only after
\* every attempt it is configured for (client.go:79 hands the last 5xx on).  A
\* URL that does not parse and a body that cannot be read are not tried again.
Persistent ==
    /\ result = "connectionFailed" /\ live /\ parses /\ status = "none" =>
           attempt = MaxAttempts
    /\ status = "5xx" => attempt = Retries

\* Send returns, whatever the provider does: no path through the loop repeats
\* without counting (the consumer's goroutine is blocked as long as Send runs).
Returns == <>(at = "returned")

=============================================================================

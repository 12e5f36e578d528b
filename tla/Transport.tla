------------------------------ MODULE Transport ------------------------------
(***************************************************************************)
(* One call of Client.do (transport.go): the retry loop every request of   *)
(* the SDK goes through.  The caller hands over a request whose body may   *)
(* be absent, a one-shot stream, or replayable; the loop makes the body    *)
(* replayable, sends it at most MaxAttempts times and returns one verdict. *)
(*                                                                         *)
(* The server and the network are the environment: an attempt is answered, *)
(* by the application or by a proxy in its place, answered with a reply    *)
(* that cannot be read, or lost; and the application may carry it out at   *)
(* any time before or after that, unless it has refused it or answered.    *)
(* The caller's context may end between any two steps.  Status codes, the  *)
(* three facts the retry rules read from a response, and who has read the  *)
(* body are kept; the rest is left out.                                    *)
(***************************************************************************)
EXTENDS Naturals, Sequences

CONSTANTS
  MaxAttempts,   \* maxAttempts
  Status         \* the status codes a server may answer with

ASSUME MaxAttemptsAssumption == MaxAttempts \in Nat \ {0}
ASSUME StatusAssumption == Status \subseteq Nat

VARIABLES
  pc,            \* where do stands
  attempt,       \* attempt, from 1
  honorTimeout,  \* the request carries a start timeout
  source,        \* the caller's one-shot stream: "none", "open" or "closed"
  body,          \* req.Body: "nil", "source", "buffer" (unread) or "spent"
  getBody,       \* req.GetBody # nil
  ctxDone,       \* ctx.Err() # nil
  result,        \* what do has returned
  log,           \* history: one entry per finished attempt
  lateSends,     \* history: attempts sent after ctx had ended
  executed       \* history: the attempts the application has carried out

vars == <<pc, attempt, honorTimeout, source, body, getBody, ctxDone, result,
          log, lateSends, executed>>
request == <<honorTimeout, source, getBody>>

-----------------------------------------------------------------------------
(* The response-based retry rules. *)

Response == [status: Status, userTimeout: BOOLEAN, fromApp: BOOLEAN,
             nginx: BOOLEAN]

retryStatusCodes == {408, 409, 429}
ingressStatusCodes == {502, 503, 504}

isIngressError(r) ==
  r.status \in ingressStatusCodes /\ ~r.fromApp /\ r.nginx

shouldRetryResponse(r) ==
  /\ ~(r.status = 504 /\ r.userTimeout)
  /\ isIngressError(r) \/ r.status \in retryStatusCodes

-----------------------------------------------------------------------------
Reply(r) == [kind |-> "response", response |-> r]
Failure(k) == [kind |-> k]
Pending == Failure("none")

Replies == {Reply(r) : r \in Response}

\* How an attempt can end: "unread" is a reply whose body could not be read,
\* "lost" a transport error after the server took the request, "unsent" one
\* before it did.
Outcomes == Replies \cup {Failure("unread"), Failure("lost"), Failure("unsent")}

\* What do can return: the response, a transport error, a read error, the
\* context's error, or the error of buffering the body.
Results == Replies \cup {Failure(k) : k \in
             {"none", "transport", "unread", "ctx", "buffering"}}

Return(r) == pc' = "done" /\ result' = r

-----------------------------------------------------------------------------
Init ==
  /\ pc = "buffer"
  /\ attempt = 1
  /\ honorTimeout \in BOOLEAN
  /\ \/ body = "nil" /\ source = "none" /\ getBody = FALSE
     \/ body = "buffer" /\ source = "none" /\ getBody = TRUE
     \/ body = "source" /\ source = "open" /\ getBody = FALSE
  /\ ctxDone \in BOOLEAN
  /\ result = Pending
  /\ log = <<>>
  /\ lateSends = 0 /\ executed = {}

\* ensureReplayableBody: a one-shot body is read to its end and closed.
ensureReplayableBody ==
  /\ pc = "buffer"
  /\ IF body = "nil" \/ getBody
       THEN /\ pc' = "head"
            /\ UNCHANGED <<source, body, getBody, result>>
       ELSE /\ source' = "closed"
            /\ \/ /\ body' = "buffer" /\ getBody' = TRUE
                  /\ pc' = "head" /\ UNCHANGED result
               \/ /\ Return(Failure("buffering"))
                  /\ body' = "spent" /\ UNCHANGED getBody
  /\ UNCHANGED <<attempt, honorTimeout, ctxDone, log, lateSends, executed>>

CheckContext_NotChecked ==
  /\ pc = "head" /\ attempt <= MaxAttempts
  /\ pc' = "send"
  /\ UNCHANGED <<attempt, request, body, ctxDone, result, log, lateSends, executed>>

\* The loop head: ctx is looked at once per attempt.
CheckContext ==
  /\ pc = "head"
  /\ attempt <= MaxAttempts
  /\ IF ctxDone THEN Return(Failure("ctx"))
                ELSE pc' = "send" /\ UNCHANGED result
  /\ UNCHANGED <<attempt, request, body, ctxDone, log, lateSends, executed>>

bodyToSend_NotReplayed == body

\* Later attempts install a fresh copy of the body before it is sent; a GetBody
\* of the SDK's own requests reads from memory and does not fail.
bodyToSend == IF attempt > 1 /\ getBody THEN "buffer" ELSE body

\* httpClient.Do starts.  The body it reads is spent whatever the outcome.
Send ==
  /\ pc = "send"
  /\ pc' = "flight"
  /\ body' = IF bodyToSend = "nil" THEN "nil" ELSE "spent"
  /\ log' = Append(log, [sent |-> bodyToSend, outcome |-> Pending])
  /\ lateSends' = IF ctxDone THEN lateSends + 1 ELSE lateSends
  /\ UNCHANGED <<attempt, request, ctxDone, result, executed>>

\* A 4xx is taken to say that the request was not and will not be carried out.
Refusal(r) == r.status \in 400 .. 499

\* What the application does after an attempt has ended: nothing if it was never
\* sent, was refused, or was answered by the application itself.
Settled(i) ==
  \/ log[i].outcome.kind = "unsent"
  \/ /\ log[i].outcome.kind = "response"
     /\ Refusal(log[i].outcome.response) \/ log[i].outcome.response.fromApp

\* The application carries out an attempt in flight, or one that took longer
\* than its answer, or its loss, took to reach the client.
Execute ==
  /\ \E i \in DOMAIN log \ executed : ~Settled(i) /\ executed' = executed \cup {i}
  /\ UNCHANGED <<pc, attempt, request, body, ctxDone, result, log, lateSends>>

Ended(o) == log' = [log EXCEPT ![attempt].outcome = o]

LastAttempt_OffByOne == attempt > MaxAttempts
LastAttempt_OneEarly == attempt >= MaxAttempts - 1
LastAttempt == attempt = MaxAttempts

giveUpOnError_IgnoresTimeout == LastAttempt
\* A call with a start timeout is not repeated after an error.
giveUpOnError == honorTimeout \/ LastAttempt

ReturnIf(stop, r) ==
  IF stop THEN Return(r) ELSE pc' = "backoff" /\ UNCHANGED result

TransportError ==
  /\ pc = "flight"
  /\ \/ Ended(Failure("lost"))
     \/ Ended(Failure("unsent")) /\ attempt \notin executed
  /\ IF ctxDone THEN Return(Failure("ctx"))
                ELSE ReturnIf(giveUpOnError, Failure("transport"))
  /\ UNCHANGED <<attempt, request, body, ctxDone, lateSends, executed>>

\* No look at ctx here: a read that failed because ctx ended is reported as a
\* read error when no retry follows.
BodyReadError ==
  /\ pc = "flight"
  /\ Ended(Failure("unread"))
  /\ ReturnIf(giveUpOnError, Failure("unread"))
  /\ UNCHANGED <<attempt, request, body, ctxDone, lateSends, executed>>

Respond ==
  /\ pc = "flight"
  /\ \E r \in Response :
       /\ Refusal(r) => attempt \notin executed
       /\ Ended(Reply(r))
       /\ ReturnIf(~shouldRetryResponse(r) \/ LastAttempt, Reply(r))
  /\ UNCHANGED <<attempt, request, body, ctxDone, lateSends, executed>>

\* sleepContext(ctx, retryDelay(attempt)): when ctx has ended and the timer
\* has fired too, select may take either.
SleepInterrupted ==
  /\ pc = "backoff" /\ ctxDone
  /\ Return(Failure("ctx"))
  /\ UNCHANGED <<attempt, request, body, ctxDone, log, lateSends, executed>>

SleepElapsed_NoTimer ==
  /\ pc = "backoff" /\ ctxDone
  /\ pc' = "head" /\ attempt' = attempt + 1
  /\ UNCHANGED <<request, body, ctxDone, result, log, lateSends, executed>>

SleepElapsed ==
  /\ pc = "backoff"
  /\ pc' = "head" /\ attempt' = attempt + 1
  /\ UNCHANGED <<request, body, ctxDone, result, log, lateSends, executed>>

\* The caller cancels, or its deadline passes.
ContextEnds ==
  /\ pc # "done" /\ ~ctxDone
  /\ ctxDone' = TRUE
  /\ UNCHANGED <<pc, attempt, request, body, result, log, lateSends, executed>>

Returned == pc = "done" /\ UNCHANGED vars

Client == ensureReplayableBody \/ CheckContext \/ Send \/ SleepInterrupted
          \/ SleepElapsed
Network == TransportError \/ BodyReadError \/ Respond
Next == Client \/ Network \/ Execute \/ ContextEnds \/ Returned

\* The goroutine running do is scheduled, and net/http gives up a call whose
\* context has ended; a server owes no answer as long as it has not.
Fairness == WF_vars(Client) /\ WF_vars(ctxDone /\ Network)

Spec == Init /\ [][Next]_vars /\ Fairness

-----------------------------------------------------------------------------
Entry == [sent: {"nil", "source", "buffer", "spent"},
          outcome: Outcomes \cup {Pending}]

\* The type invariant.  Its bound on attempt says that the loop never runs out:
\* the return after it is unreachable, as transport.go:95 claims.
TypeOK ==
  /\ pc \in {"buffer", "head", "send", "flight", "backoff", "done"}
  /\ attempt \in 1..MaxAttempts
  /\ honorTimeout \in BOOLEAN /\ getBody \in BOOLEAN /\ ctxDone \in BOOLEAN
  /\ source \in {"none", "open", "closed"}
  /\ body \in {"nil", "source", "buffer", "spent"}
  /\ result \in Results
  /\ log \in Seq(Entry)
  /\ lateSends \in Nat
  /\ executed \subseteq DOMAIN log

Attempts == DOMAIN log
\* An attempt that was sent, with no answer that the client has seen.
Unseen(i) == log[i].outcome.kind \in {"lost", "unread"}
Answered(i) == log[i].outcome.kind = "response"

\* Every attempt carries the whole body: neither a stream the first attempt
\* has read nor an unbuffered one is ever sent (ensureReplayableBody, GetBody).
EveryAttemptIsWhole ==
  \A i \in Attempts : log[i].sent \in {"nil", "buffer"}
                      /\ (log[i].sent = log[1].sent)

ByProxy(i) ==
  /\ Answered(i)
  /\ LET r == log[i].outcome.response IN
     r.nginx /\ ~r.fromApp /\ ~(r.status = 504 /\ r.userTimeout)

\* The application carries out a request twice only if it did not answer the
\* earlier attempt as far as the client could see: a proxy answered in its place,
\* and not with the user's own timeout, or, in a call without a start timeout, no
\* answer arrived.  So what the application has answered itself is never done
\* again, and neither is a call with a start timeout whose reply was lost, even
\* if an attempt runs only after its loss (giveUpOnError, shouldRetryResponse).
RunsTwiceOnlyUnanswered ==
  \A i, j \in executed :
    i < j => ByProxy(i) \/ (Unseen(i) /\ ~honorTimeout)

\* What do returns is the story of its last attempt: a response is the last
\* one seen, an error is returned only when the last attempt failed that way,
\* and the context's error only when the context has ended.
VerdictIsLastOutcome ==
  pc = "done" =>
    /\ result.kind \in {"response", "unread"} => log[Len(log)].outcome = result
    /\ result.kind = "transport" =>
         log[Len(log)].outcome.kind \in {"lost", "unsent"}
    /\ result.kind \in {"transport", "unread"} =>
         honorTimeout \/ Len(log) = MaxAttempts
    /\ result.kind = "ctx" => ctxDone
    /\ result.kind = "buffering" => log = <<>>
    /\ result.kind # "none"

\* Once the context has ended at most the attempt already past the check of
\* transport.go:53 goes out, and no other follows.
AtMostOneLateSend == lateSends <= 1

\* do returns once its context has ended, wherever it then stands, and it
\* returns without that when no attempt stays in flight for ever: no path of
\* the loop waits for anything else.
CallReturns ==
  /\ ctxDone ~> (pc = "done")
  /\ []<>(pc # "flight") => <>(pc = "done")

\* What README.md:287-288 says of retries: "Responses that carry a user-configured
\* timeout are never retried".  The code keeps to that for a 504 only.
UserTimeoutNeverRetried ==
  honorTimeout =>
    \A i, j \in Attempts :
      i < j /\ Answered(i) => ~log[i].outcome.response.userTimeout
=============================================================================

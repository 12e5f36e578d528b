-------------------------------- MODULE Queue --------------------------------
(***************************************************************************)
(* The queue API (queue.go): a call of Subscribe, or of Result on a handle *)
(* that Client.Request reattached to a job, against the queue service, and *)
(* another holder of the same request id who may cancel it at any time.    *)
(*                                                                         *)
(* Submitting is modelled attempt by attempt (the loop of Client.do, see   *)
(* module Transport), because a repeated attempt may enqueue a second job. *)
(* The other requests repeat harmlessly: they are a look at the context    *)
(* and a flight.  A status is read at the service in one step and reaches  *)
(* the caller in a later one, when it may be stale.                        *)
(***************************************************************************)
EXTENDS Naturals, FiniteSets

CONSTANT MaxAttempts   \* maxAttempts

ASSUME MaxAttemptsAssumption == MaxAttempts \in Nat \ {0}

Jobs == 1 .. MaxAttempts    \* each attempt enqueues at most one job
NoJob == 0

VARIABLES
  call,           \* "Subscribe" or "Result"
  startTimeout,   \* the call carries a start timeout
  pc,             \* the caller
  phase,          \* which loop polls: "events" or "result"
  attempt,        \* of the submit request
  id,             \* Request.ID, NoJob before the submit response
  status,         \* the status the service last read for the caller
  err,            \* the error events yields
  ctxDone,        \* the caller's context has ended
  outcome,        \* what the call has returned
  job,            \* job[j]: its state at the service
  unseen,         \* history: the jobs whose submit response was lost
  masked,         \* history: those behind an error page of the ingress proxy
  enqueuedCalls,  \* history: calls of OnEnqueue
  lastUpdate,     \* history: the last status given to OnUpdate
  cancelTried,    \* history: bestEffortCancel has been entered
  fetched         \* history: the state of the job when its result was read

client == <<call, startTimeout>>
progress == <<phase, attempt, id>>
history == <<unseen, masked, enqueuedCalls, lastUpdate, cancelTried, fetched>>
vars == <<client, pc, progress, status, err, ctxDone, outcome, job, history>>

JobStates == {"unused", "queued", "running", "ok", "error", "cancelled"}
Finished(j) == job[j] \in {"ok", "error", "cancelled"}
Enqueued == {j \in Jobs : job[j] # "unused"}

\* The status types of status.go; a Completed one with or without an error.
Statuses == {"Queued", "InProgress", "Completed", "CompletedError"}
Completed == {"Completed", "CompletedError"}
Outcomes == {"running", "value", "failed", "error", "ctx", "timeout"}

\* What the service reports of a job (external).
Report(j) ==
  CASE job[j] = "queued" -> "Queued"
    [] job[j] = "running" -> "InProgress"
    [] job[j] = "ok" -> "Completed"
    [] OTHER -> "CompletedError"

Init ==
  /\ startTimeout \in BOOLEAN
  /\ \/ /\ call = "Subscribe" /\ pc = "submit" /\ phase = "events" /\ id = NoJob
        /\ job = [j \in Jobs |-> "unused"]
     \/ /\ call = "Result" /\ pc = "poll" /\ phase = "result" /\ id = 1
        /\ job = [j \in Jobs |-> IF j = 1 THEN "queued" ELSE "unused"]
  /\ attempt = 1
  /\ status = "none" /\ err = "none"
  /\ ctxDone \in BOOLEAN
  /\ outcome = "running"
  /\ unseen = {} /\ masked = {} /\ enqueuedCalls = 0 /\ lastUpdate = "none"
  /\ cancelTried = FALSE /\ fetched = "none"

Goto(state) == pc' = state /\ UNCHANGED outcome
Return(o) == pc' = "done" /\ outcome' = o

\* What a request that fails in flight is reported as: once the context has
\* ended, its own failure or the context's error.
FlightErrors == IF ctxDone THEN {"error", "ctx"} ELSE {"error"}

-----------------------------------------------------------------------------
(* submit. *)

\* A malformed app id, an input that cannot be encoded, a start timeout of a
\* second or less: nothing is sent.
InvalidCall ==
  /\ pc = "submit" /\ attempt = 1
  /\ Return("error")
  /\ UNCHANGED <<client, progress, status, err, ctxDone, job, history>>

SubmitCheck ==
  /\ pc = "submit"
  /\ IF ctxDone THEN Return("ctx") ELSE Goto("submitting")
  /\ UNCHANGED <<client, progress, status, err, ctxDone, job, history>>

\* The service enqueues the attempt in flight as a job of its own (external):
\* it cannot tell a repeated request from a new one.
Enqueue(j) ==
  /\ job[j] = "unused" /\ \A k \in Jobs : k < j => job[k] # "unused"
  /\ job' = [job EXCEPT ![j] = "queued"]

Submitted(j) ==
  /\ pc = "submitting"
  /\ Enqueue(j)
  /\ id' = j
  /\ Goto("enqueued")
  /\ UNCHANGED <<client, phase, attempt, status, err, ctxDone, history>>

retrySubmit_OffByOne == attempt <= MaxAttempts /\ ~startTimeout
retrySubmit_Always == attempt < MaxAttempts
retrySubmit == attempt < MaxAttempts /\ ~startTimeout

TryAgain == attempt' = attempt + 1 /\ Goto("submit")

\* The attempt ends without an answer, after the service took it or before.
SubmitLost ==
  /\ pc = "submitting"
  /\ \/ \E j \in Jobs : Enqueue(j) /\ unseen' = unseen \cup {j}
     \/ UNCHANGED <<job, unseen>>
  /\ \/ retrySubmit /\ TryAgain
     \/ /\ \E e \in FlightErrors : (retrySubmit => e = "ctx") /\ Return(e)
        /\ UNCHANGED attempt
  /\ UNCHANGED <<client, phase, id, status, err, ctxDone, masked, enqueuedCalls,
                 lastUpdate, cancelTried, fetched>>

\* An answer that refuses the request for now (429, ...) or for good.
SubmitRefused ==
  /\ pc = "submitting"
  /\ \/ attempt < MaxAttempts /\ TryAgain
     \/ Return("error") /\ UNCHANGED attempt
  /\ UNCHANGED <<client, phase, id, status, err, ctxDone, job, history>>

\* The ingress proxy answers in the place of a service that may have the
\* request (502, 503, 504): repeated, also with a start timeout.
SubmitMasked ==
  /\ pc = "submitting"
  /\ \E j \in Jobs : Enqueue(j) /\ masked' = masked \cup {j}
  /\ \/ attempt < MaxAttempts /\ TryAgain
     \/ Return("error") /\ UNCHANGED attempt
  /\ UNCHANGED <<client, phase, id, status, err, ctxDone, unseen,
                 enqueuedCalls, lastUpdate, cancelTried, fetched>>

\* A success status whose body cannot be decoded or names no request id.
SubmitUnusable ==
  /\ pc = "submitting"
  /\ \E j \in Jobs : Enqueue(j) /\ unseen' = unseen \cup {j}
  /\ Return("error")
  /\ UNCHANGED <<client, progress, status, err, ctxDone, masked, enqueuedCalls,
                 lastUpdate, cancelTried, fetched>>

OnEnqueue ==
  /\ pc = "enqueued"
  /\ enqueuedCalls' = enqueuedCalls + 1
  /\ Goto("poll")
  /\ UNCHANGED <<client, progress, status, err, ctxDone, job, unseen, masked,
                 lastUpdate, cancelTried, fetched>>

-----------------------------------------------------------------------------
(* The polling loops of events and of Result. *)

\* events yields the error to Subscribe; Result returns it.
Fail(e) ==
  IF phase = "events" THEN Goto("failed") /\ err' = e
                      ELSE Return(e) /\ UNCHANGED err

\* newRequest cannot resolve the credentials: no look at the context comes
\* before that.
NewRequestFails ==
  /\ pc \in {"poll", "fetch"}
  /\ Fail("error")
  /\ UNCHANGED <<client, progress, status, ctxDone, job, history>>

PollCheck ==
  /\ pc = "poll"
  /\ IF ctxDone THEN Fail("ctx") ELSE Goto("polling") /\ UNCHANGED err
  /\ UNCHANGED <<client, progress, status, ctxDone, job, history>>

PollRead ==
  /\ pc = "polling"
  /\ status' = Report(id)
  /\ Goto("answered")
  /\ UNCHANGED <<client, progress, err, ctxDone, job, history>>

\* An error status, a lost answer, an unknown status; or ctx has ended.
PollFails ==
  /\ pc \in {"polling", "answered"}
  /\ \E e \in FlightErrors : Fail(e)
  /\ UNCHANGED <<client, progress, status, ctxDone, job, history>>

\* events yields the status and Subscribe calls onUpdate; a Completed status
\* ends events, and Result begins.
OnUpdate ==
  /\ pc = "answered" /\ phase = "events"
  /\ lastUpdate' = status
  /\ IF status \in Completed THEN Goto("poll") /\ phase' = "result"
                             ELSE Goto("pause") /\ UNCHANGED phase
  /\ UNCHANGED <<client, attempt, id, status, err, ctxDone, job, unseen, masked,
                 enqueuedCalls, cancelTried, fetched>>

ResultStatus_NotAwaited ==
  /\ pc = "answered" /\ phase = "result"
  /\ IF status = "CompletedError" THEN Return("failed") ELSE Goto("fetch")
  /\ UNCHANGED <<client, progress, status, err, ctxDone, job, history>>

ResultStatus ==
  /\ pc = "answered" /\ phase = "result"
  /\ CASE status = "Completed" -> Goto("fetch")
       [] status = "CompletedError" -> Return("failed")
       [] OTHER -> Goto("pause")
  /\ UNCHANGED <<client, progress, status, err, ctxDone, job, history>>

PauseElapsed ==
  /\ pc = "pause"
  /\ Goto("poll")
  /\ UNCHANGED <<client, progress, status, err, ctxDone, job, history>>

PauseInterrupted ==
  /\ pc = "pause" /\ ctxDone
  /\ Fail("ctx")
  /\ UNCHANGED <<client, progress, status, ctxDone, job, history>>

-----------------------------------------------------------------------------
(* The end of Subscribe on an error, and the fetch of the result. *)

FailureSeen_AlwaysCancels ==
  /\ pc = "failed"
  /\ Goto("cancel") /\ cancelTried' = TRUE
  /\ UNCHANGED <<client, progress, status, err, ctxDone, job, unseen, masked,
                 enqueuedCalls, lastUpdate, fetched>>

\* Whatever failed, the context is looked at again: if it has ended by now the
\* job is cancelled.
FailureSeen ==
  /\ pc = "failed"
  /\ IF ctxDone THEN Goto("cancel") /\ cancelTried' = TRUE
                ELSE Return(err) /\ UNCHANGED cancelTried
  /\ UNCHANGED <<client, progress, status, err, ctxDone, job, unseen, masked,
                 enqueuedCalls, lastUpdate, fetched>>

\* A queued job is dropped, a running one may be stopped, a finished one stays
\* as it is (external).
Cancels(j) ==
  \/ job[j] \in {"queued", "running"} /\ job' = [job EXCEPT ![j] = "cancelled"]
  \/ job[j] # "queued" /\ UNCHANGED job

\* bestEffortCancel runs on a context of its own; its outcome is dropped.
CancelAnswered ==
  /\ pc = "cancel"
  /\ Cancels(id)
  /\ Return("timeout")
  /\ UNCHANGED <<client, progress, status, err, ctxDone, history>>

CancelGivesUp_Unbounded == pc = "cancel" /\ FALSE

\* The cancel request fails, or its five seconds pass.
CancelGivesUp ==
  /\ pc = "cancel"
  /\ Return("timeout")
  /\ UNCHANGED <<client, progress, status, err, ctxDone, job, history>>

FetchCheck ==
  /\ pc = "fetch"
  /\ IF ctxDone THEN Return("ctx") ELSE Goto("fetching")
  /\ UNCHANGED <<client, progress, status, err, ctxDone, job, history>>

FetchAnswered ==
  /\ pc = "fetching"
  /\ fetched' = job[id]
  /\ Return("value")
  /\ UNCHANGED <<client, progress, status, err, ctxDone, job, unseen, masked,
                 enqueuedCalls, lastUpdate, cancelTried>>

FetchFails ==
  /\ pc = "fetching"
  /\ \E e \in FlightErrors : Return(e)
  /\ UNCHANGED <<client, progress, status, err, ctxDone, job, history>>

-----------------------------------------------------------------------------
(* The service, the other holder of the id, and the caller's context. *)

JobStarts(j) ==
  /\ job[j] = "queued" /\ job' = [job EXCEPT ![j] = "running"]
  /\ UNCHANGED <<client, pc, progress, status, err, ctxDone, outcome, history>>

JobEnds(j) ==
  /\ job[j] = "running"
  /\ \E end \in {"ok", "error"} : job' = [job EXCEPT ![j] = end]
  /\ UNCHANGED <<client, pc, progress, status, err, ctxDone, outcome, history>>

\* Request.Cancel from another handle on the id.
OtherCancels ==
  /\ id # NoJob /\ ~Finished(id) /\ Cancels(id)
  /\ UNCHANGED <<client, pc, progress, status, err, ctxDone, outcome, history>>

ContextEnds ==
  /\ pc # "done" /\ ~ctxDone
  /\ ctxDone' = TRUE
  /\ UNCHANGED <<client, pc, progress, status, err, outcome, job, history>>

Returned == pc = "done" /\ UNCHANGED vars

Caller == InvalidCall \/ SubmitCheck \/ OnEnqueue \/ NewRequestFails
          \/ PollCheck \/ OnUpdate \/ ResultStatus \/ PauseElapsed \/ PauseInterrupted
          \/ FailureSeen \/ CancelGivesUp \/ FetchCheck
Network == \/ \E j \in Jobs : Submitted(j)
           \/ SubmitLost \/ SubmitRefused \/ SubmitMasked \/ SubmitUnusable
           \/ PollRead \/ PollFails \/ FetchAnswered \/ FetchFails
Service == \E j \in Jobs : JobStarts(j) \/ JobEnds(j)

Next == Caller \/ Network \/ CancelAnswered \/ Service \/ OtherCancels
        \/ ContextEnds \/ Returned

\* The caller's goroutine runs and a bounded cancel ends; a flight is given up
\* when its context has ended; nothing obliges the service to answer or a job
\* to finish.
Fairness == WF_vars(Caller) /\ WF_vars(ctxDone /\ Network)

Spec == Init /\ [][Next]_vars /\ Fairness

-----------------------------------------------------------------------------
(* Properties. *)

\* The type invariant.  OnEnqueue is called at most once.
TypeOK ==
  /\ call \in {"Subscribe", "Result"} /\ startTimeout \in BOOLEAN
  /\ pc \in {"submit", "submitting", "enqueued", "poll", "polling", "answered",
             "pause", "failed", "cancel", "fetch", "fetching", "done"}
  /\ phase \in {"events", "result"}
  /\ attempt \in Jobs /\ id \in Jobs \cup {NoJob}
  /\ status \in Statuses \cup {"none"} /\ err \in {"none", "error", "ctx"}
  /\ ctxDone \in BOOLEAN /\ outcome \in Outcomes
  /\ job \in [Jobs -> JobStates]
  /\ unseen \subseteq Jobs /\ masked \subseteq Jobs /\ enqueuedCalls \in 0 .. 1
  /\ lastUpdate \in Statuses \cup {"none"}
  /\ cancelTried \in BOOLEAN
  /\ fetched \in JobStates \cup {"none"}

\* A result is returned only if it was read from a job that had finished without
\* an error: neither a stale status nor a cancellation by another holder of the
\* id lets Result read too early or read a failed job.  And what Subscribe
\* returns agrees with what its callbacks were told: OnEnqueue came first, a
\* result follows a last update Completed without an error, and the failure of
\* the request one with an error, although Result asks for the status again.
VerdictMatchesJob ==
  /\ outcome = "value" => fetched = "ok"
  /\ lastUpdate # "none" => enqueuedCalls = 1
  /\ call = "Subscribe" =>
       /\ outcome = "value" => lastUpdate = "Completed"
       /\ outcome = "failed" => lastUpdate = "CompletedError"

\* Subscribe asks for a cancellation only of a job it abandons because its own
\* context has ended, and it reports the job as abandoned (TimeoutError) only
\* after it asked.  The other way round, a job that is left alone when the end of
\* the context ends the call is over: there is nothing to cancel.
AbandonedIffCancelled ==
  /\ cancelTried => ctxDone /\ outcome \in {"running", "timeout"}
  /\ outcome = "timeout" => cancelTried /\ id # NoJob
  /\ call = "Subscribe" /\ outcome = "ctx" => id = NoJob \/ Finished(id)

\* Jobs nobody holds the id of stem from submit responses the caller did not
\* see, and a call with a start timeout enqueues at most one job, besides those
\* an error of the ingress proxy hides from it.
NoSilentDuplicates ==
  call = "Subscribe" =>
    /\ Enqueued \subseteq unseen \cup masked \cup {id}
    /\ startTimeout => Cardinality(Enqueued \ masked) <= 1
    /\ id \notin unseen \cup masked

\* The call returns once its context has ended, the cancel it then makes
\* included, whatever the service does; and it returns without that when jobs
\* finish and answers come.
CallReturns ==
  /\ ctxDone ~> (pc = "done")
  /\ /\ []<>(pc \notin {"submitting", "polling", "fetching"})
     /\ []<>(id # NoJob => Finished(id))
     => <>(pc = "done")

\* What the comment on Subscribe says: a context that ends after the submission
\* makes the call return a TimeoutError.  It does not hold in the final call of
\* Result, which returns the bare context error.
EndedAfterSubmitIsTimeout ==
  call = "Subscribe" /\ outcome = "ctx" => id = NoJob
=============================================================================

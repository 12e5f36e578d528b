------------------------------ MODULE QueueProofs ------------------------------
(***************************************************************************)
(* The safety properties of module Queue, for any number of attempts.      *)
(***************************************************************************)
EXTENDS Queue, FiniteSetTheorems, TLAPS

Submitting == {"submit", "submitting"}

\* Where the call may be: a call of Result never submits, cancels or has an id
\* to wait for, and what failed in events is kept until Subscribe looks at it.
Places ==
  /\ outcome = "running" <=> pc # "done"
  /\ call = "Result" =>
       phase = "result" /\ pc \notin Submitting \cup {"enqueued", "failed", "cancel"}
  /\ pc \in Submitting => id = NoJob /\ status = "none"
  /\ pc \in Submitting \cup {"enqueued", "failed", "cancel"} => phase = "events"
  /\ pc \in {"fetch", "fetching"} => phase = "result"
  /\ pc \notin Submitting \cup {"done"} \/ call = "Result" => id \in Jobs
  /\ pc = "failed" => err # "none"

\* What the callbacks have been told at each place.
Told ==
  /\ call = "Subscribe" /\ phase = "result" => lastUpdate \in Completed
  /\ pc \in Submitting \cup {"enqueued"} => enqueuedCalls = 0 /\ lastUpdate = "none"
  /\ call = "Subscribe" /\ pc \notin Submitting \cup {"enqueued", "done"} => enqueuedCalls = 1
  /\ lastUpdate # "none" => enqueuedCalls = 1

\* A final status, however old, is still what the job is: it never leaves the
\* state it finished in.
Truth ==
  /\ \A s \in {status, lastUpdate} :
       /\ s # "none" => id \in Jobs
       /\ s = "Completed" => job[id] = "ok"
       /\ s = "CompletedError" => job[id] \in {"error", "cancelled"}
  /\ pc \in {"fetch", "fetching"} => job[id] = "ok"
  /\ id \in Jobs => job[id] # "unused"

\* What the call has returned.
Verdict ==
  /\ outcome = "value" => fetched = "ok"
  /\ call = "Subscribe" =>
       /\ outcome = "value" => lastUpdate = "Completed"
       /\ outcome = "failed" => lastUpdate = "CompletedError"

\* The cancel comes between the end of the context and the TimeoutError.  The
\* context's own error is that of a call without a job, or of one whose last
\* update has said that the job is over.
Abandoning ==
  /\ cancelTried => ctxDone
  /\ cancelTried <=> pc = "cancel" \/ outcome = "timeout"
  /\ outcome = "timeout" => id \in Jobs
  /\ err = "ctx" => ctxDone
  /\ call = "Subscribe" /\ outcome = "ctx" => id = NoJob \/ lastUpdate \in Completed

\* Where the jobs of a call of Subscribe come from: until it has an id, a call
\* with a start timeout has enqueued none but those the proxy has hidden.
Origins ==
  call = "Subscribe" =>
    /\ Enqueued \subseteq unseen \cup masked \cup {id}
    /\ unseen \cup masked \subseteq Enqueued
    /\ id \notin unseen \cup masked
    /\ startTimeout =>
         /\ pc \in Submitting => Enqueued \subseteq masked
         /\ \E j \in Jobs : Enqueued \ masked \subseteq {j}

Inv == TypeOK /\ Places /\ Told /\ Truth /\ Verdict /\ Abandoning /\ Origins

-----------------------------------------------------------------------------
\* The jobs are counted from one, and none of them is NoJob.
LEMMA JobFacts == 1 \in Jobs /\ NoJob \notin Jobs /\ Jobs \subseteq Nat
BY MaxAttemptsAssumption DEF Jobs, NoJob

\* The initial state satisfies the invariant.
LEMMA InitInv == Init => Inv
<1> SUFFICES ASSUME Init PROVE Inv
  OBVIOUS
<1>1. TypeOK
  <2>1. job \in [Jobs -> JobStates]
    BY DEF Init, JobStates
  <2>2. phase \in {"events", "result"} /\ attempt \in Jobs /\ id \in Jobs \cup {NoJob}
    BY JobFacts DEF Init
  <2>3. call \in {"Subscribe", "Result"} /\ pc \in {"submit", "poll"}
    BY DEF Init
  <2>4. enqueuedCalls \in 0 .. 1 /\ outcome \in Outcomes /\ unseen \subseteq Jobs /\ masked \subseteq Jobs
    BY DEF Init, Outcomes
  <2>5. status = "none" /\ err = "none" /\ lastUpdate = "none" /\ fetched = "none"
    BY DEF Init
  <2>6. startTimeout \in BOOLEAN /\ ctxDone \in BOOLEAN /\ cancelTried \in BOOLEAN
    BY DEF Init
  <2> QED BY <2>1, <2>2, <2>3, <2>4, <2>5, <2>6 DEF TypeOK
<1>2. Places /\ Told /\ Truth /\ Verdict /\ Abandoning
  BY JobFacts DEF Init, Places, Told, Truth, Verdict, Abandoning, Submitting, Completed
<1>3. Origins
  <2>1. SUFFICES ASSUME call = "Subscribe" PROVE Origins
    BY DEF Origins
  <2>2. Enqueued = {} /\ unseen = {} /\ masked = {}
    BY <2>1 DEF Init, Enqueued
  <2> QED BY <2>2, JobFacts DEF Origins
<1> QED BY <1>1, <1>2, <1>3 DEF Inv

\* The origins depend on the jobs' states only by which of them are enqueued.
LEMMA OriginsKept ==
  ASSUME Inv, UNCHANGED <<client, id, unseen, masked>>, Enqueued' = Enqueued,
         pc' \in Submitting => pc \in Submitting
  PROVE  Origins'
BY DEF Inv, Origins, client

\* Jobs that are enqueued stay so, and those that are not do not appear by themselves.
LEMMA SameJobs ==
  ASSUME Inv, NEW j \in Jobs, job[j] # "unused",
         NEW s \in JobStates \ {"unused"}, job' = [job EXCEPT ![j] = s]
  PROVE  Enqueued' = Enqueued
BY DEF Inv, TypeOK, Enqueued

\* Nothing is sent.
LEMMA InvalidCallInv == Inv /\ InvalidCall => Inv'
<1> SUFFICES ASSUME Inv, InvalidCall PROVE Inv'
  OBVIOUS
<1>1. TypeOK'
  BY JobFacts DEF Inv, TypeOK, Places, Told, InvalidCall, Return, client, progress,
     history, Outcomes, Submitting
<1>2. Places' /\ Told'
  BY JobFacts DEF Inv, TypeOK, Places, Told, InvalidCall, Return, client, progress,
     history, Submitting, NoJob
<1>3. Truth' /\ Verdict' /\ Abandoning'
  BY JobFacts DEF Inv, TypeOK, Places, Told, Truth, Verdict, Abandoning, InvalidCall,
     Return, client, progress, history, Submitting
<1>4. Origins'
  BY OriginsKept DEF InvalidCall, Return, client, progress, history, Submitting,
     Enqueued
<1> QED BY <1>1, <1>2, <1>3, <1>4 DEF Inv

\* The look at the context before an attempt.
LEMMA SubmitCheckInv == Inv /\ SubmitCheck => Inv'
<1> SUFFICES ASSUME Inv, SubmitCheck PROVE Inv'
  OBVIOUS
<1>1. TypeOK'
  BY JobFacts DEF Inv, TypeOK, Places, Told, SubmitCheck, Goto, Return, client,
     progress, history, Outcomes, Submitting
<1>2. Places' /\ Told'
  BY JobFacts DEF Inv, TypeOK, Places, Told, SubmitCheck, Goto, Return, client,
     progress, history, Submitting, NoJob
<1>3. Truth' /\ Verdict' /\ Abandoning'
  BY JobFacts DEF Inv, TypeOK, Places, Told, Truth, Verdict, Abandoning, SubmitCheck,
     Goto, Return, client, progress, history, Submitting
<1>4. Origins'
  BY OriginsKept DEF SubmitCheck, Goto, Return, client, progress, history, Submitting,
     Enqueued
<1> QED BY <1>1, <1>2, <1>3, <1>4 DEF Inv

\* The first callback.
LEMMA OnEnqueueInv == Inv /\ OnEnqueue => Inv'
<1> SUFFICES ASSUME Inv, OnEnqueue PROVE Inv'
  OBVIOUS
<1>1. TypeOK'
  BY JobFacts DEF Inv, TypeOK, Places, Told, OnEnqueue, Goto, client, progress,
     Outcomes, Submitting
<1>2. Places' /\ Told'
  BY JobFacts DEF Inv, TypeOK, Places, Told, OnEnqueue, Goto, client, progress,
     Submitting, NoJob
<1>3. Truth' /\ Verdict' /\ Abandoning'
  BY JobFacts DEF Inv, TypeOK, Places, Told, Truth, Verdict, Abandoning, OnEnqueue,
     Goto, client, progress, Submitting
<1>4. Origins'
  BY OriginsKept DEF OnEnqueue, Goto, client, progress, Submitting, Enqueued
<1> QED BY <1>1, <1>2, <1>3, <1>4 DEF Inv

\* A request of the polls or of the fetch that cannot be built.
LEMMA NewRequestFailsInv == Inv /\ NewRequestFails => Inv'
<1> SUFFICES ASSUME Inv, NewRequestFails PROVE Inv'
  OBVIOUS
<1>1. TypeOK'
  BY JobFacts DEF Inv, TypeOK, Places, Told, NewRequestFails, Fail, client, progress,
     history, Goto, Return, Outcomes, Submitting
<1>2. Places' /\ Told'
  BY JobFacts DEF Inv, TypeOK, Places, Told, NewRequestFails, Fail, client, progress,
     history, Goto, Return, Submitting, NoJob
<1>3. Truth' /\ Verdict' /\ Abandoning'
  BY JobFacts DEF Inv, TypeOK, Places, Told, Truth, Verdict, Abandoning,
     NewRequestFails, Fail, client, progress, history, Goto, Return, Submitting
<1>4. Origins'
  BY OriginsKept DEF NewRequestFails, Fail, client, progress, history, Goto, Return,
     Submitting, Enqueued
<1> QED BY <1>1, <1>2, <1>3, <1>4 DEF Inv

\* The look at the context before a poll.
LEMMA PollCheckInv == Inv /\ PollCheck => Inv'
<1> SUFFICES ASSUME Inv, PollCheck PROVE Inv'
  OBVIOUS
<1>1. TypeOK'
  BY JobFacts DEF Inv, TypeOK, Places, Told, PollCheck, Goto, Fail, client, progress,
     history, Return, Outcomes, Submitting
<1>2. Places' /\ Told'
  BY JobFacts DEF Inv, TypeOK, Places, Told, PollCheck, Goto, Fail, client, progress,
     history, Return, Submitting, NoJob
<1>3. Truth' /\ Verdict' /\ Abandoning'
  BY JobFacts DEF Inv, TypeOK, Places, Told, Truth, Verdict, Abandoning, PollCheck,
     Goto, Fail, client, progress, history, Return, Submitting
<1>4. Origins'
  BY OriginsKept DEF PollCheck, Goto, Fail, client, progress, history, Return,
     Submitting, Enqueued
<1> QED BY <1>1, <1>2, <1>3, <1>4 DEF Inv

\* A poll without a status.
LEMMA PollFailsInv == Inv /\ PollFails => Inv'
<1> SUFFICES ASSUME Inv, PollFails PROVE Inv'
  OBVIOUS
<1>1. TypeOK'
  BY JobFacts DEF Inv, TypeOK, Places, Told, PollFails, Fail, FlightErrors, client,
     progress, history, Goto, Return, Outcomes, Submitting
<1>2. Places' /\ Told'
  BY JobFacts DEF Inv, TypeOK, Places, Told, PollFails, Fail, FlightErrors, client,
     progress, history, Goto, Return, Submitting, NoJob
<1>3. Truth' /\ Verdict' /\ Abandoning'
  BY JobFacts DEF Inv, TypeOK, Places, Told, Truth, Verdict, Abandoning, PollFails,
     Fail, FlightErrors, client, progress, history, Goto, Return, Submitting
<1>4. Origins'
  BY OriginsKept DEF PollFails, Fail, FlightErrors, client, progress, history, Goto,
     Return, Submitting, Enqueued
<1> QED BY <1>1, <1>2, <1>3, <1>4 DEF Inv

\* The other callback: a final status it is told is that of the job.
LEMMA OnUpdateInv == Inv /\ OnUpdate => Inv'
<1> SUFFICES ASSUME Inv, OnUpdate PROVE Inv'
  OBVIOUS
<1>1. TypeOK'
  BY JobFacts DEF Inv, TypeOK, Places, Told, OnUpdate, Goto, client, Completed,
     Outcomes, Submitting
<1>2. Places' /\ Told'
  BY JobFacts DEF Inv, TypeOK, Places, Told, OnUpdate, Goto, client, Completed,
     Submitting, NoJob
<1>3. Truth' /\ Verdict' /\ Abandoning'
  BY JobFacts DEF Inv, TypeOK, Places, Told, Truth, Verdict, Abandoning, OnUpdate, Goto,
     client, Completed, Submitting
<1>4. Origins'
  BY OriginsKept DEF OnUpdate, Goto, client, Completed, Submitting, Enqueued
<1> QED BY <1>1, <1>2, <1>3, <1>4 DEF Inv

\* Result's look at the status: what it takes for finished has finished.
LEMMA ResultStatusInv == Inv /\ ResultStatus => Inv'
<1> SUFFICES ASSUME Inv, ResultStatus PROVE Inv'
  OBVIOUS
<1>1. TypeOK'
  BY JobFacts DEF Inv, TypeOK, Places, Told, ResultStatus, Goto, Return, client,
     progress, history, Completed, Outcomes, Submitting
<1>2. Places' /\ Told'
  BY JobFacts DEF Inv, TypeOK, Places, Told, ResultStatus, Goto, Return, client,
     progress, history, Completed, Submitting, NoJob
<1>3. Truth' /\ Verdict' /\ Abandoning'
  BY JobFacts DEF Inv, TypeOK, Places, Told, Truth, Verdict, Abandoning, ResultStatus,
     Goto, Return, client, progress, history, Completed, Submitting
<1>4. Origins'
  BY OriginsKept DEF ResultStatus, Goto, Return, client, progress, history, Completed,
     Submitting, Enqueued
<1> QED BY <1>1, <1>2, <1>3, <1>4 DEF Inv

\* The pause between two polls.
LEMMA PauseElapsedInv == Inv /\ PauseElapsed => Inv'
<1> SUFFICES ASSUME Inv, PauseElapsed PROVE Inv'
  OBVIOUS
<1>1. TypeOK'
  BY JobFacts DEF Inv, TypeOK, Places, Told, PauseElapsed, Goto, client, progress,
     history, Outcomes, Submitting
<1>2. Places' /\ Told'
  BY JobFacts DEF Inv, TypeOK, Places, Told, PauseElapsed, Goto, client, progress,
     history, Submitting, NoJob
<1>3. Truth' /\ Verdict' /\ Abandoning'
  BY JobFacts DEF Inv, TypeOK, Places, Told, Truth, Verdict, Abandoning, PauseElapsed,
     Goto, client, progress, history, Submitting
<1>4. Origins'
  BY OriginsKept DEF PauseElapsed, Goto, client, progress, history, Submitting, Enqueued
<1> QED BY <1>1, <1>2, <1>3, <1>4 DEF Inv

\* Its end by the context.
LEMMA PauseInterruptedInv == Inv /\ PauseInterrupted => Inv'
<1> SUFFICES ASSUME Inv, PauseInterrupted PROVE Inv'
  OBVIOUS
<1>1. TypeOK'
  BY JobFacts DEF Inv, TypeOK, Places, Told, PauseInterrupted, Fail, client, progress,
     history, Goto, Return, Outcomes, Submitting
<1>2. Places' /\ Told'
  BY JobFacts DEF Inv, TypeOK, Places, Told, PauseInterrupted, Fail, client, progress,
     history, Goto, Return, Submitting, NoJob
<1>3. Truth' /\ Verdict' /\ Abandoning'
  BY JobFacts DEF Inv, TypeOK, Places, Told, Truth, Verdict, Abandoning,
     PauseInterrupted, Fail, client, progress, history, Goto, Return, Submitting
<1>4. Origins'
  BY OriginsKept DEF PauseInterrupted, Fail, client, progress, history, Goto, Return,
     Submitting, Enqueued
<1> QED BY <1>1, <1>2, <1>3, <1>4 DEF Inv

\* The look at the context that decides about the cancel.
LEMMA FailureSeenInv == Inv /\ FailureSeen => Inv'
<1> SUFFICES ASSUME Inv, FailureSeen PROVE Inv'
  OBVIOUS
<1>1. TypeOK'
  BY JobFacts DEF Inv, TypeOK, Places, Told, FailureSeen, Goto, Return, client,
     progress, Outcomes, Submitting
<1>2. Places' /\ Told'
  BY JobFacts DEF Inv, TypeOK, Places, Told, FailureSeen, Goto, Return, client,
     progress, Submitting, NoJob
<1>3. Truth' /\ Verdict' /\ Abandoning'
  BY JobFacts DEF Inv, TypeOK, Places, Told, Truth, Verdict, Abandoning, FailureSeen,
     Goto, Return, client, progress, Submitting
<1>4. Origins'
  BY OriginsKept DEF FailureSeen, Goto, Return, client, progress, Submitting, Enqueued
<1> QED BY <1>1, <1>2, <1>3, <1>4 DEF Inv

\* A cancel without an answer.
LEMMA CancelGivesUpInv == Inv /\ CancelGivesUp => Inv'
<1> SUFFICES ASSUME Inv, CancelGivesUp PROVE Inv'
  OBVIOUS
<1>1. TypeOK'
  BY JobFacts DEF Inv, TypeOK, Places, Told, CancelGivesUp, Return, client, progress,
     history, Outcomes, Submitting
<1>2. Places' /\ Told'
  BY JobFacts DEF Inv, TypeOK, Places, Told, CancelGivesUp, Return, client, progress,
     history, Submitting, NoJob
<1>3. Truth' /\ Verdict' /\ Abandoning'
  BY JobFacts DEF Inv, TypeOK, Places, Told, Truth, Verdict, Abandoning, CancelGivesUp,
     Return, client, progress, history, Submitting
<1>4. Origins'
  BY OriginsKept DEF CancelGivesUp, Return, client, progress, history, Submitting,
     Enqueued
<1> QED BY <1>1, <1>2, <1>3, <1>4 DEF Inv

\* The look at the context before the fetch.
LEMMA FetchCheckInv == Inv /\ FetchCheck => Inv'
<1> SUFFICES ASSUME Inv, FetchCheck PROVE Inv'
  OBVIOUS
<1>1. TypeOK'
  BY JobFacts DEF Inv, TypeOK, Places, Told, FetchCheck, Goto, Return, client, progress,
     history, Outcomes, Submitting
<1>2. Places' /\ Told'
  BY JobFacts DEF Inv, TypeOK, Places, Told, FetchCheck, Goto, Return, client, progress,
     history, Submitting, NoJob
<1>3. Truth' /\ Verdict' /\ Abandoning'
  BY JobFacts DEF Inv, TypeOK, Places, Told, Truth, Verdict, Abandoning, FetchCheck,
     Goto, Return, client, progress, history, Submitting
<1>4. Origins'
  BY OriginsKept DEF FetchCheck, Goto, Return, client, progress, history, Submitting,
     Enqueued
<1> QED BY <1>1, <1>2, <1>3, <1>4 DEF Inv

\* The fetch: the job was seen completed and is still as it was.
LEMMA FetchAnsweredInv == Inv /\ FetchAnswered => Inv'
<1> SUFFICES ASSUME Inv, FetchAnswered PROVE Inv'
  OBVIOUS
<1>0. job[id] = "ok"
  BY DEF Inv, Truth, FetchAnswered
<1>1. TypeOK'
  BY <1>0, JobFacts DEF Inv, TypeOK, Places, Told, FetchAnswered, Return, client,
     progress, Outcomes, Submitting, JobStates
<1>2. Places' /\ Told'
  BY JobFacts DEF Inv, TypeOK, Places, Told, FetchAnswered, Return, client, progress,
     Submitting, NoJob
<1>3. Truth' /\ Verdict' /\ Abandoning'
  BY <1>0, JobFacts DEF Inv, TypeOK, Places, Told, Truth, Verdict, Abandoning,
     FetchAnswered, Return, client, progress, Submitting, Completed
<1>4. Origins'
  BY OriginsKept DEF FetchAnswered, Return, client, progress, Submitting, Enqueued
<1> QED BY <1>1, <1>2, <1>3, <1>4 DEF Inv

\* A fetch without a result.
LEMMA FetchFailsInv == Inv /\ FetchFails => Inv'
<1> SUFFICES ASSUME Inv, FetchFails PROVE Inv'
  OBVIOUS
<1>1. TypeOK'
  BY JobFacts DEF Inv, TypeOK, Places, Told, FetchFails, Return, FlightErrors, client,
     progress, history, Outcomes, Submitting
<1>2. Places' /\ Told'
  BY JobFacts DEF Inv, TypeOK, Places, Told, FetchFails, Return, FlightErrors, client,
     progress, history, Submitting, NoJob
<1>3. Truth' /\ Verdict' /\ Abandoning'
  BY JobFacts DEF Inv, TypeOK, Places, Told, Truth, Verdict, Abandoning, FetchFails,
     Return, FlightErrors, client, progress, history, Submitting
<1>4. Origins'
  BY OriginsKept DEF FetchFails, Return, FlightErrors, client, progress, history,
     Submitting, Enqueued
<1> QED BY <1>1, <1>2, <1>3, <1>4 DEF Inv

\* An attempt that is refused enqueues nothing.
LEMMA SubmitRefusedInv == Inv /\ SubmitRefused => Inv'
<1> SUFFICES ASSUME Inv, SubmitRefused PROVE Inv'
  OBVIOUS
<1>1. TypeOK'
  BY JobFacts, MaxAttemptsAssumption DEF Inv, TypeOK, Places, SubmitRefused, Return,
     TryAgain, client, history, Goto, Outcomes, Submitting, Jobs
<1>2. Places' /\ Told'
  BY JobFacts DEF Inv, TypeOK, Places, Told, SubmitRefused, Return, TryAgain, client,
     history, Goto, Submitting, NoJob
<1>3. Truth' /\ Verdict' /\ Abandoning'
  BY JobFacts DEF Inv, TypeOK, Places, Told, Truth, Verdict, Abandoning, SubmitRefused,
     Return, TryAgain, client, history, Goto, Submitting
<1>4. Origins'
  BY OriginsKept DEF SubmitRefused, Return, TryAgain, client, history, Goto, Submitting,
     Enqueued
<1> QED BY <1>1, <1>2, <1>3, <1>4 DEF Inv

\* A status is that of the job at the time it is read.
LEMMA PollReadInv == Inv /\ PollRead => Inv'
<1> SUFFICES ASSUME Inv, PollRead PROVE Inv'
  OBVIOUS
<1>1. id \in Jobs /\ job[id] \in JobStates \ {"unused"}
  BY DEF Inv, TypeOK, Places, Truth, PollRead, Submitting
<1>2. /\ status' \in Statuses
      /\ status' = "Completed" => job[id] = "ok"
      /\ status' = "CompletedError" => job[id] \in {"error", "cancelled"}
  BY <1>1 DEF PollRead, Report, Statuses, JobStates
<1>3. TypeOK'
  BY <1>2, JobFacts DEF Inv, TypeOK, PollRead, Goto, client, progress, history
<1>4. Places' /\ Told'
  BY JobFacts DEF Inv, TypeOK, Places, Told, PollRead, Goto, client, progress, history,
     Submitting
<1>5. Truth' /\ Verdict' /\ Abandoning'
  BY <1>1, <1>2 DEF Inv, Truth, Verdict, Abandoning, PollRead, Goto, client, progress,
     history
<1>6. Origins'
  BY OriginsKept DEF PollRead, Goto, client, progress, history, Submitting, Enqueued
<1> QED BY <1>3, <1>4, <1>5, <1>6 DEF Inv

-----------------------------------------------------------------------------
\* What the service enqueues is one new job.
LEMMA EnqueueFacts ==
  ASSUME Inv, NEW j \in Jobs, Enqueue(j)
  PROVE  /\ job' \in [Jobs -> JobStates] /\ job'[j] = "queued"
         /\ j \notin Enqueued /\ Enqueued' = Enqueued \cup {j}
BY DEF Inv, TypeOK, Enqueue, Enqueued, JobStates

\* The attempt whose answer brings the id: the job it enqueued is a new one, and
\* with a start timeout the only one that the proxy has not hidden.
LEMMA SubmittedInv == ASSUME Inv, NEW j \in Jobs, Submitted(j) PROVE Inv'
<1>1. /\ job' \in [Jobs -> JobStates] /\ job'[j] = "queued"
      /\ j \notin Enqueued /\ Enqueued' = Enqueued \cup {j}
  BY EnqueueFacts DEF Submitted
<1>2. TypeOK'
  BY <1>1 DEF Inv, TypeOK, Submitted, Goto, client, history
<1>3. Places' /\ Told'
  BY JobFacts DEF Inv, Places, Told, Submitted, Goto, client, history, Submitting
<1>4. Truth' /\ Verdict' /\ Abandoning'
  BY <1>1 DEF Inv, Places, Told, Truth, Verdict, Abandoning, Submitted, Goto, client,
     history, Submitting
<1>5. Origins'
  <2>1. call = "Subscribe" /\ id = NoJob
    BY DEF Inv, TypeOK, Places, Submitted, Submitting
  <2>2. Enqueued \subseteq unseen \cup masked
    BY <2>1, <1>1, JobFacts DEF Inv, Origins, Enqueued
  <2> QED BY <1>1, <2>1, <2>2, JobFacts DEF Inv, Origins, Submitted, Goto, client, history, Submitting
<1> QED BY <1>2, <1>3, <1>4, <1>5 DEF Inv

\* An attempt whose answer is lost or cannot be used: with a start timeout it is
\* the last one, and its job the only one the proxy has not hidden.
LEMMA LostInv ==
  ASSUME Inv, pc = "submitting",
         \/ \E j \in Jobs : Enqueue(j) /\ unseen' = unseen \cup {j}
         \/ UNCHANGED <<job, unseen>>,
         \/ retrySubmit /\ TryAgain
         \/ (\E e \in {"error", "ctx"} : Return(e)) /\ UNCHANGED attempt,
         UNCHANGED <<client, phase, id, status, err, ctxDone, masked, enqueuedCalls,
                     lastUpdate, cancelTried, fetched>>
  PROVE  Inv'
<1>1. /\ call = "Subscribe" /\ id = NoJob /\ status = "none" /\ lastUpdate = "none"
      /\ phase = "events" /\ outcome = "running"
  BY DEF Inv, TypeOK, Places, Told, Submitting
<1>2. /\ job' \in [Jobs -> JobStates] /\ unseen' \subseteq Jobs
      /\ \/ \E j \in Jobs : /\ j \notin Enqueued /\ Enqueued' = Enqueued \cup {j}
                            /\ unseen' = unseen \cup {j}
         \/ Enqueued' = Enqueued /\ unseen' = unseen
  BY EnqueueFacts DEF Inv, TypeOK, Enqueued
<1>3. \/ /\ pc' = "submit" /\ outcome' = outcome /\ attempt' = attempt + 1
         /\ attempt < MaxAttempts /\ ~startTimeout
      \/ pc' = "done" /\ outcome' \in {"error", "ctx"} /\ attempt' = attempt
  BY DEF retrySubmit, TryAgain, Goto, Return
<1>4. TypeOK'
  <2>1. attempt' \in Jobs
    BY <1>3, MaxAttemptsAssumption DEF Inv, TypeOK, Jobs
  <2> QED BY <1>2, <1>3, <2>1 DEF Inv, TypeOK, Outcomes, client
<1>5. Places' /\ Told'
  BY <1>1, <1>3, JobFacts DEF Inv, Places, Told, client, Submitting
<1>6. Truth' /\ Verdict' /\ Abandoning'
  BY <1>1, <1>3, JobFacts DEF Inv, Places, Truth, Verdict, Abandoning, client
<1>7. Origins'
  <2>1. Enqueued \subseteq unseen \cup masked /\ unseen \cup masked \subseteq Enqueued
    BY <1>1, JobFacts DEF Inv, Origins, Enqueued
  <2>2. startTimeout => pc' \notin Submitting /\ Enqueued \subseteq masked
    BY <1>1, <1>3 DEF Inv, Origins, Submitting
  <2>3. NoJob \notin unseen' \cup masked
    BY <1>2, JobFacts DEF Inv, TypeOK
  <2> QED BY <1>1, <1>2, <2>1, <2>2, <2>3, JobFacts DEF Origins, client
<1> QED BY <1>4, <1>5, <1>6, <1>7 DEF Inv

\* A job behind an error page of the proxy is hidden, also from the count of
\* those with a start timeout.
LEMMA SubmitMaskedInv == ASSUME Inv, SubmitMasked PROVE Inv'
<1>1. /\ call = "Subscribe" /\ id = NoJob /\ status = "none" /\ lastUpdate = "none"
      /\ phase = "events" /\ outcome = "running" /\ pc = "submitting"
  BY DEF Inv, TypeOK, Places, Told, SubmitMasked, Submitting
<1>2. PICK j \in Jobs : Enqueue(j) /\ masked' = masked \cup {j}
  BY DEF SubmitMasked
<1>3. job' \in [Jobs -> JobStates] /\ j \notin Enqueued /\ Enqueued' = Enqueued \cup {j}
  BY <1>2, EnqueueFacts
<1>4. \/ pc' = "submit" /\ outcome' = outcome /\ attempt' = attempt + 1 /\ attempt < MaxAttempts
      \/ pc' = "done" /\ outcome' = "error" /\ attempt' = attempt
  BY DEF SubmitMasked, TryAgain, Goto, Return
<1>5. TypeOK'
  <2>1. attempt' \in Jobs
    BY <1>4, MaxAttemptsAssumption DEF Inv, TypeOK, Jobs
  <2> QED BY <1>2, <1>3, <1>4, <2>1 DEF Inv, TypeOK, SubmitMasked, Outcomes, client
<1>6. Places' /\ Told'
  BY <1>1, <1>4, JobFacts DEF Inv, Places, Told, SubmitMasked, client, Submitting
<1>7. Truth' /\ Verdict' /\ Abandoning'
  BY <1>1, <1>4, JobFacts DEF Inv, Places, Truth, Verdict, Abandoning, SubmitMasked, client
<1>8. Origins'
  <2>1. Enqueued \subseteq unseen \cup masked /\ unseen \cup masked \subseteq Enqueued
    BY <1>1, JobFacts DEF Inv, Origins, Enqueued
  <2>2. startTimeout => Enqueued' \subseteq masked'
    BY <1>1, <1>2, <1>3 DEF Inv, Origins, Submitting
  <2>3. NoJob \notin unseen \cup masked'
    BY <1>2, JobFacts DEF Inv, TypeOK
  <2> QED BY <1>1, <1>2, <1>3, <2>1, <2>2, <2>3, JobFacts DEF Origins, SubmitMasked, client
<1> QED BY <1>5, <1>6, <1>7, <1>8 DEF Inv

-----------------------------------------------------------------------------
\* A job that moves at the service was not finished, and no status that says so
\* has been read of it.
LEMMA JobMoves ==
  ASSUME Inv, NEW j \in Jobs, job[j] \in {"queued", "running"},
         NEW s \in {"running", "ok", "error", "cancelled"}, job' = [job EXCEPT ![j] = s]
  PROVE  /\ job' \in [Jobs -> JobStates] /\ Enqueued' = Enqueued
         /\ id \in Jobs => \/ job'[id] = job[id]
                           \/ job[id] \in {"queued", "running"} /\ job'[id] # "unused"
BY SameJobs DEF Inv, TypeOK, JobStates

\* The steps of the service and of the other holder of the id.
LEMMA ServiceInv ==
  ASSUME Inv, (\E j \in Jobs : JobStarts(j) \/ JobEnds(j)) \/ OtherCancels
  PROVE  Inv'
<1>1. UNCHANGED <<client, pc, progress, status, err, ctxDone, outcome, history>>
  BY DEF JobStarts, JobEnds, OtherCancels
<1>2. CASE UNCHANGED job
  BY <1>1, <1>2 DEF Inv, TypeOK, Places, Told, Truth, Verdict, Abandoning, Origins,
     Enqueued, client, progress, history
<1>3. CASE \E j \in Jobs, s \in {"running", "ok", "error", "cancelled"} :
             job[j] \in {"queued", "running"} /\ job' = [job EXCEPT ![j] = s]
  <2>1. /\ job' \in [Jobs -> JobStates] /\ Enqueued' = Enqueued
        /\ id \in Jobs => \/ job'[id] = job[id]
                          \/ job[id] \in {"queued", "running"} /\ job'[id] # "unused"
    BY <1>3, JobMoves
  <2>2. TypeOK' /\ Places' /\ Told'
    BY <1>1, <2>1 DEF Inv, TypeOK, Places, Told, client, progress, history
  <2>3. Truth' /\ Verdict' /\ Abandoning'
    BY <1>1, <2>1 DEF Inv, Places, Truth, Verdict, Abandoning, Submitting, client, progress, history
  <2>4. Origins'
    BY <1>1, <2>1, OriginsKept DEF progress, history
  <2> QED BY <2>2, <2>3, <2>4 DEF Inv
<1>4. id # NoJob => id \in Jobs
  BY DEF Inv, TypeOK
<1> QED BY <1>2, <1>3, <1>4 DEF JobStarts, JobEnds, OtherCancels, Cancels

\* The cancel that is answered may end the job, if it has not ended.
LEMMA CancelAnsweredInv == ASSUME Inv, CancelAnswered PROVE Inv'
<1>1. /\ UNCHANGED <<client, progress, status, err, ctxDone, history>>
      /\ pc = "cancel" /\ pc' = "done" /\ outcome' = "timeout" /\ id \in Jobs
  BY DEF Inv, Places, CancelAnswered, Return, Submitting
<1>2. /\ job' \in [Jobs -> JobStates] /\ Enqueued' = Enqueued
      /\ \/ job'[id] = job[id]
         \/ job[id] \in {"queued", "running"} /\ job'[id] # "unused"
  BY <1>1, JobMoves DEF Inv, TypeOK, CancelAnswered, Cancels, Enqueued
<1>3. TypeOK' /\ Places' /\ Told'
  BY <1>1, <1>2 DEF Inv, TypeOK, Places, Told, Outcomes, Submitting, client, progress, history
<1>4. Truth' /\ Verdict' /\ Abandoning'
  BY <1>1, <1>2 DEF Inv, Truth, Verdict, Abandoning, client, progress, history
<1>5. Origins'
  BY <1>1, <1>2, OriginsKept DEF progress, history, Submitting
<1> QED BY <1>3, <1>4, <1>5 DEF Inv

\* The end of the caller's context.
LEMMA ContextEndsInv == ASSUME Inv, ContextEnds PROVE Inv'
BY DEF Inv, ContextEnds, TypeOK, Places, Told, Truth, Verdict, Abandoning, Origins,
   Enqueued, client, progress, history

\* Every step keeps the invariant.
LEMMA NextInv == Inv /\ [Next]_vars => Inv'
<1> SUFFICES ASSUME Inv, [Next]_vars PROVE Inv'
  OBVIOUS
<1>1. CASE Caller
  BY <1>1, InvalidCallInv, SubmitCheckInv, OnEnqueueInv, NewRequestFailsInv,
     PollCheckInv, OnUpdateInv, ResultStatusInv, PauseElapsedInv, PauseInterruptedInv,
     FailureSeenInv, CancelGivesUpInv, FetchCheckInv
  DEF Caller
<1>2. CASE SubmitLost
  BY <1>2, LostInv DEF SubmitLost, FlightErrors
<1>3. CASE SubmitUnusable
  BY <1>3, LostInv DEF SubmitUnusable, progress
<1>4. CASE Network
  BY <1>2, <1>3, <1>4, SubmittedInv, SubmitRefusedInv, SubmitMaskedInv, PollReadInv,
     PollFailsInv, FetchAnsweredInv, FetchFailsInv
  DEF Network
<1>5. CASE Service \/ OtherCancels
  BY <1>5, ServiceInv DEF Service
<1>6. CASE UNCHANGED vars
  BY <1>6 DEF vars, Inv, TypeOK, Places, Told, Truth, Verdict, Abandoning, Origins,
     Enqueued, client, progress, history
<1> QED BY <1>1, <1>4, <1>5, <1>6, CancelAnsweredInv, ContextEndsInv DEF Next, Returned

\* Every reachable state satisfies the invariant.
LEMMA Invariance == Spec => []Inv
<1> QED BY InitInv, NextInv, PTL DEF Spec

-----------------------------------------------------------------------------
\* The state of a call and of its jobs has its type for every number of attempts,
\* and OnEnqueue is called at most once.
THEOREM TypeCorrect == Spec => []TypeOK
<1>1. Inv => TypeOK
  BY DEF Inv
<1> QED BY <1>1, Invariance, PTL

\* A value is returned only of a job that had finished without an error, after an
\* update that said so, and a failure after one that said that: whatever else the
\* service and the other holder of the id do between the polls.
THEOREM VerdictsMatch == Spec => []VerdictMatchesJob
<1>1. Inv => VerdictMatchesJob
  BY DEF Inv, Told, Verdict, VerdictMatchesJob
<1> QED BY <1>1, Invariance, PTL

\* Subscribe cancels only what it abandons because its context has ended, reports
\* a timeout only after it asked for the cancel, and leaves a job alone at the end
\* of the context only if that is over.
THEOREM AbandonmentIsCancelled == Spec => []AbandonedIffCancelled
<1>1. Inv => AbandonedIffCancelled
  BY JobFacts DEF Inv, Places, Truth, Abandoning, AbandonedIffCancelled, Completed, Finished
<1> QED BY <1>1, Invariance, PTL

\* For every number of attempts, the jobs nobody holds the id of come from answers
\* that were lost or hidden, and a start timeout leaves one that was not hidden.
THEOREM DuplicatesAreExplained == Spec => []NoSilentDuplicates
<1>1. Inv => NoSilentDuplicates
  <2> SUFFICES ASSUME Inv, call = "Subscribe" PROVE NoSilentDuplicates
    BY DEF NoSilentDuplicates
  <2>1. ASSUME startTimeout PROVE Cardinality(Enqueued \ masked) <= 1
    <3>1. PICK j \in Jobs : Enqueued \ masked \subseteq {j}
      BY <2>1 DEF Inv, Origins
    <3>2. IsFiniteSet({j}) /\ Cardinality({j}) = 1
      BY FS_Singleton
    <3> QED BY <3>1, <3>2, FS_Subset
  <2> QED BY <2>1 DEF Inv, Origins, NoSilentDuplicates
<1> QED BY <1>1, Invariance, PTL
=============================================================================

--------------------------- MODULE TransportProofs ---------------------------
(***************************************************************************)
(* The safety of the retry loop, for every MaxAttempts and every set of    *)
(* status codes: the type invariant, which bounds the attempts, and that   *)
(* every attempt carries the whole body, that the application carries a    *)
(* request out twice only if it was not seen to answer, that the verdict   *)
(* is the last outcome, and that a cancelled call sends at most once more. *)
(***************************************************************************)
EXTENDS Transport, TLAPS

USE MaxAttemptsAssumption, StatusAssumption

\* How far the log has grown at each step of the loop.
LogGrowth ==
  /\ pc \in {"buffer", "head", "send"} => Len(log) = attempt - 1
  /\ pc \in {"flight", "backoff"} => Len(log) = attempt
  /\ pc = "done" => Len(log) \in {attempt - 1, attempt}
  /\ pc = "backoff" => attempt < MaxAttempts
  /\ pc = "buffer" => attempt = 1

\* Where the body is: after ensureReplayableBody it is absent or replayable,
\* and it is unread until the first attempt.
BodyState ==
  /\ pc \notin {"buffer", "done"} =>
       \/ body = "nil" /\ ~getBody
       \/ body \in {"buffer", "spent"} /\ getBody
  /\ pc = "buffer" => body # "spent" /\ (getBody <=> body = "buffer")
  /\ pc \in {"head", "send"} /\ attempt = 1 => body # "spent"
  /\ \A i \in DOMAIN log : log[i].sent = IF body = "nil" THEN "nil" ELSE "buffer"

\* The outcomes after which the loop goes on.
Transient(i) ==
  \/ /\ Answered(i)
     /\ LET r == log[i].outcome.response IN
        \/ r.status \in {408, 409, 429}
        \/ r.status \in {502, 503} /\ r.nginx /\ ~r.fromApp
        \/ r.status = 504 /\ r.nginx /\ ~r.fromApp /\ ~r.userTimeout
  \/ log[i].outcome.kind \in {"lost", "unsent", "unread"} /\ ~honorTimeout

\* Every attempt the loop has gone past was transient.
Passed ==
  /\ \A i \in DOMAIN log : i < attempt => Transient(i)
  /\ pc = "backoff" => Transient(attempt)

\* A late attempt has been sent only by a call past its check of the context.
LateState ==
  /\ lateSends \in {0, 1}
  /\ lateSends = 1 => ctxDone /\ pc \in {"flight", "backoff", "head", "done"}

\* What was refused or never sent is not carried out.
NotRun(i) ==
  \/ log[i].outcome.kind = "unsent"
  \/ Answered(i) /\ Refusal(log[i].outcome.response)
Runs == \A i \in executed : ~NotRun(i)

IInv == TypeOK /\ LogGrowth /\ BodyState /\ Passed /\ VerdictIsLastOutcome
        /\ LateState /\ Runs
-----------------------------------------------------------------------------
(* What sending and ending an attempt do to the log. *)

LEMMA SentEntry ==
  ASSUME NEW s \in Seq(Entry), NEW e \in Entry
  PROVE  /\ Append(s, e) \in Seq(Entry)
         /\ Len(Append(s, e)) = Len(s) + 1
         /\ DOMAIN Append(s, e) = 1 .. (Len(s) + 1)
         /\ \A i \in 1 .. Len(s) : Append(s, e)[i] = s[i]
         /\ Append(s, e)[Len(s) + 1] = e
  OBVIOUS

LEMMA EndedEntry ==
  ASSUME NEW s \in Seq(Entry), Len(s) > 0, NEW o \in Outcomes, NEW t,
         t = [s EXCEPT ![Len(s)].outcome = o]
  PROVE  /\ t \in Seq(Entry)
         /\ Len(t) = Len(s) /\ DOMAIN t = DOMAIN s
         /\ \A i \in DOMAIN s : t[i].sent = s[i].sent
         /\ \A i \in DOMAIN s : i < Len(s) => t[i] = s[i]
         /\ t[Len(s)].outcome = o
<1>1. Len(s) \in DOMAIN s /\ DOMAIN s = 1 .. Len(s)
  OBVIOUS
<1>2. [s[Len(s)] EXCEPT !.outcome = o] \in Entry
  <2>1. s[Len(s)] \in Entry
    BY <1>1
  <2>2. o \in Outcomes \cup {Pending}
    OBVIOUS
  <2>3. QED
    BY <2>1, <2>2 DEF Entry
<1>3. t = [s EXCEPT ![Len(s)] = [s[Len(s)] EXCEPT !.outcome = o]]
  OBVIOUS
<1> DEFINE e == [s[Len(s)] EXCEPT !.outcome = o]
<1>4. e.outcome = o /\ e.sent = s[Len(s)].sent
  <2>1. s[Len(s)] \in Entry
    BY <1>1
  <2>2. QED
    BY <2>1 DEF Entry
<1> HIDE DEF e
<1>5. t = [s EXCEPT ![Len(s)] = e] /\ e \in Entry
  BY <1>2, <1>3 DEF e
<1>6. t \in Seq(Entry) /\ Len(t) = Len(s) /\ DOMAIN t = DOMAIN s
  BY <1>1, <1>5
<1>7. \A i \in DOMAIN s : t[i] = IF i = Len(s) THEN e ELSE s[i]
  BY <1>1, <1>5
<1>8. QED
  BY <1>1, <1>4, <1>6, <1>7

\* Outcomes and results are what the actions make of them.
LEMMA Kinds ==
  /\ \A r \in Response : Reply(r) \in Outcomes /\ Reply(r) \in Results
  /\ \A k \in {"unread", "lost", "unsent"} : Failure(k) \in Outcomes
  /\ \A k \in {"none", "transport", "unread", "ctx", "buffering"} :
       Failure(k) \in Results
  /\ \A r \in Response : Reply(r).kind = "response" /\ Reply(r).response = r
  /\ \A k : Failure(k).kind = k
BY DEF Outcomes, Results, Replies, Reply, Failure

-----------------------------------------------------------------------------
LEMMA InitInv == Init => IInv
<1> SUFFICES ASSUME Init PROVE IInv
  OBVIOUS
<1>1. log \in Seq(Entry) /\ Len(log) = 0 /\ DOMAIN log = {}
  BY DEF Init
<1>2. TypeOK
  <2>1. result \in Results
    BY Kinds DEF Init, Pending
  <2>2. getBody \in BOOLEAN /\ body \in {"nil", "source", "buffer", "spent"}
        /\ source \in {"none", "open", "closed"}
    BY Zenon DEF Init
  <2>3. attempt \in 1 .. MaxAttempts /\ lateSends \in Nat
    BY DEF Init
  <2>4. QED
    BY <1>1, <2>1, <2>2, <2>3 DEF Init, TypeOK
<1>3. LogGrowth /\ BodyState /\ Passed /\ LateState /\ Runs
  BY <1>1 DEF Init, LogGrowth, BodyState, Passed, LateState, Runs
<1>4. VerdictIsLastOutcome
  BY DEF Init, VerdictIsLastOutcome
<1>5. QED
  BY <1>2, <1>3, <1>4 DEF IInv

\* Steps that leave the log alone keep what it says of past attempts.
LEMMA SameLog ==
  ASSUME UNCHANGED <<log, honorTimeout>>
  PROVE  /\ \A i : Transient(i) => Transient(i)'
         /\ \A i : NotRun(i)' => NotRun(i)
         /\ UNCHANGED executed /\ Runs => Runs'
<1>1. \A i : Transient(i) => Transient(i)'
  BY DEF Transient, Answered
<1>2. \A i : NotRun(i)' => NotRun(i)
  BY DEF NotRun, Answered, Refusal
<1>3. QED
  BY <1>1, <1>2 DEF Runs

\* The end of the attempt in flight leaves the earlier entries alone.
LEMMA EndedFacts ==
  ASSUME IInv, pc = "flight", NEW o \in Outcomes, Ended(o),
         UNCHANGED <<honorTimeout, attempt>>
  PROVE  /\ log' \in Seq(Entry)
         /\ Len(log') = attempt /\ DOMAIN log' = 1 .. attempt
         /\ attempt \in DOMAIN log
         /\ \A i \in DOMAIN log' : log'[i].sent = log[i].sent
         /\ \A i \in DOMAIN log' : i < attempt => Transient(i)'
         /\ \A i \in DOMAIN log' : i < attempt /\ NotRun(i)' => NotRun(i)
         /\ log'[attempt].outcome = o
         /\ log'[Len(log')].outcome = o
<1>1. log \in Seq(Entry) /\ Len(log) = attempt /\ attempt \in 1 .. MaxAttempts
  BY DEF IInv, TypeOK, LogGrowth
<1>2. log' = [log EXCEPT ![Len(log)].outcome = o] /\ Len(log) > 0
  BY <1>1 DEF Ended
<1>3. /\ log' \in Seq(Entry) /\ Len(log') = Len(log) /\ DOMAIN log' = DOMAIN log
      /\ \A i \in DOMAIN log : log'[i].sent = log[i].sent
      /\ \A i \in DOMAIN log : i < Len(log) => log'[i] = log[i]
      /\ log'[Len(log)].outcome = o
  <2>1. log \in Seq(Entry) /\ Len(log) > 0
    BY <1>1, <1>2
  <2>2. log' = [log EXCEPT ![Len(log)].outcome = o]
    BY <1>2
  <2>3. QED
    BY <2>1, <2>2, EndedEntry
<1>4. DOMAIN log = 1 .. attempt
  BY <1>1
<1>5. \A i \in DOMAIN log' : i < attempt => Transient(i)'
  <2>1. SUFFICES ASSUME NEW i \in DOMAIN log, i < attempt PROVE Transient(i)'
    BY <1>3
  <2>2. Transient(i) /\ log'[i] = log[i]
    BY <1>1, <1>3, <2>1 DEF IInv, Passed
  <2>3. QED
    BY <2>2 DEF Transient, Answered
<1>6. \A i \in DOMAIN log' : i < attempt /\ NotRun(i)' => NotRun(i)
  <2>1. SUFFICES ASSUME NEW i \in DOMAIN log, i < attempt, NotRun(i)' PROVE NotRun(i)
    BY <1>3
  <2>2. log'[i] = log[i]
    BY <1>1, <1>3, <2>1
  <2>3. QED
    BY <2>1, <2>2 DEF NotRun, Answered, Refusal
<1>7. QED
  BY <1>1, <1>3, <1>4, <1>5, <1>6

\* What an ended attempt leaves the loop in, given the verdict it may return.
LEMMA EndedStep ==
  ASSUME IInv, pc = "flight", NEW o \in Outcomes, Ended(o),
         UNCHANGED <<attempt, request, body, ctxDone, lateSends, executed>>,
         attempt \in executed => ~NotRun(attempt)',
         \/ pc' = "backoff" /\ UNCHANGED result /\ attempt # MaxAttempts
            /\ Transient(attempt)'
         \/ pc' = "done" /\ result' \in Results /\ VerdictIsLastOutcome'
  PROVE  IInv'
<1> USE DEF request
<1>1. TypeOK /\ LogGrowth /\ BodyState /\ Passed /\ LateState /\ Runs
  BY DEF IInv
<1>2. /\ log' \in Seq(Entry)
      /\ Len(log') = attempt /\ DOMAIN log' = 1 .. attempt
      /\ attempt \in DOMAIN log
      /\ \A i \in DOMAIN log' : log'[i].sent = log[i].sent
      /\ \A i \in DOMAIN log' : i < attempt => Transient(i)'
      /\ \A i \in DOMAIN log' : i < attempt /\ NotRun(i)' => NotRun(i)
  BY EndedFacts
<1>a. DOMAIN log = 1 .. attempt
  BY <1>1 DEF LogGrowth, TypeOK
<1>3. TypeOK'
  BY <1>1, <1>2, <1>a DEF TypeOK
<1>4. LogGrowth'
  BY <1>1, <1>2 DEF LogGrowth, TypeOK
<1>5. BodyState'
  BY <1>1, <1>2 DEF BodyState, LogGrowth, TypeOK
<1>6. Passed'
  BY <1>2 DEF Passed
<1>7. VerdictIsLastOutcome'
  BY DEF VerdictIsLastOutcome
<1>8. LateState'
  BY <1>1 DEF LateState
<1>9. Runs'
  <2>1. SUFFICES ASSUME NEW i \in executed PROVE ~NotRun(i)'
    BY DEF Runs
  <2>2. i \in 1 .. attempt /\ ~NotRun(i)
    BY <1>1, <1>a DEF TypeOK, Runs
  <2>3. QED
    BY <1>1, <1>2, <2>2 DEF TypeOK
<1>10. QED
  BY <1>3, <1>4, <1>5, <1>6, <1>7, <1>8, <1>9 DEF IInv

-----------------------------------------------------------------------------
LEMMA StepInv == IInv /\ [Next]_vars => IInv'
<1> SUFFICES ASSUME IInv, [Next]_vars PROVE IInv'
  OBVIOUS
<1> USE DEF request
<1>0. TypeOK /\ LogGrowth /\ BodyState /\ Passed /\ LateState /\ Runs
  BY DEF IInv
<1>1. CASE ensureReplayableBody
  <2>1. TypeOK'
    BY <1>0, <1>1, Kinds DEF ensureReplayableBody, TypeOK, Return
  <2>2. LogGrowth'
    BY <1>0, <1>1 DEF ensureReplayableBody, LogGrowth, Return, TypeOK
  <2>3. log = <<>> /\ DOMAIN log = {}
    BY <1>0, <1>1 DEF ensureReplayableBody, LogGrowth, TypeOK
  <2>4. BodyState'
    BY <1>0, <1>1, <2>3 DEF ensureReplayableBody, BodyState, Return, TypeOK
  <2>5. Passed' /\ LateState'
    BY <1>0, <1>1, <2>3 DEF ensureReplayableBody, Passed, LateState, Return
  <2>6. VerdictIsLastOutcome'
    BY <1>1, <2>3, Kinds DEF ensureReplayableBody, VerdictIsLastOutcome, Return
  <2>7. Runs'
    BY <1>0, <1>1, SameLog DEF ensureReplayableBody
  <2>8. QED
    BY <2>1, <2>2, <2>4, <2>5, <2>6, <2>7 DEF IInv
<1>2. CASE CheckContext
  <2>1. TypeOK' /\ LogGrowth'
    BY <1>0, <1>2, Kinds DEF CheckContext, TypeOK, LogGrowth, Return
  <2>2. BodyState' /\ LateState'
    BY <1>0, <1>2 DEF CheckContext, BodyState, LateState, Return
  <2>3. Passed' /\ Runs'
    BY <1>0, <1>2, SameLog DEF CheckContext, Passed, Return
  <2>4. VerdictIsLastOutcome'
    BY <1>2, Kinds DEF CheckContext, VerdictIsLastOutcome, Return
  <2>5. QED
    BY <2>1, <2>2, <2>3, <2>4 DEF IInv
<1>3. CASE Send
  <2> DEFINE e == [sent |-> bodyToSend, outcome |-> Pending]
  <2>1. log \in Seq(Entry) /\ e \in Entry /\ Len(log) = attempt - 1
        /\ attempt \in 1 .. MaxAttempts
    BY <1>0, <1>3 DEF Send, TypeOK, LogGrowth, Entry, bodyToSend
  <2>2. /\ log' \in Seq(Entry) /\ Len(log') = attempt /\ DOMAIN log' = 1 .. attempt
        /\ \A i \in 1 .. (attempt - 1) : log'[i] = log[i]
        /\ log'[attempt] = e
        /\ DOMAIN log = 1 .. (attempt - 1)
    <3>1. log' = Append(log, e)
      BY <1>3 DEF Send
    <3>2. QED
      BY <2>1, <3>1, SentEntry
  <2>3. bodyToSend = IF body = "nil" THEN "nil" ELSE "buffer"
    BY <1>0, <1>3, <2>1 DEF Send, BodyState, bodyToSend
  <2>4. TypeOK'
    BY <1>0, <1>3, <2>2 DEF Send, TypeOK
  <2>5. LogGrowth'
    BY <1>0, <1>3, <2>2 DEF Send, LogGrowth
  <2>6. BodyState'
    <3>1. \A i \in DOMAIN log' :
            log'[i].sent = IF body' = "nil" THEN "nil" ELSE "buffer"
      <4>1. (body' = "nil") <=> (body = "nil")
        BY <1>0, <1>3, <2>3 DEF Send, TypeOK
      <4>2. \A i \in DOMAIN log : log[i].sent = IF body = "nil" THEN "nil" ELSE "buffer"
        BY <1>0 DEF BodyState
      <4>3. log'[attempt].sent = IF body = "nil" THEN "nil" ELSE "buffer"
        BY <2>2, <2>3
      <4>4. QED
        BY <2>1, <2>2, <4>1, <4>2, <4>3
    <3>2. QED
      BY <1>0, <1>3, <2>3, <3>1 DEF Send, BodyState
  <2>7. Passed'
    <3>1. \A i \in DOMAIN log : i < attempt => Transient(i)
      BY <1>0 DEF Passed
    <3>2. \A i \in 1 .. (attempt - 1) : Transient(i) => Transient(i)'
      BY <1>3, <2>2 DEF Send, Transient, Answered
    <3>3. \A i \in DOMAIN log' : i < attempt => Transient(i)'
      BY <2>1, <2>2, <3>1, <3>2
    <3>4. QED
      BY <1>3, <3>3 DEF Send, Passed
  <2>8. VerdictIsLastOutcome' /\ LateState'
    BY <1>0, <1>3 DEF Send, VerdictIsLastOutcome, LateState, TypeOK
  <2>9. Runs'
    <3>1. SUFFICES ASSUME NEW i \in executed PROVE ~NotRun(i)'
      BY <1>3 DEF Send, Runs
    <3>2. i \in 1 .. (attempt - 1) /\ ~NotRun(i)
      BY <1>0, <2>2 DEF TypeOK, Runs
    <3>3. QED
      BY <2>2, <3>2 DEF NotRun, Answered, Refusal
  <2>10. QED
    BY <2>4, <2>5, <2>6, <2>7, <2>8, <2>9 DEF IInv
<1>4. CASE TransportError
  <2>1. PICK k \in {"lost", "unsent"} :
          Ended(Failure(k)) /\ (k = "unsent" => attempt \notin executed)
    BY <1>4 DEF TransportError
  <2>2. Failure(k) \in Outcomes /\ Failure(k).kind = k
    BY Kinds
  <2>3. /\ Len(log') = attempt
        /\ log'[attempt].outcome = Failure(k)
        /\ log'[Len(log')].outcome = Failure(k)
    BY <1>4, <2>1, <2>2, EndedFacts DEF TransportError
  <2>a. attempt \in executed => ~NotRun(attempt)'
    BY <1>4, <2>1, <2>2, <2>3 DEF TransportError, NotRun, Answered
  <2>4. CASE pc' = "backoff"
    <3>1. UNCHANGED result /\ attempt # MaxAttempts /\ ~honorTimeout
      BY <1>4, <2>4 DEF TransportError, ReturnIf, Return, giveUpOnError, LastAttempt
    <3>2. Transient(attempt)'
      BY <1>4, <2>2, <2>3, <3>1 DEF TransportError, Transient
    <3>3. QED
      BY <1>4, <2>1, <2>2, <2>4, <2>a, <3>1, <3>2, EndedStep DEF TransportError
  <2>5. CASE pc' # "backoff"
    <3>1. /\ pc' = "done"
          /\ \/ ctxDone /\ result' = Failure("ctx")
             \/ (honorTimeout \/ attempt = MaxAttempts)
                /\ result' = Failure("transport")
      BY <1>4, <2>5 DEF TransportError, ReturnIf, Return, giveUpOnError, LastAttempt
    <3>2. result' \in Results /\ result'.kind \in {"ctx", "transport"}
          /\ (result'.kind = "ctx" => ctxDone)
          /\ (result'.kind = "transport" => honorTimeout \/ attempt = MaxAttempts)
      BY <3>1, Kinds
    <3>3. VerdictIsLastOutcome'
      BY <1>4, <2>2, <2>3, <3>2 DEF TransportError, VerdictIsLastOutcome
    <3>4. QED
      BY <1>4, <2>1, <2>2, <2>a, <3>1, <3>2, <3>3, EndedStep DEF TransportError
  <2>6. QED
    BY <2>4, <2>5
<1>5. CASE BodyReadError
  <2>1. Ended(Failure("unread"))
    BY <1>5 DEF BodyReadError
  <2>2. Failure("unread") \in Outcomes /\ Failure("unread").kind = "unread"
        /\ Failure("unread") \in Results
    BY Kinds
  <2>3. /\ Len(log') = attempt
        /\ log'[attempt].outcome = Failure("unread")
        /\ log'[Len(log')].outcome = Failure("unread")
    BY <1>5, <2>1, <2>2, EndedFacts DEF BodyReadError
  <2>a. attempt \in executed => ~NotRun(attempt)'
    BY <1>5, <2>2, <2>3 DEF BodyReadError, NotRun, Answered
  <2>4. CASE pc' = "backoff"
    <3>1. UNCHANGED result /\ attempt # MaxAttempts /\ ~honorTimeout
      BY <1>5, <2>4 DEF BodyReadError, ReturnIf, Return, giveUpOnError, LastAttempt
    <3>2. Transient(attempt)'
      BY <1>5, <2>2, <2>3, <3>1 DEF BodyReadError, Transient
    <3>3. QED
      BY <1>5, <2>1, <2>2, <2>4, <2>a, <3>1, <3>2, EndedStep DEF BodyReadError
  <2>5. CASE pc' # "backoff"
    <3>1. /\ pc' = "done" /\ result' = Failure("unread")
          /\ honorTimeout \/ attempt = MaxAttempts
      BY <1>5, <2>5 DEF BodyReadError, ReturnIf, Return, giveUpOnError, LastAttempt
    <3>2. VerdictIsLastOutcome'
      BY <1>5, <2>2, <2>3, <3>1 DEF BodyReadError, VerdictIsLastOutcome
    <3>3. QED
      BY <1>5, <2>1, <2>2, <2>a, <3>1, <3>2, EndedStep DEF BodyReadError
  <2>6. QED
    BY <2>4, <2>5
<1>6. CASE Respond
  <2>1. PICK r \in Response :
          /\ Refusal(r) => attempt \notin executed
          /\ Ended(Reply(r))
          /\ ReturnIf(~shouldRetryResponse(r) \/ LastAttempt, Reply(r))
    BY <1>6 DEF Respond
  <2>2. Reply(r) \in Outcomes /\ Reply(r) \in Results
        /\ Reply(r).kind = "response" /\ Reply(r).response = r
    BY Kinds
  <2>3. /\ Len(log') = attempt
        /\ log'[attempt].outcome = Reply(r)
        /\ log'[Len(log')].outcome = Reply(r)
    BY <1>6, <2>1, <2>2, EndedFacts DEF Respond
  <2>a. attempt \in executed => ~NotRun(attempt)'
    BY <1>6, <2>1, <2>2, <2>3 DEF Respond, NotRun, Answered, Refusal
  <2>4. CASE pc' = "backoff"
    <3>1. UNCHANGED result /\ attempt # MaxAttempts /\ shouldRetryResponse(r)
      BY <2>1, <2>4 DEF ReturnIf, Return, LastAttempt
    <3>2. Transient(attempt)'
      BY <1>6, <2>2, <2>3, <3>1 DEF Respond, Transient, Answered,
         shouldRetryResponse, isIngressError, retryStatusCodes, ingressStatusCodes
    <3>3. QED
      BY <1>6, <2>1, <2>2, <2>4, <2>a, <3>1, <3>2, EndedStep DEF Respond
  <2>5. CASE pc' # "backoff"
    <3>1. pc' = "done" /\ result' = Reply(r)
      BY <2>1, <2>5 DEF ReturnIf, Return
    <3>2. VerdictIsLastOutcome'
      BY <2>2, <2>3, <3>1 DEF VerdictIsLastOutcome
    <3>3. QED
      BY <1>6, <2>1, <2>2, <2>a, <3>1, <3>2, EndedStep DEF Respond
  <2>6. QED
    BY <2>4, <2>5
<1>7. CASE SleepInterrupted
  <2>1. TypeOK' /\ LogGrowth'
    BY <1>0, <1>7, Kinds DEF SleepInterrupted, TypeOK, LogGrowth, Return
  <2>2. BodyState' /\ LateState'
    BY <1>0, <1>7 DEF SleepInterrupted, BodyState, LateState, Return
  <2>3. Passed' /\ Runs'
    BY <1>0, <1>7, SameLog DEF SleepInterrupted, Passed, Return
  <2>4. VerdictIsLastOutcome'
    BY <1>7, Kinds DEF SleepInterrupted, VerdictIsLastOutcome, Return
  <2>5. QED
    BY <2>1, <2>2, <2>3, <2>4 DEF IInv
<1>8. CASE SleepElapsed
  <2>1. TypeOK' /\ LogGrowth'
    BY <1>0, <1>8 DEF SleepElapsed, TypeOK, LogGrowth
  <2>2. BodyState' /\ LateState'
    BY <1>0, <1>8 DEF SleepElapsed, BodyState, LateState, TypeOK
  <2>3. \A i \in DOMAIN log : Transient(i)
    BY <1>0, <1>8 DEF SleepElapsed, Passed, LogGrowth, TypeOK
  <2>4. Passed' /\ Runs'
    BY <1>0, <1>8, <2>3, SameLog DEF SleepElapsed, Passed
  <2>5. VerdictIsLastOutcome'
    BY <1>8 DEF SleepElapsed, VerdictIsLastOutcome
  <2>6. QED
    BY <2>1, <2>2, <2>4, <2>5 DEF IInv
<1>9. CASE ContextEnds
  <2>1. TypeOK' /\ LogGrowth' /\ BodyState' /\ LateState'
    BY <1>0, <1>9 DEF ContextEnds, TypeOK, LogGrowth, BodyState, LateState
  <2>2. Passed' /\ Runs'
    BY <1>0, <1>9, SameLog DEF ContextEnds, Passed
  <2>3. VerdictIsLastOutcome'
    BY <1>9 DEF ContextEnds, VerdictIsLastOutcome
  <2>4. QED
    BY <2>1, <2>2, <2>3 DEF IInv
<1>10. CASE UNCHANGED vars
  <2>1. TypeOK' /\ LogGrowth' /\ BodyState' /\ LateState'
    BY <1>0, <1>10 DEF vars, TypeOK, LogGrowth, BodyState, LateState
  <2>2. Passed' /\ VerdictIsLastOutcome' /\ Runs'
    BY <1>0, <1>10, SameLog DEF IInv, vars, Passed, VerdictIsLastOutcome
  <2>3. QED
    BY <2>1, <2>2 DEF IInv
<1>11. CASE Execute
  <2>1. PICK i \in DOMAIN log : ~Settled(i) /\ executed' = executed \cup {i}
    BY <1>11 DEF Execute
  <2>2. TypeOK'
    BY <1>0, <1>11, <2>1 DEF Execute, TypeOK
  <2>3. LogGrowth' /\ BodyState' /\ LateState'
    BY <1>0, <1>11 DEF Execute, LogGrowth, BodyState, LateState
  <2>4. Passed' /\ VerdictIsLastOutcome'
    BY <1>0, <1>11, SameLog DEF IInv, Execute, Passed, VerdictIsLastOutcome
  <2>5. ~NotRun(i)
    BY <2>1 DEF Settled, NotRun, Answered
  <2>6. \A j : NotRun(j)' => NotRun(j)
    BY <1>11, SameLog DEF Execute
  <2>7. Runs'
    BY <1>0, <2>1, <2>5, <2>6 DEF Runs
  <2>8. QED
    BY <2>2, <2>3, <2>4, <2>7 DEF IInv
<1>12. QED
  BY <1>1, <1>2, <1>3, <1>4, <1>5, <1>6, <1>7, <1>8, <1>9, <1>10, <1>11
     DEF Next, Client, Network, Returned

-----------------------------------------------------------------------------
LEMMA Inductive == Spec => []IInv
BY InitInv, StepInv, PTL DEF Spec

\* The type invariant; it bounds the attempts by MaxAttempts, so the code after
\* the loop of do is never reached.
THEOREM TypeCorrect == Spec => []TypeOK
<1>1. IInv => TypeOK
  BY DEF IInv
<1>2. QED
  BY <1>1, Inductive, PTL

\* No attempt of do is sent with a body that is missing, unbuffered or read.
THEOREM AttemptsAreWhole == Spec => []EveryAttemptIsWhole
<1>1. IInv => EveryAttemptIsWhole
  BY DEF IInv, TypeOK, BodyState, EveryAttemptIsWhole, Attempts
<1>2. QED
  BY <1>1, Inductive, PTL

\* Whenever the attempts of one call run, and however late, one that the client
\* has seen answered by the application, and any whose reply was lost in a call
\* with a start timeout, is the last one to be carried out.
THEOREM DuplicatesExplained == Spec => []RunsTwiceOnlyUnanswered
<1>1. IInv => RunsTwiceOnlyUnanswered
  <2> SUFFICES ASSUME IInv, NEW i \in executed, NEW j \in executed, i < j
               PROVE  ByProxy(i) \/ (Unseen(i) /\ ~honorTimeout)
    BY DEF RunsTwiceOnlyUnanswered
  <2>1. i \in DOMAIN log /\ i < attempt
    BY DEF IInv, TypeOK, LogGrowth
  <2>2. Transient(i) /\ ~NotRun(i)
    BY <2>1 DEF IInv, Passed, Runs
  <2>3. QED
    BY <2>2 DEF ByProxy, Transient, Unseen, Answered, NotRun, Refusal
<1>2. QED
  BY <1>1, Inductive, PTL

\* do returns the outcome of its last attempt, or why it made no other.
THEOREM VerdictCorrect == Spec => []VerdictIsLastOutcome
<1>1. IInv => VerdictIsLastOutcome
  BY DEF IInv
<1>2. QED
  BY <1>1, Inductive, PTL

\* A call whose context has ended sends at most one more attempt.
THEOREM LateSendsBounded == Spec => []AtMostOneLateSend
<1>1. IInv => AtMostOneLateSend
  BY DEF IInv, LateState, AtMostOneLateSend
<1>2. QED
  BY <1>1, Inductive, PTL
=============================================================================

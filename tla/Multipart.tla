------------------------------ MODULE Multipart ------------------------------
(***************************************************************************)
(* A multipart upload (multipart.go): create the upload, put the parts     *)
(* from goroutines bounded by a semaphore, wait for all of them, complete. *)
(*                                                                         *)
(* One program counter for the caller, one for each part's goroutine.  The *)
(* goroutines share firstErr (under errMu), the slice of results (one cell *)
(* each), the semaphore and the wait group, and partCtx, which a failing   *)
(* part cancels and which also ends with the caller's context.  A call of  *)
(* do is two steps here: its look at the context, then the flight with all *)
(* its attempts (module Transport), which ends in one outcome.             *)
(***************************************************************************)
EXTENDS PartRanges

CONSTANTS
  Size,          \* src.size(), in bytes
  PartSize,      \* partSize
  Concurrency    \* concurrency

ASSUME SizeAssumption == Size \in Nat /\ PartSize \in Nat \ {0}
ASSUME ConcurrencyAssumption == Concurrency \in Nat

Parts == 1 .. numParts(Size, PartSize)
Slots == IF Concurrency < 1 THEN 1 ELSE Concurrency
Bytes(p) == PartBytes(p, Size, PartSize)

VARIABLES
  pc,          \* the caller
  next,        \* i + 1: the next part to schedule
  part,        \* part[p]: where the goroutine of part p stands
  partErr,     \* partErr[p]: the error that goroutine is about to record
  held,        \* tokens in sem
  running,     \* the counter of wg
  firstErr,    \* firstErr
  cancelled,   \* a part has called cancel
  ctxDone,     \* the caller's context has ended
  results,     \* the parts whose cell of results is filled
  stored,      \* stored[p]: the bytes the service holds for part p
  payload,     \* the part numbers the complete request listed, in order
  object,      \* at the service: "absent", "whole" or "broken"
  outcome,     \* what the call has returned
  late         \* history: parts sent although partCtx had ended

caller == <<pc, next>>
goroutines == <<part, partErr, held, running>>
errors == <<firstErr, cancelled>>
service == <<stored, payload, object, late>>
vars == <<caller, goroutines, errors, ctxDone, results, service, outcome>>

partCtxDone == cancelled \/ ctxDone

GoroutineStates == {"idle", "started", "read", "checked", "flight", "failed",
                    "recorded", "leaving", "released", "ended"}
PartErrors == {"none", "read", "put", "ctx"}
Outcomes == {"running", "url", "createErr", "ctxErr", "read", "put",
             "completeErr"}

Nothing == <<>>

Init ==
  /\ pc = "create" /\ next = 1
  /\ part = [p \in Parts |-> "idle"]
  /\ partErr = [p \in Parts |-> "none"]
  /\ held = 0 /\ running = 0
  /\ firstErr = "none" /\ cancelled = FALSE
  /\ ctxDone \in BOOLEAN
  /\ results = {}
  /\ stored = [p \in Parts |-> {}]
  /\ payload = Nothing /\ object = "absent"
  /\ outcome = "running"
  /\ late = {}

Return(o) == pc' = "done" /\ outcome' = o

-----------------------------------------------------------------------------
(* The caller's goroutine. *)

\* multipartCreate: the request cannot be built, or do looks at ctx and sends.
CreateCheck ==
  /\ pc = "create"
  /\ \/ Return("createErr")
     \/ ctxDone /\ Return("ctxErr")
     \/ ~ctxDone /\ pc' = "creating" /\ UNCHANGED outcome
  /\ UNCHANGED <<next, goroutines, errors, ctxDone, results, service>>

CreateAnswered ==
  /\ pc = "creating"
  /\ \/ pc' = "schedule" /\ UNCHANGED outcome
     \/ Return("createErr")
     \/ ctxDone /\ Return("ctxErr")
  /\ UNCHANGED <<next, goroutines, errors, ctxDone, results, service>>

\* sem <- struct{}{}: blocks while the semaphore is full.
semFree_OneMore == held <= Slots
semFree == held < Slots

\* The select of the scheduling loop.  When partCtx is done and a token is
\* free as well, either case may be taken.
Schedule ==
  /\ pc = "schedule" /\ next \in Parts
  /\ semFree
  /\ held' = held + 1 /\ running' = running + 1
  /\ part' = [part EXCEPT ![next] = "started"]
  /\ next' = next + 1
  /\ UNCHANGED <<pc, partErr, errors, ctxDone, results, service, outcome>>

StopScheduling ==
  /\ pc = "schedule"
  /\ partCtxDone \/ next \notin Parts
  /\ pc' = "wait"
  /\ UNCHANGED <<next, goroutines, errors, ctxDone, results, service, outcome>>

allDone_NotAwaited == TRUE
\* wg.Wait.
allDone == running = 0

Join ==
  /\ pc = "wait" /\ allDone
  /\ CASE firstErr = "none" -> pc' = "complete" /\ UNCHANGED outcome
       [] firstErr = "ctx" -> Return("ctxErr")
       [] OTHER -> Return(firstErr)
  /\ UNCHANGED <<next, goroutines, errors, ctxDone, results, service>>

CompleteCheck_NotChecked ==
  /\ pc = "complete"
  /\ pc' = "completing"
  /\ payload' = [p \in Parts |-> IF p \in results THEN p ELSE 0]
  /\ UNCHANGED <<next, goroutines, errors, ctxDone, results, stored, object,
                 late, outcome>>

\* multipartComplete lists every cell of results; a cell no goroutine filled
\* is the zero partResult.  Only do's look at ctx stands between a scheduling
\* loop that ctx has cut short and this request.
CompleteCheck ==
  /\ pc = "complete"
  /\ \/ Return("completeErr") /\ UNCHANGED payload
     \/ ctxDone /\ Return("ctxErr") /\ UNCHANGED payload
     \/ /\ ~ctxDone /\ pc' = "completing"
        /\ payload' = [p \in Parts |-> IF p \in results THEN p ELSE 0]
        /\ UNCHANGED outcome
  /\ UNCHANGED <<next, goroutines, errors, ctxDone, results, stored, object,
                 late>>

\* The service joins the parts listed, in the order listed (external).  That is
\* the object when every byte of it comes once, and in its place.
Assembled ==
  IF /\ payload = [p \in Parts |-> p]
     /\ UNION {stored[p] : p \in Parts} = 0 .. (Size - 1)
     /\ \A p, q \in Parts : p < q =>
          \A b \in stored[p], c \in stored[q] : b < c
    THEN "whole" ELSE "broken"

\* The complete request may have been carried out although its answer, or the
\* answer to a repeated one, is an error.
CompleteAnswered ==
  /\ pc = "completing"
  /\ \/ object' = Assembled /\ Return("url")
     \/ object' \in {object, Assembled} /\ Return("completeErr")
     \/ ctxDone /\ object' \in {object, Assembled} /\ Return("ctxErr")
  /\ UNCHANGED <<next, goroutines, errors, ctxDone, results, stored, payload,
                 late>>

-----------------------------------------------------------------------------
(* The goroutine of part p. *)

Goto(p, state) == part' = [part EXCEPT ![p] = state]
Fail(p, e) == Goto(p, "failed") /\ partErr' = [partErr EXCEPT ![p] = e]
private == <<caller, held, running, ctxDone, outcome>>

\* src.readAt: a short read is an error, as when the file has shrunk since it
\* was opened.  An empty part reads nothing.
ReadPart(p) ==
  /\ part[p] = "started"
  /\ \/ Goto(p, "read") /\ UNCHANGED partErr
     \/ Bytes(p) # {} /\ Fail(p, "read")
  /\ UNCHANGED <<private, errors, results, service>>

PutCheck_NotChecked(p) ==
  /\ part[p] = "read"
  /\ Goto(p, "checked")
  /\ UNCHANGED <<private, partErr, errors, results, service>>

\* putPart: the request cannot be built, or do looks at partCtx and sends.
PutCheck(p) ==
  /\ part[p] = "read"
  /\ \/ Fail(p, "put")
     \/ partCtxDone /\ Fail(p, "ctx")
     \/ ~partCtxDone /\ Goto(p, "checked") /\ UNCHANGED partErr
  /\ UNCHANGED <<private, errors, results, service>>

PutSend(p) ==
  /\ part[p] = "checked"
  /\ Goto(p, "flight")
  /\ late' = IF partCtxDone THEN late \cup {p} ELSE late
  /\ UNCHANGED <<private, partErr, errors, results, stored, payload, object>>

Keep(p) == stored' = [stored EXCEPT ![p] = Bytes(p)]

PutAnswered(p) ==
  /\ part[p] = "flight"
  /\ Keep(p) /\ results' = results \cup {p}
  /\ Goto(p, "leaving")
  /\ UNCHANGED <<private, partErr, errors, payload, object, late>>

\* An error status, an answer without an ETag, or attempts used up: the
\* service may hold the part all the same.
PutFailed(p) ==
  /\ part[p] = "flight"
  /\ Keep(p) \/ UNCHANGED stored
  /\ Fail(p, "put") \/ (partCtxDone /\ Fail(p, "ctx"))
  /\ UNCHANGED <<private, errors, results, payload, object, late>>

recordErr_AfterCancel(p) ==
  /\ part[p] = "failed"
  /\ cancelled' = TRUE
  /\ IF cancelled
       THEN /\ firstErr' = IF firstErr = "none" THEN partErr[p] ELSE firstErr
            /\ Goto(p, "recorded")
       ELSE UNCHANGED <<firstErr, part>>
  /\ UNCHANGED <<private, partErr, results, service>>

\* recordErr keeps the first error; cancel follows.
recordErr(p) ==
  /\ part[p] = "failed"
  /\ firstErr' = IF firstErr = "none" THEN partErr[p] ELSE firstErr
  /\ Goto(p, "recorded")
  /\ UNCHANGED <<private, partErr, cancelled, results, service>>

CancelRest(p) ==
  /\ part[p] = "recorded"
  /\ cancelled' = TRUE
  /\ Goto(p, "leaving")
  /\ UNCHANGED <<private, partErr, firstErr, results, service>>

ReleaseToken_Forgotten(p) ==
  /\ part[p] = "leaving"
  /\ Goto(p, "released")
  /\ UNCHANGED <<caller, partErr, held, running, errors, ctxDone, results,
                 service, outcome>>

\* The deferred calls, last one first: <-sem, then wg.Done.
ReleaseToken(p) ==
  /\ part[p] = "leaving"
  /\ held' = held - 1
  /\ Goto(p, "released")
  /\ UNCHANGED <<caller, partErr, running, errors, ctxDone, results, service,
                 outcome>>

Finish(p) ==
  /\ part[p] = "released"
  /\ running' = running - 1
  /\ Goto(p, "ended")
  /\ UNCHANGED <<caller, partErr, held, errors, ctxDone, results, service,
                 outcome>>

-----------------------------------------------------------------------------
ContextEnds ==
  /\ pc # "done" /\ ~ctxDone
  /\ ctxDone' = TRUE
  /\ UNCHANGED <<caller, goroutines, errors, results, service, outcome>>

Returned == pc = "done" /\ UNCHANGED vars

Caller == CreateCheck \/ Schedule \/ StopScheduling \/ Join \/ CompleteCheck
CallerFlight == CreateAnswered \/ CompleteAnswered
Goroutine(p) == ReadPart(p) \/ PutCheck(p) \/ PutSend(p) \/ recordErr(p)
                \/ CancelRest(p) \/ ReleaseToken(p) \/ Finish(p)
PutFlight(p) == PutAnswered(p) \/ PutFailed(p)

Next == \/ Caller \/ CallerFlight
        \/ \E p \in Parts : Goroutine(p) \/ PutFlight(p)
        \/ ContextEnds \/ Returned

\* Goroutines are scheduled; a flight whose context has ended is given up by
\* net/http, any other may wait for the service for ever.
Fairness ==
  /\ WF_vars(Caller)
  /\ WF_vars(ctxDone /\ CallerFlight)
  /\ \A p \in Parts : /\ WF_vars(Goroutine(p))
                      /\ WF_vars(partCtxDone /\ PutFlight(p))

Spec == Init /\ [][Next]_vars /\ Fairness

-----------------------------------------------------------------------------
(* Properties. *)

Holding == {p \in Parts : part[p] \notin {"idle", "released", "ended"}}
Running == {p \in Parts : part[p] \notin {"idle", "ended"}}

\* The type invariant: the semaphore's channel holds at most its capacity.
TypeOK ==
  /\ pc \in {"create", "creating", "schedule", "wait", "complete",
             "completing", "done"}
  /\ next \in 1 .. (numParts(Size, PartSize) + 1)
  /\ part \in [Parts -> GoroutineStates]
  /\ partErr \in [Parts -> PartErrors]
  /\ held \in 0 .. Slots /\ running \in Nat
  /\ firstErr \in PartErrors
  /\ cancelled \in BOOLEAN /\ ctxDone \in BOOLEAN
  /\ results \subseteq Parts /\ late \subseteq Parts
  /\ stored \in [Parts -> SUBSET (0 .. (Size - 1))]
  /\ payload \in {Nothing} \cup [Parts -> Nat]
  /\ object \in {"absent", "whole", "broken"}
  /\ outcome \in Outcomes

\* At most Concurrency part buffers exist at a time: a goroutine has its token
\* from before it allocates the buffer until after its request is over.
BoundedBuffers == Cardinality(Holding) <= Slots

\* No goroutine outlives the scheduling: the caller reads results and firstErr
\* without the mutex, completes, and returns (after which UploadFile closes
\* the file) only when every goroutine that was started has ended.
JoinedBeforeUse ==
  pc \in {"complete", "completing", "done"} =>
    \A p \in Parts : part[p] \in {"idle", "ended"}

\* The error reported is the one that stopped the upload: the cancellation
\* error of a part which was only called off by another part's failure never
\* takes its place, so a context error means that the caller's context ended.
FirstErrorIsCause ==
  firstErr = "ctx" \/ outcome = "ctxErr" => ctxDone

\* The complete request is sent only when it can list every part with its
\* ETag, in order, and the service holds exactly the bytes of each: not after
\* a failed part, and not after a context that cut the scheduling short, when
\* multipartUploadParts returns results with empty cells and no error.
CompleteCarriesAll ==
  payload # Nothing =>
    /\ payload = [p \in Parts |-> p]
    /\ \A p \in Parts : stored[p] = Bytes(p)
    /\ firstErr = "none"

\* The first error calls off the rest: only parts that were past the check of
\* their context by then are still sent.  They held a token, and so did the
\* failing part.
BoundedLateParts ==
  Cardinality(late) <= IF ctxDone THEN Slots ELSE Slots - 1

\* The call returns once its context has ended, and also without that when no
\* request stays in flight for ever: the scheduling loop, the semaphore and
\* the wait group never wait for each other.
CallReturns ==
  /\ ctxDone ~> (pc = "done")
  /\ /\ \A p \in Parts : []<>(part[p] # "flight")
     /\ []<>(pc \notin {"creating", "completing"})
     => <>(pc = "done")

\* A multipart upload implements AtomicUpload: the parts, the retries and the
\* failures show nowhere; the object is whole or absent.
verdict == IF outcome \in {"running", "url"} THEN outcome ELSE "error"
Atomic == INSTANCE AtomicUpload WITH outcome <- verdict
StoresAtomically == Atomic!Spec
=============================================================================

-------------------------------- MODULE Upload --------------------------------
(***************************************************************************)
(* One upload (storage.go): Upload and UploadImage from memory, UploadFile *)
(* from an open file, through the chain of storage backends.  A backend is *)
(* a few requests: v3 needs a token and then one request, or a multipart   *)
(* upload; legacy needs a signed URL and then a PUT.  Each request is two  *)
(* steps: what is done up to do's look at the context, and the flight with *)
(* all its attempts (module Transport).  A multipart upload is one such    *)
(* flight here: module Multipart shows that it is atomic.                  *)
(*                                                                         *)
(* Of the content the model keeps where it is: in memory from the start,   *)
(* in the open file, or read from the file into a buffer.                  *)
(***************************************************************************)
EXTENDS Naturals, SequencesExt

CONSTANT
  MaxFallback     \* the longest fallback list a caller gives

ASSUME MaxFallbackAssumption == MaxFallback \in Nat

Repositories == {"v3", "legacy"}
Unset == "unset"

VARIABLES
  \* the call's arguments
  kind,         \* "bytes" or "file"
  big,          \* src.size() > multipartThreshold
  badLifecycle, \* cfg.lifecycle cannot be encoded in headers
  primary,      \* cfg.repository
  fallbackSet,  \* cfg.fallbackSet
  fallback,     \* cfg.fallback
  \* the call
  pc,           \* "open", "resolve", the request being made, "return", "done"
  flight,       \* that request is in flight
  file,         \* src.f: "none", "open" or "closed"
  chain,        \* the backends left to try, the current one first
  lastErr,      \* the failure of the last backend tried
  ctxDone,      \* the caller's context has ended
  tokenBusy,    \* another upload holds the mutex of the token cache
  outcome,      \* "running", "url" or "error"
  \* history
  withSettings, \* the backends asked to create an object with cfg.lifecycle
  stored,       \* the backends whose service holds the whole object
  tried,        \* the backends tried, in order
  readBy        \* the backends that have read the whole file into memory

arguments == <<kind, big, badLifecycle, primary, fallbackSet,
               fallback>>
control == <<pc, flight, chain, lastErr, outcome, tried>>
outside == <<ctxDone, tokenBusy>>
objects == <<withSettings, stored>>
vars == <<arguments, control, file, outside, objects, readBy>>

Requests == {"token", "single", "multipart", "initiate", "put"}
NoError == [backend |-> "none", cause |-> "none"]

-----------------------------------------------------------------------------
(* repositories. *)

resolved ==
  <<IF primary = Unset THEN "v3" ELSE primary>>
    \o (IF fallbackSet THEN fallback ELSE <<"legacy">>)

dedup_Kept(s) == s
\* The first occurrence of each, in order.
dedup(s) ==
  LET firsts == {i \in DOMAIN s : \A j \in 1 .. i - 1 : s[j] # s[i]}
      rank(i) == Cardinality({j \in firsts : j <= i})
  IN  [k \in 1 .. Cardinality(firsts) |-> s[CHOOSE i \in firsts : rank(i) = k]]

\* Multipart applies only when the primary repository is v3.
allowMultipart == dedup(resolved)[1] = "v3"

-----------------------------------------------------------------------------
Init ==
  /\ kind \in {"bytes", "file"} /\ big \in BOOLEAN /\ badLifecycle \in BOOLEAN
  /\ primary \in Repositories \cup {Unset, "other"}
  /\ fallbackSet \in BOOLEAN
  /\ fallback \in IF fallbackSet
       THEN UNION {[1 .. n -> Repositories \cup {"other"}] : n \in 0 .. MaxFallback}
       ELSE {<<>>}
  /\ pc = IF kind = "file" THEN "open" ELSE "resolve"
  /\ flight = FALSE /\ chain = <<>> /\ lastErr = NoError
  /\ outcome = "running" /\ tried = <<>>
  /\ file = "none" /\ ctxDone \in BOOLEAN /\ tokenBusy = FALSE
  /\ withSettings = {} /\ stored = {} /\ readBy = <<>>

Return(o) ==
  /\ pc' = "return" /\ flight' = FALSE /\ outcome' = o
  /\ UNCHANGED <<chain, tried>>

Goto(request) ==
  /\ pc' = request /\ flight' = FALSE
  /\ UNCHANGED <<chain, lastErr, outcome, tried>>

OpenFile ==
  /\ pc = "open"
  /\ \/ Return("error") /\ UNCHANGED <<lastErr, file>>
     \/ Goto("resolve") /\ file' = "open"
  /\ UNCHANGED <<arguments, outside, objects, readBy>>

\* The first request of a backend.
First(repo) == IF repo = "v3" THEN "token" ELSE "initiate"

ResolveChain ==
  /\ pc = "resolve"
  /\ IF ToSet(resolved) \subseteq Repositories
       THEN /\ chain' = dedup(resolved)
            /\ pc' = First(chain'[1])
            /\ tried' = <<chain'[1]>>
            /\ UNCHANGED <<flight, lastErr, outcome>>
       ELSE Return("error") /\ UNCHANGED lastErr
  /\ UNCHANGED <<arguments, file, outside, objects, readBy>>

BackendFails_SameAgain(cause) ==
  /\ lastErr' = [backend |-> chain[1], cause |-> cause]
  /\ IF Len(chain) > 1
       THEN /\ pc' = First(chain[1]) /\ flight' = FALSE
            /\ UNCHANGED <<chain, tried, outcome>>
       ELSE Return("error")

\* The backend's error is kept and the next backend is tried.
BackendFails(cause) ==
  /\ lastErr' = [backend |-> chain[1], cause |-> cause]
  /\ IF Len(chain) > 1
       THEN /\ chain' = Tail(chain)
            /\ pc' = First(chain[2]) /\ flight' = FALSE
            /\ tried' = Append(tried, chain[2])
            /\ UNCHANGED outcome
       ELSE Return("error")

-----------------------------------------------------------------------------
(* A request, up to its flight. *)

\* The mutex of the token cache is waited for without a look at the context.
Beginning == pc \in Requests /\ ~flight /\ (pc = "token" => ~tokenBusy)

\* single and put hand the whole content to do; multipart reads it in ranges.
wholeBody_MultipartToo == pc \in {"single", "put", "multipart"}
wholeBody == pc \in {"single", "put"}

setsLifecycle_OnV3Only == pc \in {"single", "multipart"}
\* The requests that create an object go through applyLifecycleHeaders.
setsLifecycle == pc \in {"single", "multipart", "initiate"}

lifecycleFails == badLifecycle /\ setsLifecycle

\* newReader: a closed file cannot be sought.
NewReaderFails ==
  /\ Beginning
  /\ wholeBody /\ file = "closed"
  /\ BackendFails("closed")
  /\ UNCHANGED <<arguments, file, outside, objects, readBy>>

\* The request cannot be built: no credentials, or a base URL from the service
\* that is none.  No look at the context comes before that.
NewRequestFails ==
  /\ Beginning
  /\ ~(wholeBody /\ file = "closed")
  /\ BackendFails("request")
  /\ UNCHANGED <<arguments, file, outside, objects, readBy>>

LifecycleFails ==
  /\ Beginning
  /\ ~(wholeBody /\ file = "closed")
  /\ lifecycleFails
  /\ BackendFails("lifecycle")
  /\ UNCHANGED <<arguments, file, outside, objects, readBy>>

\* ensureReplayableBody reads a file to its end and closes it, whatever the
\* request then comes to; what is in memory is replayable as it is.
ReplaysFile == wholeBody /\ file = "open"

BufferingFails ==
  /\ Beginning /\ ~lifecycleFails
  /\ ReplaysFile
  /\ file' = "closed"
  /\ BackendFails("read")
  /\ UNCHANGED <<arguments, outside, objects, readBy>>

\* The rest of do up to its first flight.
Begin ==
  /\ Beginning /\ ~lifecycleFails
  /\ ~(wholeBody /\ file = "closed")
  /\ file' = IF ReplaysFile THEN "closed" ELSE file
  /\ readBy' = IF ReplaysFile THEN Append(readBy, chain[1]) ELSE readBy
  /\ IF ctxDone
       THEN BackendFails("ctx") /\ UNCHANGED withSettings
       ELSE /\ flight' = TRUE
            /\ withSettings' = withSettings \cup {b \in {chain[1]} : setsLifecycle}
            /\ UNCHANGED <<pc, chain, lastErr, outcome, tried>>
  /\ UNCHANGED <<arguments, outside, stored>>

-----------------------------------------------------------------------------
(* Its end. *)

toMultipart == allowMultipart /\ big

AfterToken == Goto(IF toMultipart THEN "multipart" ELSE "single")

\* A token in the cache that has not expired.
TokenCached ==
  /\ pc = "token" /\ Beginning
  /\ AfterToken
  /\ UNCHANGED <<arguments, file, outside, objects, readBy>>

TokenFetched ==
  /\ pc = "token" /\ flight
  /\ AfterToken
  /\ UNCHANGED <<arguments, file, outside, objects, readBy>>

Initiated ==
  /\ pc = "initiate" /\ flight
  /\ Goto("put")
  /\ UNCHANGED <<arguments, file, outside, objects, readBy>>

\* The request that carries the content succeeds: the backend returns a URL.
Uploaded ==
  /\ pc \in {"single", "multipart", "put"} /\ flight
  /\ stored' = stored \cup {chain[1]}
  /\ Return("url") /\ UNCHANGED lastErr
  /\ UNCHANGED <<arguments, file, outside, withSettings, readBy>>

\* An error status, an answer that cannot be used, or no answer: the object may
\* be stored all the same.
RequestFails ==
  /\ pc \in Requests /\ flight
  /\ \/ UNCHANGED stored
     \/ pc \in {"single", "multipart", "put"} /\ stored' = stored \cup {chain[1]}
  /\ BackendFails("request") \/ (ctxDone /\ BackendFails("ctx"))
  /\ UNCHANGED <<arguments, file, outside, withSettings, readBy>>

CloseFile_Forgotten ==
  /\ pc = "return"
  /\ pc' = "done"
  /\ UNCHANGED <<arguments, flight, chain, lastErr, outcome, tried, file,
                 outside, objects, readBy>>

\* The return of upload, and with it UploadFile's deferred Close.
CloseFile ==
  /\ pc = "return"
  /\ pc' = "done"
  /\ file' = IF file = "open" THEN "closed" ELSE file
  /\ UNCHANGED <<arguments, flight, chain, lastErr, outcome, tried, outside,
                 objects, readBy>>

ContextEnds ==
  /\ pc # "done" /\ ~ctxDone
  /\ ctxDone' = TRUE
  /\ UNCHANGED <<arguments, control, file, tokenBusy, objects, readBy>>

\* Module TokenCache: another upload takes the mutex, or gives it back.
OtherUpload ==
  /\ pc = "token" /\ ~flight
  /\ tokenBusy' = ~tokenBusy
  /\ UNCHANGED <<arguments, control, file, ctxDone, objects, readBy>>

Returned == pc = "done" /\ UNCHANGED vars

Caller == OpenFile \/ ResolveChain \/ NewReaderFails \/ NewRequestFails
          \/ LifecycleFails \/ BufferingFails \/ Begin \/ TokenCached \/ CloseFile
Network == TokenFetched \/ Initiated \/ Uploaded \/ RequestFails

Next == Caller \/ Network \/ ContextEnds \/ OtherUpload \/ Returned

\* The caller's goroutine runs, and gets the mutex of the token cache if that is
\* free again and again; a flight whose context has ended is given up.
Fairness == SF_vars(Caller) /\ WF_vars(ctxDone /\ Network)

Spec == Init /\ [][Next]_vars /\ Fairness

-----------------------------------------------------------------------------
(* Properties. *)

Causes == {"none", "closed", "lifecycle", "read", "request", "ctx"}

\* The type invariant.  A call that has returned leaves no file open.
TypeOK ==
  /\ kind \in {"bytes", "file"} /\ big \in BOOLEAN /\ badLifecycle \in BOOLEAN
  /\ pc \in Requests \cup {"open", "resolve", "return", "done"}
  /\ flight \in BOOLEAN
  /\ chain \in Seq(Repositories) /\ tried \in Seq(Repositories)
  /\ lastErr \in [backend : Repositories \cup {"none"}, cause : Causes]
  /\ outcome \in {"running", "url", "error"}
  /\ file \in IF pc = "done" THEN {"none", "closed"}
                             ELSE {"none", "open", "closed"}
  /\ ctxDone \in BOOLEAN /\ tokenBusy \in BOOLEAN
  /\ withSettings \subseteq Repositories /\ stored \subseteq Repositories
  /\ readBy \in Seq(Repositories)

\* Backends are tried in the caller's order, each at most once, whatever the
\* primary and the fallback list repeat.  A URL is returned only by the last one
\* tried, and if that holds the whole object; a call gives up only when all of
\* them have failed, and then reports the failure of the last one.
ChainIsWalked ==
  /\ IsPrefix(tried, dedup(resolved))
  /\ \A i, j \in DOMAIN tried : i # j => tried[i] # tried[j]
  /\ outcome = "url" => Last(tried) \in stored /\ lastErr.backend # Last(tried)
  /\ outcome = "error" /\ tried # <<>> =>
       tried = dedup(resolved) /\ lastErr.backend = Last(tried)

\* A file is read into memory as a whole at most once in the whole chain, and
\* only the backend that has done so can still return a URL: all others find it
\* closed.  A multipart upload reads no file as a whole, so that a large one is
\* never read so by a primary v3, and leaves it to the next backend if it fails;
\* content that is in memory from the start is there for every backend.
FileIsReadWholeOnce ==
  /\ Len(readBy) <= 1
  /\ outcome = "url" /\ readBy # <<>> => readBy = <<Last(tried)>>
  /\ allowMultipart /\ big => "v3" \notin ToSet(readBy)
  /\ lastErr.cause = "closed" => kind = "file" /\ Len(tried) > 1 /\ ~toMultipart

\* Whatever backend of the chain comes to store the object, and whether or not it
\* says so, it was asked to create it with the lifecycle and access settings of
\* the call; and none stores it if these settings cannot be sent.
NeverStoredWithoutLifecycle ==
  stored \subseteq withSettings /\ (badLifecycle => stored = {})

\* The call returns once its context has ended, unless another upload keeps the
\* mutex of the token cache for ever, and without that when no request stays in
\* flight for ever.
CallReturns ==
  []<>~tokenBusy =>
    /\ ctxDone ~> (pc = "done")
    /\ []<>~flight => <>(pc = "done")

\* What the comments on WithFallback and upload say: the backends of the
\* fallback list are tried when the primary one fails.  It does not hold for a
\* file: once one backend has handed it to do, it is closed for the others.
FallbackGetsTheContent == lastErr.cause # "closed"

\* What the comment on UploadFile says: a large file is never loaded into
\* memory in full.  It does not hold for a backend other than a primary v3.
LargeFileNeverInMemory == big => readBy = <<>>
=============================================================================

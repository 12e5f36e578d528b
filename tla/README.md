# A verification of the fal Go SDK

TLA+ models of this repository's client library, checked with TLC on small
instances, and theorems about them that TLAPS proves for every value of the
constants. The code is the reference: a definition stands for the lines that
`PROJECT.json` names under `map`. Documents and comments are only quoted where
the code does something else.

## The system

The SDK is a library of one Go package. A `Client` is configured once and then
used by any number of goroutines; nearly everything it does is a few HTTP
requests in a row. The state that outlives a request is small and is where the
difficulties are.

| Component | State | Operations | Interacts with |
|---|---|---|---|
| Transport (`transport.go`) | the attempt, the request's body, the caller's context | `do`, `ensureReplayableBody`, `shouldRetryResponse`, `sleepContext` | below every other request; closes the body it buffers |
| Multipart (`multipart.go`) | part context, semaphore, wait group, first error, slice of results | create, schedule, `putPart`, join, complete | transport; called by Upload for large v3 objects |
| Upload (`storage.go`) | the chain of backends, the source (memory or an open file) | `Upload`, `UploadFile`, `UploadImage`, `uploadV3`, `uploadLegacy` | transport, multipart, token cache |
| v3 token cache (`storage.go`) | one token and its expiry under a mutex | `token`, `fetch` | shared by all uploads of a client |
| Queue (`queue.go`, `status.go`) | the request id, the last status; the jobs at the service | `Subscribe`, `Submit`, `Request`, `Status`, `Events`, `Result`, `Cancel` | transport; the caller's `OnEnqueue` and `OnQueueUpdate` callbacks |
| Credentials (`auth.go`) | the environment's key, a mutex, the token file shared with the fal CLI | `Credentials`, refresh at Auth0, rewriting of the file | called for every request built; other processes |
| Run (`run.go`) | none | `Run`, call options, `doAndRead` | transport |
| Streaming (`stream.go`, `sse.go`) | the response body, the event being gathered | `Stream`, `next` | an HTTP client without timeout; the consumer's loop |
| Realtime (`realtime.go`) | a WebSocket, a close-once and its error | `Realtime`, `Send`, `Recv`, `Close` | token minting through the transport; the WebSocket library |
| App ids, encoding, errors, headers, options | none | pure functions and assignments | all of the above |
| Web demo (`examples/webdemo`) | spend counters, billing cache, each under a mutex | HTTP handlers | `Run`; the billing service |

What is hard, and what makes each part correct:

- **Transport.** An attempt may be lost after the server has carried it out, an
  answer may be unreadable, a gateway may answer in the server's place, what was
  lost may still be carried out later, and the context may end anywhere. Correct:
  every attempt carries the whole body; a request is carried out twice only where
  the client has no answer of the application to its first attempt; the verdict is
  the last attempt's; after the end of the context at most one attempt goes out.
- **Multipart.** Goroutines race with each other, with the scheduling loop and
  with the context. Correct: memory stays bounded; nobody reads the results
  before all goroutines are through; the first error is the cause and not a
  consequence; `complete` is sent with every part or not at all.
- **Upload.** A backend may fail after the content was partly used up. Correct:
  each backend once and in order; a URL only for a stored object; never an
  object without its lifecycle settings; the file is closed at the end.
- **Queue.** A submit that is repeated may leave a job nobody knows; statuses are
  stale when they arrive; others may cancel the job. Correct: a result only of a
  job that ended well; what is returned agrees with the updates; a job is
  cancelled only when it is abandoned, reported abandoned only after that, and left
  alone at the end of the context only if it is over.
- **Credentials.** A refresh token that is used twice, or lost between Auth0's
  answer and the file, is a lost login. Correct: no interleaving of the callers
  of one process loses it, and what can lose it is known.
- **Token cache.** The mutex is held over a fetch, and waited for without a look at
  the context; time passes between the look at a token and its use. Correct: one
  live token for all uploads; no upload is given another's token that had expired;
  every waiter gets its turn.
- **Streaming.** A body that ends within an event, with no error of the connection,
  looks complete; there is no timeout. Correct: every event that was complete is
  yielded once and in order, and nothing else; nothing follows an error or a
  consumer's leaving; the end of the context ends the iterator.
- **Realtime.** The end of a `Recv`'s context may close the connection under the
  other calls, and several goroutines may close it. Correct: no frame is lost,
  repeated or reordered; control frames are never delivered; the connection is
  closed once and every `Close` has its result; every call returns.
- **Web demo.** Handlers fill and invalidate one cache while they overlap. Correct:
  the page of a generation shows no balance from before it.

## Modules

| Module | Models | State and actions |
|---|---|---|
| `Transport` | one call of `do` | `pc` is the place in the loop, `log` the attempts with their outcomes; `CheckContext`, `Send`, `TransportError`, `BodyReadError`, `Respond` follow the loop's body; the network, the context and the application (`Execute`, the attempts in `executed`) are the environment |
| `PartRanges` | the arithmetic of `multipartUploadParts` | operators only |
| `Multipart` | `uploadV3Multipart` and its goroutines | one counter for the caller, `part[p]` for each goroutine; `recordErr` and the cancel are two steps, as in the code |
| `AtomicUpload` | what an upload promises | abstract: an object that is absent or whole, and what follows for the caller |
| `Upload` | `upload` and the backends | `chain`, `file` and the request being made; one request is its preparation and its flight. `readBy` and `withSettings` record who has read the file whole, and who was asked to store with the settings |
| `Queue` | `Subscribe` and `Result` on a reattached handle | the caller, the jobs at the service, and another holder of the id |
| `TokenFile` | the default credentials provider | callers of several processes, `fileMu[p]`, the file, the token Auth0 honours; `os.WriteFile` is the truncation and then the writing |
| `MCTokenFile` | two callers of one process and one of another | gives `ProcessOf` its value |
| `TokenCache` | `v3TokenManager`, shared by the uploads of a client | `mutex`, `cached` and a clock; `Lock`, `Look`, the fetch and `Unlock` of every upload, and the use of its token |
| `Stream` | one call of `Stream` with `sseDecoder.next` | `sent` and `read` are the body as the service and the decoder know it, `decoded` the event being gathered; one turn of the decoder's loop is a step |
| `Realtime` | `Realtime`, then `Recv`, `Send` and `Close` by goroutines of their own | `conn` and `taken` for the WebSocket, `read` for what its `Read` has returned to a `Recv` that has not acted on it yet, `busy` and `ctxDone` for the calls, `once` and `closer` for `closeOnce` |
| `WebDemo` | the handlers of the demo with `accountState` | a place for each handler, `billingMu`, the cache; a balance is the set of the generations it includes |
| `MCCaches` | the two caches | for TLC: a behaviour is one of `TokenCache` or one of `WebDemo`, which have no state in common |
| `TransportProofs`, `MultipartProofs`, `TokenFileProofs`, `CacheProofs`, `QueueProofs`, `UploadProofs`, `StreamProofs`, `RealtimeProofs` | | theorems; `CacheProofs` holds those of `TokenCache` and `WebDemo`, which have no name in common so that it can extend both (as does `MCCaches`), `MultipartProofs` also those of `PartRanges` |

The modules compose by abstraction. `Transport` shows what a request with its
attempts amounts to: one outcome, at most one send after the end of the context.
`Multipart`, `Upload` and `Queue` use a request as a look at the context followed
by a flight with one outcome. Only `Queue`'s submit keeps its attempts, because a
repeated one can enqueue another job. `Multipart` implements `AtomicUpload`, and
`Upload` uses a multipart upload as one flight, which that justifies. `Upload` sees
the token cache as a mutex that another upload may hold (`tokenBusy`), and assumes of
it that it is released again and again; `TokenCache` shows that it is
(`TokenReturns`), and what `Upload` leaves open: whose token an upload is given.

Services are not under `src/`: the CDN, the queue, Auth0, `net/http`, the billing
service and the WebSocket library (which is not vendored) are modelled from how the
code uses them and are marked external in the map. What the models take for granted
of them:

- A 4xx, the retried 408, 409 and 429 among them, says that the request was not and will
  not be carried out, and an answer of the application comes after whatever it does
  (`Transport`). Everything else may be carried out while in flight or at any time
  after its loss, or after a gateway's answer.
- `GetBody` of a body in memory does not fail: the SDK sets no other, and so the error
  of `transport.go:59-61` is left out of `Send`.
- `Read` and `Write` of the WebSocket library end when the connection is closed or their
  context ends, and either may then close the connection. A `Read` of a connection that
  is already closed fails with an error that is no normal closure.
- The billing service charges a generation before it answers; the queue service
  keeps what has finished; Auth0 honours one refresh token at a time.

## Runs

| Run | Instance | Shows |
|---|---|---|
| `transport` | up to 3 attempts (the code makes up to 10); statuses 200, 429, 503, 504 | whole bodies, what may be carried out twice, the verdict, late sends, and that the call returns |
| `multipart` | 3 parts, the last short, 2 slots | bounded memory, join, cause of the error, completeness, `AtomicUpload` |
| `queue` | 2 attempts of submit, so up to 2 jobs | verdicts that agree with the job and the updates, abandonment, duplicates, and that the call returns |
| `upload` | fallback lists of up to 2 entries | the chain and its URL, who reads the file, lifecycle settings, and that the call returns |
| `token_file` | 2 callers of one process, 1 of another, one crash of each process | the login is kept and found, a refresh is shared, and that calls return |
| `caches` | 3 uploads, 2 instants; 3 handlers | one live token for all, and that no upload waits for ever; balances and counters on the pages of the demo |
| `stream` | 2 values, the empty one among them; bodies of up to 4 lines | events against a reference reading of the whole body, and the iterator's end |
| `realtime` | 2 closers, 2 frames of 4 kinds | frames in order, one close and what is left after it, and that every call returns |
| `transport_timeout` | as `transport`, 2 attempts | **violated**, see below |
| `upload_fallback` | as `upload`, 1 fallback | **violated**, see below |
| `upload_streaming` | as `upload`, 1 fallback | **violated**, see below |
| `queue_timeout` | as `queue`, 1 attempt | **violated**, see below |

Why these bounds are enough. `maxAttempts` is 10 in the code (`transport.go:16`). The
theorems about `Transport` cover every number of attempts, so that three bound only
TLC's runs: with three, every pair of consecutive outcomes occurs, an attempt is the
first, the last or neither, and one may be carried out during each of those after it.
That the call returns is checked for three and not proved: the loop does the same in
each of its rounds but for the count, so that a wait which one round can get stuck in
shows with three, but the run says nothing of ten by itself. Status 429 stands for 408
and 409, and 503 for 502: the code treats them alike. The two caches are explored in
one run, but never side by side: they belong to different programs. Two slots and
three parts are the least with a part that waits for a slot while one fails and
another is in flight. Two submit attempts give one duplicate. Two fallback entries
contain the primary, a repeat and an unknown name. Two callers contend for a mutex and
a third in another process does not; the numbers of refresh tokens need no bound, as a
call makes at most one exchange and a process crashes at most once. Three uploads are
one that fetches, one that waits for it and one that comes later; a token may expire
before the first instant, between the two or never, so that it is live at a look and
not at its use, and is fetched anew. Four lines hold two events, an event of two
values, one of empty data, comments between data, and an end in each of these. Two
frames show a loss, a repetition and a reversal, two closers a close that has to wait.
Three handlers are a generation, one that overlaps with it, and one whose fetch is
between.

`TypeOK` of `Transport` also bounds the attempt: the line after the loop that the
code calls unreachable is so. Those of `Upload` and `Stream` say that no file and no
body stays open, that of `Realtime` that every `Close` that has returned found the
connection closed and has the result of the one close there was, and those of the
two token modules that the mutex belongs to the caller that is past its lock.

Four runs show that the code does something else than a comment or the README says:

- `transport_timeout`: `src/README.md:287-288` says that responses that carry a
  user-configured timeout are never retried. The code looks at that header of a 504
  only (`transport.go:125`), as the comments there and in `headers.go:9-11` say: a 429,
  or a 502 or 503 of the ingress proxy, that carries it is retried like any other.
- `upload_fallback`: `ensureReplayableBody` closes what it has buffered, which for
  `UploadFile` is the file itself (`transport.go:109`). When the v3 single request
  or the legacy PUT fails, the next backend finds the file closed and fails
  without a request. `WithFallback` and `upload` say that it is tried.
- `upload_streaming`: a large file becomes one buffered body on every path but a
  primary v3 multipart upload (`transport.go:108`); the comment on `UploadFile` and
  the README say that it is never loaded into memory in full.
- `queue_timeout`: a context that ends after the job was seen completed ends
  `Subscribe` with the bare context error (`queue.go:303`), and not with the
  `TimeoutError` its comment promises for any end after the submission.

## Fairness

Goroutines run: the client's own steps are weakly fair, each goroutine's by itself
in `Multipart` and each caller's in `TokenFile`. A request in flight ends once its
context has ended, as `net/http` cancels it; nothing else is assumed of the
network. Hence the properties `CallReturns` have two halves: a call returns when its
context ends, and without that when no request stays in flight for ever (and, in
`Queue`, when jobs finish). An exchange with Auth0 is over after
`auth0RefreshTimeout`, so `TokenFile` counts its end among the caller's steps; the
best-effort cancel of `Queue` has a timeout of its own as well.

A `sync.Mutex` starves no one, so that a goroutine which can take it again and again
takes it in the end: the callers of `TokenCache`, and `Upload`'s for its token, are
strongly fair. `Upload`'s liveness is under the condition that the mutex is free again and
again, which `TokenReturns` shows for contexts that end or fetches that do not hang. In
`Stream` the consumer comes back from its loop body. In `Realtime` the WebSocket library
ends a read or a write whose context has ended or whose connection is closed, and its
own `Close`, which bounds the handshake; the dial has a timeout of its own. Nothing
is assumed of the service there.

## Proofs

Each proof module is checked by TLAPS from nothing, for all values of the
constants, from these assumptions: `MaxAttempts` is positive; `Status` holds natural
numbers; the size is a natural number, the part size a positive one, the
concurrency a natural number (values below one are raised to one, as in the code);
`ProcessOf` maps callers to processes; the marks for a free mutex are no callers,
uploads or handlers; the clock's last instant is positive; the bound of the
fallback list is a natural number.

- **`TransportProofs`**: all five safety properties of the run. What the log says is
  inductive only together with its length, which follows the attempt and the place in
  the loop (`LogGrowth`), with where the body is (`BodyState`: replayable as soon as
  the loop has begun), and with the fact that all earlier attempts were transient
  (`Passed`). That a request runs twice only unanswered combines the last with what is
  never carried out (`Runs`): of two attempts carried out the earlier was transient,
  and so answered by a gateway or not at all. A late attempt needs `LateState`, as the
  call looks at the context again before the next.
- **`MultipartProofs`**: all safety properties, and the refinement. The inductive
  invariant has one conjunct per concern: `Counts` (the semaphore and the wait group
  count the goroutines between two of their steps), `Scheduling` (parts start in
  order, the loop stops early only on an ended context), `Blame` (a cancellation
  before a recorded error is the caller's), `Collected` (a goroutine that is through
  has filled its cell or an error is recorded) and `Completion`. An empty `firstErr`
  after the join then does not yet mean that all parts are there, as the loop may have
  been cut short; the look at the context in `complete` is what makes it so.
  `LateParts` bounds the parts that are sent late by those that can still be sent,
  which held a token when the context ended (`Sendable`): none joins them afterwards,
  and a part that calls the others off holds a token itself. The refinement uses
  `PartsTileObject` for the object being whole: from the division theorem it follows
  that every byte has a part, and that the parts are disjoint because their offsets
  grow by the part size. `UrlIsFinal` is what the abstract upload promises, carried
  over by the refinement.
- **`TokenFileProofs`**: `LoginKept`, `LoginFound` and `RefreshShared`. As long as
  nothing has gone wrong, at most one caller refreshes (`Exclusive`): those of its
  process wait for the mutex, and one of another process that read meanwhile would be
  a mishap. That caller holds the token Auth0 honours, even while the file is
  truncated (`Kept`). That it has found no fresh token, and that the file gets none
  before its request is over, needs only that no two processes overlap
  (`AloneInFlight`): lost answers, failed writes and crashes do not make a caller
  refresh what another one has just stored.
- **`CacheProofs`**, token cache: `OneLiveToken`. A fetch is under way only for the
  owner of the mutex, cache and callers hold at most one token each (`Single`), and
  for as long as it lasts nothing in the cache is live (`FetchJustified`: what had
  expired stays expired as the clock never goes back). The token that comes in is then
  the only live one.
- **`QueueProofs`**: the four safety properties. `Places` ties the place in the call
  to the id and the status it holds; `Told` says that the last update is the status
  the call has acted on; `Truth` that a status said to be final is still the job's, as
  finished jobs stay finished and only a running or waiting one is cancelled;
  `Verdict` and `Abandoning` follow the answer and the cancel to the return (a call
  that ends with the context's own error has no job, or one that its last update said
  was over); `Origins` explains every job as the caller's own or as one whose answer
  was lost or hidden.
- **`UploadProofs`**: the four safety properties, for fallback lists of any length.
  `Walking` says where the call is in the list without repeats, which has at most two
  entries as there are two backends: `DedupShape` and `DedupPrefix` derive that from a
  definition by the rank of first occurrences. `Content` says where a closed file
  leaves the call, and `Reading` that whoever has read the file as a whole has closed
  it, and is the one backend that hands it to `do` or returns a URL for it. `Refusing`
  says that an object is created with its settings before it is stored.
- **`CacheProofs`**, web demo: `PageShowsItsCharge`. A handler that has invalidated
  the cache finds nothing there, and nothing in the hands of a handler that has
  already read the service's answer, that lacks its generation (`Fresh`): the
  invalidation takes the mutex, so no fetch is between its answer and the cache at
  that moment. `Aged` says that the first balance is the oldest.
- **`StreamProofs`**: `EventsAreWhole`, and the first part of `EndsOnceAndInTime`
  (`EndsOnce`). The meaning of a body is stated without a recursion: an event is a
  blank line with data between it and the blank line before, and a sequence lists a
  set when it holds its elements once and in order. What one more line changes in it
  is proved once (`DataBeforeNext`, `EventEndsGrow`), and what it adds to the values
  gathered and to the items given (`CarriesMore`, `EventGiven`, `EventsOn`). The
  invariant is then that the decoder has gathered the data since the last blank line
  (`Gathered`), that what the consumer has been given, with the item in the iterator's
  hands, is the events of the lines read (`Decoding`), and that only an error, the
  consumer or the end of a body read whole ends the iterator (`Ending`). The length of
  the body is not bounded by anything the proof uses.
- **`RealtimeProofs`**: `RecvInOrder`, `ClosedForGood`, and the type invariant with
  its part about any number of concurrent closers. `Closing` says that one goroutine
  runs the function of `closeOnce`, that the connection is closed when it has, and
  that its result does not change any more; `Opening` that nothing is called before
  there is a connection; `InHand` that a frame `Read` has returned is the last one
  taken, and that a normal closure was the service's or the answer to our own. A
  `Recv` in another goroutine acts on what `Read` returned to it at any later time,
  after a `Close` as well: it may then still return that frame, or `io.EOF` if `Read`
  met the close frame. `CloseIsFinal` says that nothing else comes of the connection:
  no frame is taken after the close, and any other `Recv` fails with an error that is
  not the end of the stream.

Only model-checked: the liveness properties, as fairness is beyond the prover (they are
the properties `CallReturns`, `CallsReturn`, `TokenReturns` and the rest of
`EndsOnceAndInTime`). Every invariant and every other action property of a passing run is
a theorem, and so is the refinement. That a history variable such as `mishaps` records
what it should is by definition.

## Not modelled

- **Application ids** (`appid.go`), **errors** and **encoding**: pure functions of
  short strings and bytes, with unit tests for each form. The models keep what a
  caller sees of them: a request that cannot be built, which kind of error is
  returned, settings that are refused.
- **Headers, options, the version, start-up of the examples, rendering and wording**:
  no state, and no order that could go wrong.
- **Roundings of durations**: a lifetime below half a second is refused
  (`storage.go:618`) and a token's lifetime below one becomes zero
  (`realtime.go:188`). The models keep whether the settings are accepted.
- **Web demo**: what units a request cost is one set for all models. The first balance
  may be fetched after a first generation, which the spending since the start then
  leaves out (`main.go:310`): the property is about the difference of the two balances.
  The page shows that difference only when it is positive (`main.go:275`); `Render`
  keeps both balances always, which makes the property stricter than the page.
- Within the modelled parts: the length and jitter of the back-off, the content of
  messages, the form of a JWT (a token is fresh or stale), partial writes of the
  token file other than its truncation, the field name of a line of server-sent
  events, and the encodings of a frame (a frame is what `Recv` makes of it).

## Plan

What was planned and is done: the transport, multipart uploads with their refinement,
the queue, the upload chain, the token file, the token cache, streaming, realtime and
the web demo, and the theorems above, which cover all safety properties of the passing
runs. Left, most important first:

1. An abstract specification of a cache under a mutex, which both `TokenCache` and
   `WebDemo` implement, with the part of their proofs that is the same.
2. The roundings as numeric operators, and the application ids over sequences of
   segments, if either gains a second user in the code.

------------------------------ MODULE TokenCache ------------------------------
(***************************************************************************)
(* The v3 token cache of one client (storage.go: v3TokenManager).  Every   *)
(* v3 upload calls token first: it takes the manager's mutex, without a    *)
(* look at its context, returns the cached token if that has not expired,  *)
(* and fetches a new one otherwise, with the mutex held and with its own   *)
(* context.  The fetch is one flight here, with all its attempts (module   *)
(* Transport).  A token may expire between the look at it and its use.     *)
(***************************************************************************)
EXTENDS Naturals, FiniteSets

CONSTANTS
  Uploads,   \* the v3 uploads, each of which calls token once
  NoUpload,  \* no one: the owner of a free mutex
  MaxTime    \* the last instant of the clock

ASSUME UploadsAssumption == NoUpload \notin Uploads
ASSUME MaxTimeAssumption == MaxTime \in Nat \ {0}

VARIABLES
  pc,        \* where each upload is
  ctxDone,   \* its context has ended
  mutex,     \* the owner of mu, or NoUpload
  cached,    \* the set of at most one token that stands for m.cached
  got,       \* the token its call has returned or is about to return, as a set
  now,       \* the clock, the client's and the service's
  issued,    \* history: the tokens fetched
  lookedAt   \* history: the time at which each upload looked at the cache

vars == <<pc, ctxDone, mutex, cached, got, now, issued, lookedAt>>

\* The instants; the zero time is before all those of the clock.
Time == 1 .. MaxTime
Expiry == 0 .. MaxTime + 1

\* A token carries the upload that fetched it, which tells it from the others.
Token == [by : Uploads, expiresAt : Expiry]

Live(token) == now < token.expiresAt

\* The places in a call of token.
Calling == {"lock", "look", "fetch", "flight", "unlock"}
Holding == Calling \ {"lock"}

Init ==
  /\ pc = [u \in Uploads |-> "idle"]
  /\ ctxDone = [u \in Uploads |-> FALSE]
  /\ mutex = NoUpload /\ cached = {} /\ got = [u \in Uploads |-> {}]
  /\ now = 1 /\ issued = {} /\ lookedAt = [u \in Uploads |-> 0]

Goto(u, place) == pc' = [pc EXCEPT ![u] = place]

\* uploadV3 begins with the token.
Call(u) ==
  /\ pc[u] = "idle"
  /\ Goto(u, "lock")
  /\ UNCHANGED <<ctxDone, mutex, cached, got, now, issued, lookedAt>>

Lock_Ignored(u) ==
  /\ pc[u] = "lock"
  /\ mutex' = u
  /\ Goto(u, "look")
  /\ UNCHANGED <<ctxDone, cached, got, now, issued, lookedAt>>

Lock(u) ==
  /\ pc[u] = "lock"
  /\ mutex = NoUpload
  /\ mutex' = u
  /\ Goto(u, "look")
  /\ UNCHANGED <<ctxDone, cached, got, now, issued, lookedAt>>

\* What of the cache is returned without a fetch.
Usable == {token \in cached : Live(token)}

Look(u) ==
  /\ pc[u] = "look"
  /\ lookedAt' = [lookedAt EXCEPT ![u] = now]
  /\ got' = [got EXCEPT ![u] = Usable]
  /\ Goto(u, IF Usable = {} THEN "fetch" ELSE "unlock")
  /\ UNCHANGED <<ctxDone, mutex, cached, now, issued>>

\* newRequest without credentials, or do's look at the context.
FetchRefused(u) ==
  /\ pc[u] = "fetch"
  /\ Goto(u, "unlock")
  /\ UNCHANGED <<ctxDone, mutex, cached, got, now, issued, lookedAt>>

FetchBegins_Unlocked(u) ==
  /\ pc[u] = "fetch" /\ ~ctxDone[u]
  /\ Goto(u, "flight")
  /\ mutex' = NoUpload
  /\ UNCHANGED <<ctxDone, cached, got, now, issued, lookedAt>>

FetchBegins(u) ==
  /\ pc[u] = "fetch" /\ ~ctxDone[u]
  /\ Goto(u, "flight")
  /\ UNCHANGED <<ctxDone, mutex, cached, got, now, issued, lookedAt>>

FetchFails_Gone(u) ==
  /\ pc[u] = "flight"
  /\ Goto(u, "failed")
  /\ UNCHANGED <<ctxDone, mutex, cached, got, now, issued, lookedAt>>

\* No answer, an error status, or an answer without a token, a base URL or an
\* expiry that can be read.  The cache keeps what it has.
FetchFails(u) ==
  /\ pc[u] = "flight"
  /\ Goto(u, "unlock")
  /\ UNCHANGED <<ctxDone, mutex, cached, got, now, issued, lookedAt>>

\* The answer's expiry is used as it stands: none at all is the zero time, and
\* one that has passed is no error either.
Fetched(u) ==
  \E expiresAt \in Expiry :
    LET token == [by |-> u, expiresAt |-> expiresAt] IN
    /\ pc[u] = "flight"
    /\ cached' = {token} /\ issued' = issued \cup {token}
    /\ got' = [got EXCEPT ![u] = {token}]
    /\ Goto(u, "unlock")
    /\ UNCHANGED <<ctxDone, mutex, now, lookedAt>>

\* The deferred Unlock, and the return of the token or of the error.
Unlock(u) ==
  /\ pc[u] = "unlock"
  /\ mutex' = NoUpload
  /\ Goto(u, IF got[u] = {} THEN "failed" ELSE "send")
  /\ UNCHANGED <<ctxDone, cached, got, now, issued, lookedAt>>

\* The requests of the upload: the service takes the token while it is live.
Send(u) ==
  /\ pc[u] = "send"
  /\ Goto(u, IF \A token \in got[u] : Live(token) THEN "accepted" ELSE "rejected")
  /\ UNCHANGED <<ctxDone, mutex, cached, got, now, issued, lookedAt>>

ContextEnds(u) ==
  /\ ~ctxDone[u]
  /\ ctxDone' = [ctxDone EXCEPT ![u] = TRUE]
  /\ UNCHANGED <<pc, mutex, cached, got, now, issued, lookedAt>>

Tick ==
  /\ now < MaxTime
  /\ now' = now + 1
  /\ UNCHANGED <<pc, ctxDone, mutex, cached, got, issued, lookedAt>>

Finished == {"failed", "accepted", "rejected"}
AllDone ==
  /\ \A u \in Uploads : pc[u] \in Finished
  /\ UNCHANGED vars

Caller(u) == Lock(u) \/ Look(u) \/ FetchRefused(u) \/ FetchBegins(u) \/ Unlock(u)
Flight(u) == FetchFails(u) \/ Fetched(u)

Next ==
  \/ \E u \in Uploads : Call(u) \/ Caller(u) \/ Flight(u) \/ Send(u)
                        \/ ContextEnds(u)
  \/ Tick
  \/ AllDone

\* A goroutine runs, and gets the mutex in the end (sync.Mutex starves no one);
\* a flight whose own context has ended is given up.
Fairness ==
  \A u \in Uploads : SF_vars(Caller(u)) /\ WF_vars(ctxDone[u] /\ Flight(u))

Spec == Init /\ [][Next]_vars /\ Fairness

-----------------------------------------------------------------------------
(* Properties. *)

\* The type invariant, with the mutex owned by whoever is past Lock.
TypeOK ==
  /\ pc \in [Uploads -> Calling \cup Finished \cup {"idle", "send"}]
  /\ ctxDone \in [Uploads -> BOOLEAN]
  /\ mutex \in Uploads \cup {NoUpload}
  /\ \A u \in Uploads : pc[u] \in Holding <=> mutex = u
  /\ issued \subseteq Token /\ cached \subseteq issued
  /\ got \in [Uploads -> SUBSET issued]
  /\ now \in Time /\ lookedAt \in [Uploads -> 0 .. now]

\* The comment on token says that it returns a valid token, and that concurrent
\* callers share a single one.  Of all the tokens ever fetched at most one is
\* live, and a live one is in the cache, whoever fetches, fails or gives up in
\* between; and a token reaches an upload that did not fetch it only if it was
\* live when that upload looked: the service rejects it then only if it has
\* expired since.
OneLiveToken ==
  /\ \A token \in issued : Live(token) => cached = {token}
  /\ \A u \in Uploads : \A token \in got[u] :
       token.by # u => /\ lookedAt[u] < token.expiresAt
                       /\ pc[u] = "rejected" => ~Live(token)

\* An upload whose own context has ended still waits for the fetch of another
\* one, but no wait is for ever: token returns to every caller once the contexts
\* of all have ended, and without that if no fetch stays in flight for ever.
TokenReturns ==
  /\ (\A v \in Uploads : ctxDone[v]) ~> (\A u \in Uploads : pc[u] \notin Calling)
  /\ (\A v \in Uploads : []<>(pc[v] # "flight"))
       => \A u \in Uploads : pc[u] = "lock" ~> pc[u] \notin Calling
=============================================================================

-------------------------------- MODULE WebDemo --------------------------------
(***************************************************************************)
(* The web demo (examples/webdemo): handlers that run a model and render a *)
(* page with the account's balance.  The balance is cached for a while     *)
(* under billingMu, which is held over the fetch; a generation invalidates *)
(* it.  A balance is kept as the set of the generations it includes: the   *)
(* billing service is taken to charge a generation before it answers.      *)
(* What may be missing is a set of at most one balance.                    *)
(* The names differ from those of TokenCache: two modules extend both.     *)
(***************************************************************************)
EXTENDS Naturals, FiniteSets

CONSTANTS
  Handlers,  \* the requests to the server, each served by one goroutine
  Nobody     \* the owner of a free mutex

ASSUME NobodyAssumption == Nobody \notin Handlers

VARIABLES
  stage,     \* where each handler is
  succeeded, \* the handlers whose Run has succeeded
  requests,  \* s.stats.Requests, as the set of the generations it counts
  units,     \* s.stats.Units, as the set of the generations whose units it holds
  billingMu, \* its owner
  fresh,     \* billingWhen is less than billingCacheTTL ago
  answer,    \* what a handler's fetch has read
  billing,   \* s.billing: a balance, or none if its fetch has failed
  initial,   \* s.initialBalance
  charged,   \* the generations the service has charged
  page       \* what each handler shows of these

stats == <<requests, units>>
cache == <<fresh, billing, initial>>
demoVars == <<stage, succeeded, stats, billingMu, cache, answer, charged, page>>

NoPage == [requests |-> {}, units |-> {}, balance |-> {}, initial |-> {}]

DemoInit ==
  /\ stage = [h \in Handlers |-> "form"]
  /\ succeeded = {} /\ requests = {} /\ units = {}
  /\ billingMu = Nobody /\ fresh = FALSE /\ billing = {} /\ initial = {}
  /\ answer = [h \in Handlers |-> {}]
  /\ charged = {} /\ page = [h \in Handlers |-> NoPage]

Enter(h, place) == stage' = [stage EXCEPT ![h] = place]

\* index, or a form without a prompt.
ShowForm(h) ==
  /\ stage[h] = "form"
  /\ Enter(h, "shared")
  /\ UNCHANGED <<succeeded, stats, billingMu, cache, answer, charged, page>>

-----------------------------------------------------------------------------
(* generate. *)

Run(h) ==
  /\ stage[h] = "form"
  /\ Enter(h, "run")
  /\ UNCHANGED <<succeeded, stats, billingMu, cache, answer, charged, page>>

Charge(h) ==
  /\ stage[h] = "run" /\ h \notin charged
  /\ charged' = charged \cup {h}
  /\ UNCHANGED <<stage, succeeded, stats, billingMu, cache, answer, page>>

RunSucceeds(h) ==
  /\ stage[h] = "run" /\ h \in charged
  /\ succeeded' = succeeded \cup {h}
  /\ Enter(h, "count")
  /\ UNCHANGED <<stats, billingMu, cache, answer, charged, page>>

\* An error, or runTimeout: the page says so, with the balance in the cache.
RunFails(h) ==
  /\ stage[h] = "run"
  /\ Enter(h, "shared")
  /\ UNCHANGED <<succeeded, stats, billingMu, cache, answer, charged, page>>

\* captureTransport has seen a header with the units of some attempt, or not.
Captured(h) == {{}, {h}}

\* Under mu.
Count(h) ==
  /\ stage[h] = "count"
  /\ requests' = requests \cup {h}
  /\ \E captured \in Captured(h) : units' = units \cup captured
  /\ Enter(h, "invalidate")
  /\ UNCHANGED <<succeeded, billingMu, cache, answer, charged, page>>

\* The lock, the reset of billingWhen and the unlock.
Invalidate(h) ==
  /\ stage[h] = "invalidate" /\ billingMu = Nobody
  /\ fresh' = FALSE
  /\ Enter(h, "shared")
  /\ UNCHANGED <<succeeded, stats, billingMu, billing, initial, answer, charged, page>>

-----------------------------------------------------------------------------
(* withShared and accountState. *)

ReadStats(h) ==
  /\ stage[h] = "shared"
  /\ page' = [page EXCEPT ![h].requests = requests, ![h].units = units]
  /\ Enter(h, "account")
  /\ UNCHANGED <<succeeded, stats, billingMu, cache, answer, charged>>

LockBilling_Released(h) ==
  /\ stage[h] = "account" /\ billingMu = Nobody
  /\ fresh' = TRUE
  /\ Enter(h, IF fresh THEN "cached" ELSE "fetch")
  /\ UNCHANGED <<succeeded, stats, billingMu, billing, initial, answer, charged, page>>

\* billingWhen is set before the fetch.
LockBilling(h) ==
  /\ stage[h] = "account" /\ billingMu = Nobody
  /\ billingMu' = h
  /\ fresh' = TRUE
  /\ Enter(h, IF fresh THEN "cached" ELSE "fetch")
  /\ UNCHANGED <<succeeded, stats, billing, initial, answer, charged, page>>

\* The service answers the first request of the fetch with what it knows then,
\* or the request fails or times out.
ReadBalance(h) ==
  /\ stage[h] = "fetch"
  /\ answer' = [answer EXCEPT ![h] = {charged}] \/ UNCHANGED answer
  /\ Enter(h, "store")
  /\ UNCHANGED <<succeeded, stats, billingMu, cache, charged, page>>

\* The second request is over; the first balance ever is kept.
StoreBalance(h) ==
  /\ stage[h] = "store"
  /\ billing' = answer[h]
  /\ initial' = IF initial = {} THEN answer[h] ELSE initial
  /\ Enter(h, "cached")
  /\ UNCHANGED <<succeeded, stats, billingMu, fresh, answer, charged, page>>

\* The return, with the deferred Unlock, and the rest of the rendering.  The page
\* leaves a difference out that is not positive; the two balances are kept here.
Render(h) ==
  /\ stage[h] = "cached"
  /\ page' = [page EXCEPT ![h].balance = billing, ![h].initial = initial]
  /\ billingMu' = Nobody
  /\ Enter(h, "done")
  /\ UNCHANGED <<succeeded, stats, cache, answer, charged>>

\* The fetch is bounded by two timeouts of 10 s, which is less than the TTL.
CacheExpires ==
  /\ fresh /\ billingMu = Nobody
  /\ fresh' = FALSE
  /\ UNCHANGED <<stage, succeeded, stats, billingMu, billing, initial, answer, charged, page>>

AllServed == (\A h \in Handlers : stage[h] = "done") /\ UNCHANGED demoVars

DemoNext ==
  \/ \E h \in Handlers :
       \/ ShowForm(h) \/ Run(h) \/ Charge(h) \/ RunSucceeds(h) \/ RunFails(h)
       \/ Count(h) \/ Invalidate(h) \/ ReadStats(h) \/ LockBilling(h) \/ ReadBalance(h)
       \/ StoreBalance(h) \/ Render(h)
  \/ CacheExpires
  \/ AllServed

DemoSpec == DemoInit /\ [][DemoNext]_demoVars

-----------------------------------------------------------------------------
(* Properties. *)

\* The page of a successful generation counts that generation, and its balance,
\* if there is one, is one after its charge, however the fetches of other handlers
\* overlap with it.  The first balance is never younger than the one shown: the
\* difference of the two, the spending since the start, is what was charged in
\* between and never negative.  Units are shown of requests that are counted too.
PageShowsItsCharge ==
  \A h \in Handlers : stage[h] = "done" =>
    /\ h \in succeeded =>
         /\ h \in page[h].requests
         /\ \A balance \in page[h].balance : h \in balance
    /\ \A balance \in page[h].balance :
         \E first \in page[h].initial : first \subseteq balance
    /\ page[h].units \subseteq page[h].requests
=============================================================================

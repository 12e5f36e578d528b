------------------------------ MODULE CacheProofs ------------------------------
(***************************************************************************)
(* The two caches that goroutines share under a mutex which is held while  *)
(* they are filled: the token of the v3 storage, for any number of uploads *)
(* and any length of time, and the balance of the web demo, for any number *)
(* of requests.  The two have no state in common.                          *)
(***************************************************************************)
EXTENDS TokenCache, WebDemo, TLAPS

-----------------------------------------------------------------------------
(* The token cache. *)

\* There is at most one token in the cache, and in the hands of an upload.
Single ==
  /\ \A t1, t2 \in cached : t1 = t2
  /\ \A u \in Uploads : \A t1, t2 \in got[u] : t1 = t2

\* A fetch is under way only if what is cached has expired.
FetchJustified ==
  \A u \in Uploads : pc[u] \in {"fetch", "flight"} => \A token \in cached : ~Live(token)

\* Nobody has a token before looking for one.
NothingYet ==
  \A u \in Uploads : pc[u] \in {"idle", "lock", "look"} => got[u] = {}

Inv == TypeOK /\ Single /\ FetchJustified /\ NothingYet /\ OneLiveToken

-----------------------------------------------------------------------------
\* The initial state satisfies the invariant.
LEMMA InitInv == Init => Inv
  BY MaxTimeAssumption, UploadsAssumption
  DEF Init, Inv, TypeOK, Single, FetchJustified, NothingYet, OneLiveToken, Live,
      Calling, Holding, Finished, Token, Time, Expiry

\* The steps that only move one upload between places where the mutex is not
\* held, or where it is held before and after.
LEMMA MoveInv ==
  ASSUME Inv, NEW u \in Uploads, NEW place \in Calling \cup Finished \cup {"send"},
         Goto(u, place), UNCHANGED <<mutex, cached, got, now, issued, lookedAt>>,
         ctxDone' \in [Uploads -> BOOLEAN],
         pc[u] \in Holding <=> place \in Holding,
         place \in {"fetch", "flight"} => pc[u] \in {"fetch", "flight"},
         place \in {"idle", "lock", "look"} => pc[u] \in {"idle", "lock", "look"},
         place = "rejected" => \A token \in got[u] : ~Live(token)
  PROVE  Inv'
<1>1. TypeOK'
  BY DEF Inv, TypeOK, Goto
<1>2. Single'
  BY DEF Inv, Single
<1>3. FetchJustified' /\ NothingYet'
  BY DEF Inv, TypeOK, FetchJustified, NothingYet, Goto, Live
<1>4. OneLiveToken'
  BY DEF Inv, TypeOK, OneLiveToken, Goto, Live
<1> QED BY <1>1, <1>2, <1>3, <1>4 DEF Inv

\* The steps that keep the invariant by MoveInv.
LEMMA MovesInv ==
  ASSUME Inv, NEW u \in Uploads,
         \/ Call(u) \/ FetchRefused(u) \/ FetchBegins(u) \/ FetchFails(u) \/ Send(u)
  PROVE  Inv'
<1>0. pc[u] \in Calling \cup Finished \cup {"idle", "send"} /\ ctxDone \in [Uploads -> BOOLEAN]
  BY DEF Inv, TypeOK
<1>1. CASE Call(u)
  <2>1. Goto(u, "lock") /\ pc[u] = "idle"
    BY <1>1 DEF Call
  <2> QED BY <1>0, <1>1, <2>1, MoveInv DEF Call, Calling, Holding
<1>2. CASE FetchRefused(u)
  <2>1. Goto(u, "unlock") /\ pc[u] = "fetch"
    BY <1>2 DEF FetchRefused
  <2> QED BY <1>0, <1>2, <2>1, MoveInv DEF FetchRefused, Calling, Holding
<1>3. CASE FetchBegins(u)
  <2>1. Goto(u, "flight") /\ pc[u] = "fetch"
    BY <1>3 DEF FetchBegins
  <2> QED BY <1>0, <1>3, <2>1, MoveInv DEF FetchBegins, Calling, Holding
<1>4. CASE FetchFails(u)
  <2>1. Goto(u, "unlock") /\ pc[u] = "flight"
    BY <1>4 DEF FetchFails
  <2> QED BY <1>0, <1>4, <2>1, MoveInv DEF FetchFails, Calling, Holding
<1>5. CASE Send(u)
  <2> DEFINE place == IF \A token \in got[u] : Live(token) THEN "accepted" ELSE "rejected"
  <2>1. Goto(u, place) /\ pc[u] = "send"
    BY <1>5 DEF Send
  <2>2. place \in Finished /\ place \notin Calling \cup {"idle"}
    BY DEF Finished, Calling
  <2>3. place = "rejected" => \A token \in got[u] : ~Live(token)
    BY DEF Inv, Single
  <2>4. UNCHANGED <<ctxDone, mutex, cached, got, now, issued, lookedAt>>
    BY <1>5 DEF Send
  <2> HIDE DEF place
  <2> QED BY <1>0, <2>1, <2>2, <2>3, <2>4, MoveInv DEF Calling, Holding
<1> QED BY <1>1, <1>2, <1>3, <1>4, <1>5

\* Taking the mutex, which nobody holds.
LEMMA LockInv ==
  ASSUME Inv, NEW u \in Uploads, Lock(u)
  PROVE  Inv'
<1>1. TypeOK'
  BY UploadsAssumption DEF Inv, TypeOK, Lock, Goto, Holding, Calling
<1>2. Single' /\ FetchJustified' /\ NothingYet' /\ OneLiveToken'
  BY DEF Inv, TypeOK, Single, FetchJustified, NothingYet, OneLiveToken, Lock, Goto, Live
<1> QED BY <1>1, <1>2 DEF Inv

\* Giving it back.
LEMMA UnlockInv ==
  ASSUME Inv, NEW u \in Uploads, Unlock(u)
  PROVE  Inv'
<1>1. TypeOK'
  BY UploadsAssumption DEF Inv, TypeOK, Unlock, Goto, Holding, Calling, Finished
<1>2. Single' /\ FetchJustified' /\ NothingYet' /\ OneLiveToken'
  BY DEF Inv, TypeOK, Single, FetchJustified, NothingYet, OneLiveToken, Unlock, Goto, Live
<1> QED BY <1>1, <1>2 DEF Inv

\* The look at the cache: what it takes is live at that time, and what makes it
\* fetch is not.
LEMMA LookInv ==
  ASSUME Inv, NEW u \in Uploads, Look(u)
  PROVE  Inv'
<1> DEFINE place == IF Usable = {} THEN "fetch" ELSE "unlock"
<1>1. /\ pc[u] = "look" /\ pc' = [pc EXCEPT ![u] = place]
      /\ lookedAt' = [lookedAt EXCEPT ![u] = now] /\ got' = [got EXCEPT ![u] = Usable]
      /\ UNCHANGED <<ctxDone, mutex, cached, now, issued>>
  BY DEF Look, Goto
<1>2. place \in {"fetch", "unlock"} /\ (place = "fetch" => Usable = {})
  OBVIOUS
<1>3. Usable \subseteq cached /\ \A token \in Usable : Live(token)
  BY DEF Usable
<1>4. \A token \in cached \ Usable : ~Live(token)
  BY DEF Usable
<1> HIDE DEF place
<1>5. TypeOK'
  BY <1>1, <1>2, <1>3 DEF Inv, TypeOK, Holding, Calling, Time
<1>6. Single' /\ NothingYet'
  BY <1>1, <1>2, <1>3 DEF Inv, TypeOK, Single, NothingYet
<1>7. FetchJustified'
  BY <1>1, <1>2, <1>4 DEF Inv, TypeOK, FetchJustified, Live
<1>8. OneLiveToken'
  BY <1>1, <1>2, <1>3 DEF Inv, TypeOK, OneLiveToken, Live
<1> QED BY <1>5, <1>6, <1>7, <1>8 DEF Inv

\* A fetched token replaces one that has expired, and with the mutex held it
\* replaces it under no other fetch.
LEMMA FetchedInv ==
  ASSUME Inv, NEW u \in Uploads, Fetched(u)
  PROVE  Inv'
<1>1. PICK expiresAt \in Expiry :
        LET token == [by |-> u, expiresAt |-> expiresAt] IN
        /\ cached' = {token} /\ issued' = issued \cup {token}
        /\ got' = [got EXCEPT ![u] = {token}]
  BY DEF Fetched
<1> DEFINE new == [by |-> u, expiresAt |-> expiresAt]
<1>2. /\ pc[u] = "flight" /\ pc' = [pc EXCEPT ![u] = "unlock"]
      /\ UNCHANGED <<ctxDone, mutex, now, lookedAt>>
      /\ cached' = {new} /\ issued' = issued \cup {new} /\ got' = [got EXCEPT ![u] = {new}]
  BY <1>1 DEF Fetched, Goto
<1>3. new \in Token /\ new.by = u
  BY DEF Token
<1> HIDE DEF new
<1>4. \A token \in issued : ~Live(token)
  BY <1>2 DEF Inv, FetchJustified, OneLiveToken
<1>5. \A v \in Uploads \ {u} : pc[v] \notin {"fetch", "flight"}
  BY <1>2 DEF Inv, TypeOK, Holding, Calling
<1>6. TypeOK'
  BY <1>2, <1>3 DEF Inv, TypeOK, Holding, Calling
<1>7. Single' /\ NothingYet'
  BY <1>2 DEF Inv, TypeOK, Single, NothingYet
<1>8. FetchJustified'
  BY <1>2, <1>5 DEF Inv, TypeOK, FetchJustified
<1>9. OneLiveToken'
  BY <1>2, <1>3, <1>4 DEF Inv, TypeOK, OneLiveToken, Live
<1> QED BY <1>6, <1>7, <1>8, <1>9 DEF Inv

\* Contexts end and time passes: a token that has expired stays so.
LEMMA ContextEndsInv ==
  ASSUME Inv, NEW u \in Uploads, ContextEnds(u)
  PROVE  Inv'
BY DEF ContextEnds, Inv, TypeOK, Single, FetchJustified, NothingYet, OneLiveToken, Live

LEMMA TickInv ==
  ASSUME Inv, Tick
  PROVE  Inv'
<1>0. now \in Nat /\ now' \in Time /\ now' = now + 1
  BY MaxTimeAssumption DEF Inv, TypeOK, Time, Tick
<1>1. \A token \in issued : token.expiresAt \in Nat
  BY MaxTimeAssumption DEF Inv, TypeOK, Token, Expiry
<1>2. \A token \in issued : Live(token)' => Live(token)
  BY <1>0, <1>1 DEF Live
<1>3. TypeOK'
  BY <1>0 DEF Inv, TypeOK, Tick
<1>4. Single' /\ FetchJustified' /\ NothingYet' /\ OneLiveToken'
  BY <1>2 DEF Inv, TypeOK, Single, FetchJustified, NothingYet, OneLiveToken, Tick
<1> QED BY <1>3, <1>4 DEF Inv

\* Every step keeps the invariant.
LEMMA NextInv ==
  ASSUME Inv, [Next]_vars
  PROVE  Inv'
<1>1. ASSUME NEW u \in Uploads, Call(u) \/ Caller(u) \/ Flight(u) \/ Send(u) \/ ContextEnds(u)
      PROVE  Inv'
  BY <1>1, MovesInv, LockInv, UnlockInv, LookInv, FetchedInv, ContextEndsInv
  DEF Caller, Flight
<1>2. CASE Tick
  BY <1>2, TickInv
<1>3. CASE UNCHANGED vars
  BY <1>3 DEF vars, Inv, TypeOK, Single, FetchJustified, NothingYet, OneLiveToken, Live
<1> QED BY <1>1, <1>2, <1>3 DEF Next, AllDone

\* Every reachable state satisfies the invariant.
LEMMA Invariance == Spec => []Inv
<1>1. Init => Inv
  BY InitInv
<1>2. Inv /\ [Next]_vars => Inv'
  BY NextInv
<1> QED BY <1>1, <1>2, PTL DEF Spec

-----------------------------------------------------------------------------
\* The state of the token manager has its type; in particular its mutex belongs
\* to the one call that is past Lock and not yet past the deferred Unlock.
THEOREM TypeCorrect == Spec => []TypeOK
<1>1. Inv => TypeOK
  BY DEF Inv
<1> QED BY <1>1, Invariance, PTL

\* Concurrent uploads share a single valid token: of all that were ever fetched
\* one at most is live, it is the cached one, and whoever is given the token of
\* another is given it live.
THEOREM TokenIsShared == Spec => []OneLiveToken
<1>1. Inv => OneLiveToken
  BY DEF Inv
<1> QED BY <1>1, Invariance, PTL

-----------------------------------------------------------------------------
(* The balance of the web demo. *)

Balances == SUBSET (SUBSET Handlers)

Billing == {"fetch", "store", "cached"}
Sharing == {"shared", "account"} \cup Billing

DemoTypeOK ==
  /\ stage \in [Handlers -> Sharing \cup {"form", "run", "count", "invalidate", "done"}]
  /\ succeeded \subseteq Handlers /\ requests \subseteq Handlers /\ units \subseteq Handlers
  /\ billingMu \in Handlers \cup {Nobody} /\ fresh \in BOOLEAN
  /\ billing \in Balances /\ initial \in Balances /\ charged \subseteq Handlers
  /\ answer \in [Handlers -> Balances]
  /\ page \in [Handlers -> [requests : SUBSET Handlers, units : SUBSET Handlers,
                            balance : Balances, initial : Balances]]

\* The mutex of the cache belongs to the handler that looks at it, and the cache
\* neither expires nor is invalidated meanwhile.
Owning ==
  /\ \A h \in Handlers : stage[h] \in Billing <=> billingMu = h
  /\ billingMu # Nobody => fresh

\* What has happened to a generation at each place.
Generated ==
  /\ succeeded \subseteq charged
  /\ \A h \in succeeded : /\ stage[h] \notin {"form", "run"}
                          /\ stage[h] # "count" => h \in requests
  /\ \A h \in Handlers : stage[h] = "count" => h \in succeeded

\* Units come with their request, also on a page.
Counted ==
  /\ units \subseteq requests
  /\ \A h \in Handlers : /\ page[h].units \subseteq page[h].requests
                         /\ h \in succeeded /\ stage[h] \in {"account", "done"} \cup Billing =>
                              h \in page[h].requests

\* Some balance in one set is at least as old as each one in the other.
Since(first, later) == \A balance \in later : \E f \in first : f \subseteq balance

\* The first balance is the oldest.
Aged ==
  /\ \A f \in initial : f \subseteq charged
  /\ Since(initial, billing)
  /\ \A h \in Handlers :
       /\ stage[h] \notin {"store", "cached", "done"} => answer[h] = {}
       /\ stage[h] = "store" => /\ \A balance \in answer[h] : balance \subseteq charged
                                /\ initial = {} \/ Since(initial, answer[h])

\* A handler that has invalidated the cache finds there, or in the hands of the
\* one that is filling it, only what includes its generation.
Seen(h, balances) == \A balance \in balances : h \in balance

Fresh ==
  \A h \in succeeded : stage[h] \in Sharing =>
    /\ \A g \in Handlers : stage[g] = "store" => Seen(h, answer[g])
    /\ fresh /\ (\A g \in Handlers : stage[g] \notin {"fetch", "store"}) => Seen(h, billing)

DemoInv == /\ DemoTypeOK /\ Owning /\ Generated /\ Counted /\ Aged /\ Fresh
           /\ PageShowsItsCharge

-----------------------------------------------------------------------------
\* The initial state satisfies the invariant.
LEMMA DemoInitInv == ASSUME DemoInit PROVE DemoInv
<1>1. DemoTypeOK
  BY DEF DemoInit, DemoTypeOK, NoPage, Balances
<1>2. Owning
  BY NobodyAssumption DEF DemoInit, Owning, Billing
<1>3. Generated /\ Counted /\ PageShowsItsCharge
  BY DEF DemoInit, Generated, Counted, PageShowsItsCharge, NoPage
<1>4. Aged /\ Fresh
  BY DEF DemoInit, Aged, Fresh, Since
<1> QED BY <1>1, <1>2, <1>3, <1>4 DEF DemoInv

\* The steps of a handler before it comes to the page.
LEMMA GenerateInv ==
  ASSUME DemoInv, NEW h \in Handlers,
         \/ ShowForm(h) \/ Run(h) \/ Charge(h)
         \/ RunSucceeds(h) \/ RunFails(h) \/ Count(h)
  PROVE  DemoInv'
<1> USE DEF DemoInv
<1>1. /\ UNCHANGED <<billingMu, cache, answer, page>>
      /\ UNCHANGED <<fresh, billing, initial>>
      /\ stage[h] \in {"form", "run", "count"}
  BY DEF ShowForm, Run, Charge, RunSucceeds, RunFails, Count, cache
<1>2. \/ stage[h] = "run" /\ stage' = stage /\ charged' = charged \cup {h}
         /\ UNCHANGED <<succeeded, requests, units>>
      \/ stage[h] = "run" /\ stage' = [stage EXCEPT ![h] = "count"]
         /\ succeeded' = succeeded \cup {h}
         /\ h \in charged /\ UNCHANGED <<charged, requests, units>>
      \/ stage[h] = "count" /\ stage' = [stage EXCEPT ![h] = "invalidate"]
         /\ requests' = requests \cup {h} /\ units' \in {units, units \cup {h}}
         /\ UNCHANGED <<charged, succeeded>>
      \/ stage[h] \in {"form", "run"}
         /\ stage' \in {[stage EXCEPT ![h] = "run"], [stage EXCEPT ![h] = "shared"]}
         /\ UNCHANGED <<charged, succeeded, requests, units>>
  BY DEF ShowForm, Run, Charge, RunSucceeds, RunFails, Count,
     Captured, Enter, stats
<1>3. DemoTypeOK'
  BY <1>1, <1>2 DEF DemoTypeOK, Sharing
<1>4. Owning'
  BY <1>1, <1>2 DEF DemoTypeOK, Owning, Billing
<1>5. Generated'
  BY <1>1, <1>2 DEF DemoTypeOK, Generated
<1>6. Counted'
  BY <1>1, <1>2 DEF DemoTypeOK, Counted, Generated, Billing
<1>7. Aged'
  BY <1>1, <1>2 DEF DemoTypeOK, Aged, Since
<1>8. Fresh'
  BY <1>1, <1>2 DEF DemoTypeOK, Fresh, Generated, Sharing, Billing, Seen
<1>9. PageShowsItsCharge'
  BY <1>1, <1>2 DEF DemoTypeOK, PageShowsItsCharge
<1> QED BY <1>3, <1>4, <1>5, <1>6, <1>7, <1>8, <1>9
\* After it the cache is filled before it is used.
LEMMA InvalidateInv ==
  ASSUME DemoInv, NEW h \in Handlers, Invalidate(h)
  PROVE  DemoInv'
<1> USE DEF DemoInv, Invalidate, Enter, stats, cache
<1>1. DemoTypeOK'
  BY DEF DemoTypeOK, Sharing, Billing, Balances
<1>2. Owning'
  BY NobodyAssumption DEF DemoTypeOK, Owning, Billing
<1>3. Generated' /\ Counted'
  BY DEF DemoTypeOK, Generated, Counted, Billing
<1>4. Aged'
  BY DEF DemoTypeOK, Owning, Aged, Since, Billing
<1>5. Fresh'
  BY NobodyAssumption DEF DemoTypeOK, Owning, Generated, Aged, Fresh, Seen, Sharing, Billing
<1>6. PageShowsItsCharge'
  BY DEF DemoTypeOK, Owning, Counted, Aged, Fresh, Since, Seen, Sharing, Billing,
         PageShowsItsCharge
<1> QED BY <1>1, <1>2, <1>3, <1>4, <1>5, <1>6

\* The counters are read when the generation has been counted.
LEMMA ReadStatsInv ==
  ASSUME DemoInv, NEW h \in Handlers, ReadStats(h)
  PROVE  DemoInv'
<1> USE DEF DemoInv, ReadStats, Enter, stats, cache
<1>0. /\ page' = [page EXCEPT ![h] = [@ EXCEPT !.requests = requests, !.units = units]]
      /\ page[h] \in [requests : SUBSET Handlers, units : SUBSET Handlers,
                      balance : Balances, initial : Balances]
  BY DEF DemoTypeOK
<1>1. DemoTypeOK'
  <2>1. page' \in [Handlers -> [requests : SUBSET Handlers, units : SUBSET Handlers,
                                balance : Balances, initial : Balances]]
    BY <1>0 DEF DemoTypeOK
  <2> QED BY <2>1 DEF DemoTypeOK, Sharing, Billing
<1>2. Owning'
  BY NobodyAssumption DEF DemoTypeOK, Owning, Billing
<1>3. Generated' /\ Counted'
  BY DEF DemoTypeOK, Generated, Counted, Billing
<1>4. Aged'
  BY DEF DemoTypeOK, Owning, Aged, Since, Billing
<1>5. Fresh'
  BY DEF DemoTypeOK, Owning, Generated, Aged, Fresh, Seen, Sharing, Billing
<1>6. PageShowsItsCharge'
  BY DEF DemoTypeOK, Owning, Counted, Aged, Fresh, Since, Seen, Sharing, Billing,
         PageShowsItsCharge
<1> QED BY <1>1, <1>2, <1>3, <1>4, <1>5, <1>6

\* Whoever finds the cache invalid is the only one to fill it.
LEMMA LockBillingInv ==
  ASSUME DemoInv, NEW h \in Handlers, LockBilling(h)
  PROVE  DemoInv'
<1> USE DEF DemoInv, LockBilling, Enter, stats, cache
<1>1. DemoTypeOK'
  BY DEF DemoTypeOK, Sharing, Billing, Balances
<1>2. Owning'
  BY NobodyAssumption DEF DemoTypeOK, Owning, Billing
<1>3. Generated' /\ Counted'
  BY DEF DemoTypeOK, Generated, Counted, Billing
<1>4. Aged'
  BY DEF DemoTypeOK, Owning, Aged, Since, Billing
<1>5. Fresh'
  BY DEF DemoTypeOK, Owning, Generated, Aged, Fresh, Seen, Sharing, Billing
<1>6. PageShowsItsCharge'
  BY DEF DemoTypeOK, Owning, Counted, Aged, Fresh, Since, Seen, Sharing, Billing,
         PageShowsItsCharge
<1> QED BY <1>1, <1>2, <1>3, <1>4, <1>5, <1>6

\* What is read includes every generation that was charged.
LEMMA ReadBalanceInv ==
  ASSUME DemoInv, NEW h \in Handlers, ReadBalance(h)
  PROVE  DemoInv'
<1> USE DEF DemoInv, ReadBalance, Enter, stats, cache
<1>1. DemoTypeOK'
  BY DEF DemoTypeOK, Sharing, Billing, Balances
<1>2. Owning'
  BY NobodyAssumption DEF DemoTypeOK, Owning, Billing
<1>3. Generated' /\ Counted'
  BY DEF DemoTypeOK, Generated, Counted, Billing
<1>4. Aged'
  BY DEF DemoTypeOK, Owning, Aged, Since, Billing
<1>5. Fresh'
  BY DEF DemoTypeOK, Owning, Generated, Aged, Fresh, Seen, Sharing, Billing
<1>6. PageShowsItsCharge'
  BY DEF DemoTypeOK, Owning, Counted, Aged, Fresh, Since, Seen, Sharing, Billing,
         PageShowsItsCharge
<1> QED BY <1>1, <1>2, <1>3, <1>4, <1>5, <1>6

\* The cache is filled.
LEMMA StoreBalanceInv ==
  ASSUME DemoInv, NEW h \in Handlers, StoreBalance(h)
  PROVE  DemoInv'
<1> USE DEF DemoInv, StoreBalance, Enter, stats, cache
<1>1. DemoTypeOK'
  BY DEF DemoTypeOK, Sharing, Billing, Balances
<1>2. Owning'
  BY NobodyAssumption DEF DemoTypeOK, Owning, Billing
<1>3. Generated' /\ Counted'
  BY DEF DemoTypeOK, Generated, Counted, Billing
<1>4. Aged'
  BY DEF DemoTypeOK, Owning, Aged, Since, Billing
<1>5. Fresh'
  BY DEF DemoTypeOK, Owning, Generated, Aged, Fresh, Seen, Sharing, Billing
<1>6. PageShowsItsCharge'
  BY DEF DemoTypeOK, Owning, Counted, Aged, Fresh, Since, Seen, Sharing, Billing,
         PageShowsItsCharge
<1> QED BY <1>1, <1>2, <1>3, <1>4, <1>5, <1>6

\* The page shows what the cache holds while the mutex is held.
LEMMA RenderInv ==
  ASSUME DemoInv, NEW h \in Handlers, Render(h)
  PROVE  DemoInv'
<1> DEFINE Shown == [requests : SUBSET Handlers, units : SUBSET Handlers,
                     balance : Balances, initial : Balances]
           own == [page[h] EXCEPT !.balance = billing, !.initial = initial]
<1>a. page \in [Handlers -> Shown] /\ billing \in Balances /\ initial \in Balances
  BY DEF DemoInv, DemoTypeOK
<1>b. page' = [page EXCEPT ![h] = own]
  BY <1>a DEF Render
<1>c. /\ own \in Shown /\ own.balance = billing /\ own.initial = initial
      /\ own.requests = page[h].requests /\ own.units = page[h].units
  <2>1. page[h] \in Shown
    BY <1>a
  <2>2. \A p \in Shown :
          LET q == [p EXCEPT !.balance = billing, !.initial = initial]
          IN  /\ q \in Shown /\ q.balance = billing /\ q.initial = initial
              /\ q.requests = p.requests /\ q.units = p.units
    BY <1>a
  <2> QED BY <2>1, <2>2
<1>0. /\ page' \in [Handlers -> Shown]
      /\ \A g \in Handlers \ {h} : page'[g] = page[g]
      /\ page'[h].balance = billing /\ page'[h].initial = initial
      /\ page'[h].requests = page[h].requests /\ page'[h].units = page[h].units
  <2> HIDE DEF Shown, own
  <2> QED BY <1>a, <1>b, <1>c
<1> USE DEF DemoInv, Render, Enter, stats, cache
<1>1. DemoTypeOK'
  <2>1. page' \in [Handlers -> [requests : SUBSET Handlers, units : SUBSET Handlers,
                                balance : Balances, initial : Balances]]
    BY <1>0 DEF DemoTypeOK
  <2> QED BY <2>1 DEF DemoTypeOK, Sharing, Billing
<1>2. Owning'
  BY NobodyAssumption DEF DemoTypeOK, Owning, Billing
<1>3. Generated' /\ Counted'
  BY DEF DemoTypeOK, Generated, Counted, Billing
<1>4. Aged'
  BY DEF DemoTypeOK, Owning, Aged, Since, Billing
<1>5. Fresh'
  BY DEF DemoTypeOK, Owning, Generated, Aged, Fresh, Seen, Sharing, Billing
<1>6. PageShowsItsCharge'
  <2>1. h \in succeeded => h \in page[h].requests /\ Seen(h, billing)
    <3>1. billingMu = h /\ fresh
      BY NobodyAssumption DEF Owning, Billing
    <3>2. \A g \in Handlers : stage[g] \notin {"fetch", "store"}
      BY <3>1 DEF Owning, Billing
    <3>3. h \in succeeded => Seen(h, billing)
      BY <3>1, <3>2 DEF Fresh, Sharing, Billing
    <3> QED BY <3>3 DEF Counted, Billing
  <2>2. Since(initial, billing) /\ page[h].units \subseteq page[h].requests
    BY DEF Aged, Counted
  <2>3. stage'[h] = "done" /\ \A g \in Handlers \ {h} : stage'[g] = stage[g]
    BY DEF DemoTypeOK
  <2> HIDE DEF DemoInv, Render
  <2>4. PageShowsItsCharge /\ succeeded' = succeeded
    BY DEF DemoInv, Render
  <2> QED BY <1>0, <2>1, <2>2, <2>3, <2>4 DEF PageShowsItsCharge, Since, Seen
<1> QED BY <1>1, <1>2, <1>3, <1>4, <1>5, <1>6

\* The cache expires by itself.
LEMMA CacheExpiresInv == ASSUME DemoInv, CacheExpires PROVE DemoInv'
<1> USE DEF DemoInv, CacheExpires, stats
<1>1. DemoTypeOK' /\ Owning'
  BY DEF DemoTypeOK, Owning
<1>2. Generated' /\ Counted' /\ Aged'
  BY DEF Generated, Counted, Aged, Since
<1>3. Fresh'
  BY DEF Fresh, Seen
<1>4. PageShowsItsCharge'
  BY DEF PageShowsItsCharge
<1> QED BY <1>1, <1>2, <1>3, <1>4

\* Every step keeps the invariant.
LEMMA DemoNextInv == DemoInv /\ [DemoNext]_demoVars => DemoInv'
<1> SUFFICES ASSUME DemoInv, [DemoNext]_demoVars PROVE DemoInv'
  OBVIOUS
<1>1. CASE UNCHANGED demoVars
  BY <1>1 DEF demoVars, stats, cache, DemoInv, DemoTypeOK, Owning, Generated,
     Counted, Aged, Since, Fresh, Seen, PageShowsItsCharge
<1> QED BY <1>1, GenerateInv, InvalidateInv, ReadStatsInv, LockBillingInv, ReadBalanceInv,
           StoreBalanceInv, RenderInv, CacheExpiresInv DEF DemoNext, AllServed

-----------------------------------------------------------------------------
\* For any number of requests that overlap in any way, the page of a generation
\* shows a balance that includes it, and spending that is never negative.
THEOREM PagesShowTheirCharge == DemoSpec => []PageShowsItsCharge
<1>1. DemoInv => PageShowsItsCharge
  BY DEF DemoInv
<1>2. DemoInit => DemoInv
  BY DemoInitInv
<1> QED BY <1>1, <1>2, DemoNextInv, PTL DEF DemoSpec
=============================================================================

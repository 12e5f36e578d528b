--------------------------- MODULE MultipartProofs ---------------------------
(***************************************************************************)
(* The safety of a multipart upload, for every size, part size and         *)
(* concurrency, and the arithmetic of its parts.  The inductive invariant  *)
(* has one part per concern: the counters of the semaphore and the wait    *)
(* group, how far the scheduling loop has come, where an error comes from, *)
(* what results holds, and what the complete request may say.              *)
(***************************************************************************)
EXTENDS Multipart, FiniteSetTheorems, TLAPS

USE SizeAssumption, ConcurrencyAssumption

\* held and running count the goroutines between <- and -> of their channel.
Counts ==
  /\ held = Cardinality(Holding)
  /\ running = Cardinality(Running)

\* Parts are started in order; the loop stops early only on an ended partCtx;
\* what follows wg.Wait runs alone.
Scheduling ==
  /\ pc \in {"create", "creating"} => next = 1
  /\ \A p \in Parts : part[p] = "idle" <=> p >= next
  /\ pc \in {"wait", "complete"} => partCtxDone \/ next \notin Parts
  /\ pc \in {"complete", "completing", "done"} => Running = {}

\* A context error stems from the caller's context until a part has recorded
\* another one: recordErr comes before cancel.
Blame ==
  /\ cancelled => firstErr # "none"
  /\ firstErr = "ctx" => ctxDone
  /\ outcome = "ctxErr" => ctxDone
  /\ \A p \in Parts : part[p] = "failed" =>
       partErr[p] # "none" /\ (partErr[p] = "ctx" => partCtxDone)
  /\ \A p \in Parts : part[p] = "recorded" => firstErr # "none"
  /\ pc \in {"complete", "completing"} => firstErr = "none"

\* A goroutine that is through has filled its cell, or an error is recorded.
Collected ==
  /\ \A p \in results : /\ stored[p] = Bytes(p)
                        /\ part[p] \in {"leaving", "released", "ended"}
  /\ \A p \in Parts : part[p] \in {"leaving", "released", "ended"} =>
       p \in results \/ firstErr # "none"

\* The complete request, once it is made.
Completion ==
  /\ pc \notin {"completing", "done"} => payload = Nothing
  /\ CompleteCarriesAll

IInv == TypeOK /\ Counts /\ Scheduling /\ Blame /\ Collected /\ Completion

-----------------------------------------------------------------------------
(* The ranges of bytes of the parts (module PartRanges). *)

\* Integer division by a positive number, as the code uses it.
LEMMA Division ==
  ASSUME NEW a \in Nat, NEW d \in Nat \ {0}
  PROVE  /\ a \div d \in Nat
         /\ (a \div d) * d <= a
         /\ a < (a \div d + 1) * d
  OBVIOUS

\* The product is monotone in its first factor.
LEMMA Monotone ==
  ASSUME NEW a \in Int, NEW b \in Int, a <= b, NEW d \in Nat
  PROVE  a * d <= b * d
  OBVIOUS

LEMMA NumPartsPositive ==
  ASSUME NEW size \in Nat, NEW partSize \in Nat \ {0}
  PROVE  numParts(size, partSize) \in Nat \ {0}
<1>1. size + partSize - 1 \in Nat
  OBVIOUS
<1>2. (size + partSize - 1) \div partSize \in Nat
  BY <1>1, Division
<1>3. QED
  BY <1>2 DEF numParts

\* A part starts inside the natural numbers, and what it carries lies inside
\* the object.
LEMMA PartInside ==
  ASSUME NEW size \in Nat, NEW partSize \in Nat \ {0}, NEW p \in Nat \ {0}
  PROVE  /\ offset(p, partSize) \in Nat
         /\ length(p, size, partSize) \in 0 .. partSize
         /\ PartBytes(p, size, partSize) \subseteq 0 .. (size - 1)
<1>1. offset(p, partSize) \in Nat
  BY DEF offset
<1> DEFINE off == offset(p, partSize)
           n == length(p, size, partSize)
<1>2. n \in 0 .. partSize /\ (n > 0 => off + n <= size)
  BY <1>1 DEF length
<1> HIDE DEF off, n
<1>3. PartBytes(p, size, partSize) = off .. (off + n - 1)
  BY DEF PartBytes, off, n
<1>4. off \in Nat
  BY <1>1 DEF off
<1>5. off .. (off + n - 1) \subseteq 0 .. (size - 1)
  BY <1>2, <1>4
<1>6. QED
  BY <1>2, <1>3, <1>4, <1>5 DEF off, n

\* A byte of the object is in part p exactly when p is its quotient.
LEMMA ByteInPart ==
  ASSUME NEW size \in Nat, NEW partSize \in Nat \ {0}, NEW p \in Nat \ {0},
         NEW b \in 0 .. (size - 1)
  PROVE  b \in PartBytes(p, size, partSize)
           <=> (p - 1) * partSize <= b /\ b < (p - 1) * partSize + partSize
<1> DEFINE off == (p - 1) * partSize
<1>1. off \in Nat
  OBVIOUS
<1>2. offset(p, partSize) = off
  BY DEF offset
<1> HIDE DEF off
<1>3. length(p, size, partSize) =
        IF size - off >= partSize THEN partSize
        ELSE IF size - off < 0 THEN 0 ELSE size - off
  BY <1>2 DEF length
<1>4. PartBytes(p, size, partSize) = off .. (off + length(p, size, partSize) - 1)
  BY <1>2 DEF PartBytes
<1>5. b \in PartBytes(p, size, partSize) <=> off <= b /\ b < off + partSize
  BY <1>1, <1>3, <1>4
<1>6. QED
  BY <1>5 DEF off

\* The bytes of a part come before those of a later one.
LEMMA PartsInOrder ==
  ASSUME NEW size \in Nat, NEW partSize \in Nat \ {0},
         NEW p \in Nat \ {0}, NEW q \in Nat \ {0}, p < q,
         NEW b \in PartBytes(p, size, partSize),
         NEW c \in PartBytes(q, size, partSize)
  PROVE  b < c
<1>1. b \in 0 .. (size - 1) /\ c \in 0 .. (size - 1)
  BY PartInside
<1>2. b < (p - 1) * partSize + partSize /\ (q - 1) * partSize <= c
  BY <1>1, ByteInPart
<1>3. p * partSize <= (q - 1) * partSize
  BY Monotone
<1>4. p * partSize = (p - 1) * partSize + partSize
  OBVIOUS
<1>5. p * partSize \in Int /\ (q - 1) * partSize \in Int
  OBVIOUS
<1>6. QED
  BY <1>1, <1>2, <1>3, <1>4, <1>5

\* The parts cut by multipartUploadParts tile the object: each byte of it is in
\* exactly one part, and no part reaches beyond its end.
THEOREM PartsTileObject ==
  ASSUME NEW size \in Nat, NEW partSize \in Nat \ {0}
  PROVE  Tiles(size, partSize)
<1> DEFINE N == numParts(size, partSize)
<1>1. N \in Nat \ {0}
  BY NumPartsPositive
<1>2. ASSUME NEW b \in 0 .. (size - 1)
      PROVE  \E p \in 1 .. N :
               /\ b \in PartBytes(p, size, partSize)
               /\ \A q \in 1 .. N : b \in PartBytes(q, size, partSize) => q = p
  <2> DEFINE d == b \div partSize
             p == d + 1
  <2>1. b \in Nat /\ size + partSize - 1 \in Nat /\ b + partSize <= size + partSize - 1
    OBVIOUS
  <2>2. d \in Nat /\ d * partSize <= b /\ b < (d + 1) * partSize
    BY <2>1, Division
  <2> DEFINE m == (size + partSize - 1) \div partSize
  <2>3. m \in Nat /\ size + partSize - 1 < (m + 1) * partSize
    BY <2>1, Division
  <2> HIDE DEF d, m
  <2>4. (d + 1) * partSize = d * partSize + partSize
        /\ (m + 1) * partSize = m * partSize + partSize
    BY <2>2, <2>3
  <2>5. d * partSize < m * partSize
    BY <2>1, <2>2, <2>3, <2>4
  <2>6. d < m
    <3>1. m <= d => m * partSize <= d * partSize
      BY <2>2, <2>3, Monotone
    <3>2. QED
      BY <2>2, <2>3, <2>5, <3>1
  <2>7. N = m
    <3>1. N = IF m = 0 THEN 1 ELSE m
      BY DEF numParts, m
    <3>2. QED
      BY <2>2, <2>3, <2>6, <3>1
  <2>8. p \in 1 .. N
    BY <2>2, <2>3, <2>6, <2>7
  <2>9. b \in PartBytes(p, size, partSize)
    <3>1. p \in Nat \ {0} /\ p - 1 = d
      BY <2>2
    <3>2. QED
      BY <2>2, <2>4, <3>1, ByteInPart
  <2>10. ASSUME NEW q \in 1 .. N, b \in PartBytes(q, size, partSize)
         PROVE  q = p
    <3>1. q \in Nat \ {0} /\ q - 1 \in Nat
      BY <1>1
    <3>2. (q - 1) * partSize <= b /\ b < (q - 1) * partSize + partSize
      BY <2>10, <3>1, ByteInPart
    <3>3. ~(q - 1 < d)
      <4>1. q - 1 < d => q * partSize <= d * partSize
        BY <2>2, <3>1, Monotone
      <4>2. q * partSize = (q - 1) * partSize + partSize
        BY <3>1
      <4>3. QED
        BY <2>2, <3>1, <3>2, <4>1, <4>2
    <3>4. ~(d < q - 1)
      <4>1. d < q - 1 => (d + 1) * partSize <= (q - 1) * partSize
        BY <2>2, <3>1, Monotone
      <4>2. QED
        BY <2>2, <2>4, <3>1, <3>2, <4>1
    <3>5. QED
      BY <2>2, <3>1, <3>3, <3>4
  <2>11. QED
    BY <2>8, <2>9, <2>10
<1>3. ASSUME NEW p \in 1 .. N
      PROVE  PartBytes(p, size, partSize) \subseteq 0 .. (size - 1)
  <2>1. p \in Nat \ {0}
    BY <1>1
  <2>2. QED
    BY <2>1, PartInside
<1>4. QED
  BY <1>2, <1>3 DEF Tiles

-----------------------------------------------------------------------------
(* The parts and the sets the counters count. *)

LEMMA PartsFinite ==
  /\ numParts(Size, PartSize) \in Nat \ {0}
  /\ Parts \subseteq Nat /\ IsFiniteSet(Parts)
  /\ Slots \in Nat \ {0}
<1>1. numParts(Size, PartSize) \in Nat \ {0}
  BY NumPartsPositive
<1>2. Parts \subseteq Nat
  BY <1>1 DEF Parts
<1>3. IsFiniteSet(Parts)
  BY <1>1, FS_Interval DEF Parts
<1>4. QED
  BY <1>1, <1>2, <1>3 DEF Slots

LEMMA BytesInside == \A p \in Parts : Bytes(p) \in SUBSET (0 .. (Size - 1))
<1> SUFFICES ASSUME NEW p \in Parts PROVE Bytes(p) \subseteq 0 .. (Size - 1)
  OBVIOUS
<1>1. p \in Nat \ {0}
  BY PartsFinite DEF Parts
<1>2. QED
  BY <1>1, PartInside DEF Bytes

LEMMA CountedSetsFinite ==
  /\ IsFiniteSet(Holding) /\ Cardinality(Holding) \in Nat
  /\ IsFiniteSet(Running) /\ Cardinality(Running) \in Nat
<1>1. Holding \subseteq Parts /\ Running \subseteq Parts
  BY DEF Holding, Running
<1>2. QED
  BY <1>1, PartsFinite, FS_Subset, FS_CardinalityType

LEMMA InitInv == Init => IInv
<1> SUFFICES ASSUME Init PROVE IInv
  OBVIOUS
<1>1. TypeOK
  <2>1. payload \in {Nothing} \cup [Parts -> Nat]
    BY DEF Init
  <2>2. stored \in [Parts -> SUBSET (0 .. (Size - 1))]
    BY DEF Init
  <2>3. part \in [Parts -> GoroutineStates] /\ partErr \in [Parts -> PartErrors]
    BY DEF Init, GoroutineStates, PartErrors
  <2>4. next \in 1 .. (numParts(Size, PartSize) + 1) /\ held \in 0 .. Slots
        /\ running \in Nat
    BY PartsFinite DEF Init
  <2>5. QED
    BY <2>1, <2>2, <2>3, <2>4 DEF Init, TypeOK, PartErrors, Outcomes
<1>2. Holding = {} /\ Running = {}
  BY DEF Init, Holding, Running
<1>3. Counts
  BY <1>2, FS_EmptySet DEF Init, Counts
<1>4. Scheduling
  BY PartsFinite DEF Init, Scheduling, Parts
<1>5. Blame /\ Collected
  BY DEF Init, Blame, Collected
<1>6. Completion
  BY DEF Init, Completion, CompleteCarriesAll
<1>7. QED
  BY <1>1, <1>3, <1>4, <1>5, <1>6 DEF IInv

-----------------------------------------------------------------------------
(* A step of one goroutine. *)

\* A goroutine that runs moves alone, and never while the caller is past Join.
LEMMA Moved ==
  ASSUME IInv, NEW p \in Parts, part[p] \notin {"idle", "ended"},
         NEW s \in GoroutineStates, Goto(p, s)
  PROVE  /\ part' \in [Parts -> GoroutineStates]
         /\ part'[p] = s
         /\ \A q \in Parts : q # p => part'[q] = part[q]
         /\ pc \notin {"complete", "completing", "done"}
<1>1. part \in [Parts -> GoroutineStates]
  BY DEF IInv, TypeOK
<1>2. p \in Running
  BY DEF Running
<1>3. pc \notin {"complete", "completing", "done"}
  BY <1>2 DEF IInv, Scheduling
<1>4. QED
  BY <1>1, <1>3 DEF Goto

\* As long as it holds its token, nothing is counted anew.
LEMMA SameCounts ==
  ASSUME IInv, NEW p \in Parts, part[p] \notin {"idle", "released", "ended"},
         NEW s \in GoroutineStates \ {"idle", "released", "ended"}, Goto(p, s),
         UNCHANGED <<held, running>>
  PROVE  Counts'
<1>1. part'[p] = s /\ \A q \in Parts : q # p => part'[q] = part[q]
  BY Moved
<1>2. Holding' = Holding /\ Running' = Running
  BY <1>1 DEF Holding, Running
<1>3. QED
  BY <1>2 DEF IInv, Counts

\* And the scheduling loop is where it was.
LEMMA SameScheduling ==
  ASSUME IInv, NEW p \in Parts, part[p] \notin {"idle", "ended"},
         NEW s \in GoroutineStates \ {"idle"}, Goto(p, s),
         UNCHANGED <<pc, next, ctxDone>>, cancelled => cancelled'
  PROVE  Scheduling'
<1>1. /\ part'[p] = s /\ \A q \in Parts : q # p => part'[q] = part[q]
      /\ pc \notin {"complete", "completing", "done"}
  BY Moved
<1>2. \A q \in Parts : part'[q] = "idle" <=> part[q] = "idle"
  BY <1>1
<1>3. QED
  BY <1>1, <1>2 DEF IInv, Scheduling, partCtxDone

\* Nor has the upload been completed.
LEMMA NotCompleted ==
  ASSUME IInv, NEW p \in Parts, part[p] \notin {"idle", "ended"},
         UNCHANGED <<pc, payload>>
  PROVE  /\ payload = Nothing
         /\ Completion'
<1>1. p \in Running
  BY DEF Running
<1>2. pc \notin {"complete", "completing", "done"}
  BY <1>1 DEF IInv, Scheduling
<1>3. payload = Nothing
  BY <1>2 DEF IInv, Completion
<1>4. QED
  BY <1>2, <1>3 DEF Completion, CompleteCarriesAll

\* The error a failing goroutine carries.
LEMMA Failed ==
  ASSUME IInv, NEW p \in Parts, NEW e \in PartErrors, Fail(p, e)
  PROVE  partErr' \in [Parts -> PartErrors] /\ partErr'[p] = e
         /\ \A q \in Parts : q # p => partErr'[q] = partErr[q]
BY DEF IInv, TypeOK, Fail

LEMMA ReadPartInv == ASSUME IInv, NEW p \in Parts, ReadPart(p) PROVE IInv'
<1>1. PICK s \in {"read", "failed"} : Goto(p, s)
  BY DEF ReadPart, Fail
<1>2. /\ part[p] = "started"
      /\ UNCHANGED <<private, errors, results, service>>
  BY DEF ReadPart
<1>3. /\ part' \in [Parts -> GoroutineStates] /\ part'[p] = s
      /\ \A q \in Parts : q # p => part'[q] = part[q]
      /\ pc \notin {"complete", "completing", "done"}
  BY <1>1, <1>2, Moved DEF GoroutineStates
<1>4. /\ partErr' \in [Parts -> PartErrors]
      /\ \A q \in Parts : q # p => partErr'[q] = partErr[q]
      /\ s = "failed" => partErr'[p] = "read"
  <2>1. CASE Fail(p, "read")
    BY <2>1, Failed DEF PartErrors
  <2>2. CASE Goto(p, "read") /\ UNCHANGED partErr
    BY <1>3, <2>2 DEF IInv, TypeOK, Goto
  <2>3. QED
    BY <2>1, <2>2 DEF ReadPart
<1>5. TypeOK'
  BY <1>2, <1>3, <1>4 DEF IInv, TypeOK, private, caller, errors, service
<1>6. Counts' /\ Scheduling'
  BY <1>1, <1>2, SameCounts, SameScheduling
     DEF GoroutineStates, private, caller, errors
<1>7. Blame'
  BY <1>2, <1>3, <1>4 DEF IInv, Blame, partCtxDone, private, caller, errors
<1>8. Collected'
  BY <1>1, <1>2, <1>3 DEF IInv, TypeOK, Collected, errors, service
<1>9. Completion'
  BY <1>2, NotCompleted DEF private, caller, service
<1>10. QED
  BY <1>5, <1>6, <1>7, <1>8, <1>9 DEF IInv

LEMMA PutCheckInv == ASSUME IInv, NEW p \in Parts, PutCheck(p) PROVE IInv'
<1>1. PICK s \in {"checked", "failed"} : Goto(p, s)
  BY DEF PutCheck, Fail
<1>2. /\ part[p] = "read"
      /\ UNCHANGED <<private, errors, results, service>>
  BY DEF PutCheck
<1>3. /\ part' \in [Parts -> GoroutineStates] /\ part'[p] = s
      /\ \A q \in Parts : q # p => part'[q] = part[q]
      /\ pc \notin {"complete", "completing", "done"}
  BY <1>1, <1>2, Moved DEF GoroutineStates
<1>4. /\ partErr' \in [Parts -> PartErrors]
      /\ \A q \in Parts : q # p => partErr'[q] = partErr[q]
      /\ s = "failed" => partErr'[p] = "put" \/ (partErr'[p] = "ctx" /\ partCtxDone)
  <2>1. CASE Fail(p, "put") \/ (partCtxDone /\ Fail(p, "ctx"))
    BY <2>1, Failed DEF PartErrors
  <2>2. CASE Goto(p, "checked") /\ UNCHANGED partErr
    BY <1>3, <2>2 DEF IInv, TypeOK, Goto
  <2>3. QED
    BY <2>1, <2>2 DEF PutCheck
<1>5. TypeOK'
  BY <1>2, <1>3, <1>4 DEF IInv, TypeOK, private, caller, errors, service
<1>6. Counts' /\ Scheduling'
  BY <1>1, <1>2, SameCounts, SameScheduling
     DEF GoroutineStates, private, caller, errors
<1>7. Blame'
  BY <1>2, <1>3, <1>4 DEF IInv, Blame, partCtxDone, private, caller, errors
<1>8. Collected'
  BY <1>1, <1>2, <1>3 DEF IInv, TypeOK, Collected, errors, service
<1>9. Completion'
  BY <1>2, NotCompleted DEF private, caller, service
<1>10. QED
  BY <1>5, <1>6, <1>7, <1>8, <1>9 DEF IInv

LEMMA PutSendInv == ASSUME IInv, NEW p \in Parts, PutSend(p) PROVE IInv'
<1>1. /\ part[p] = "checked" /\ Goto(p, "flight")
      /\ late' \in {late, late \cup {p}}
      /\ UNCHANGED <<private, partErr, errors, results, stored, payload, object>>
  BY DEF PutSend
<1>2. /\ part' \in [Parts -> GoroutineStates] /\ part'[p] = "flight"
      /\ \A q \in Parts : q # p => part'[q] = part[q]
      /\ pc \notin {"complete", "completing", "done"}
  BY <1>1, Moved DEF GoroutineStates
<1>3. TypeOK'
  BY <1>1, <1>2 DEF IInv, TypeOK, private, caller, errors
<1>4. Counts' /\ Scheduling'
  BY <1>1, SameCounts, SameScheduling
     DEF GoroutineStates, private, caller, errors
<1>5. Blame'
  BY <1>1, <1>2 DEF IInv, Blame, partCtxDone, private, caller, errors
<1>6. Collected'
  BY <1>1, <1>2 DEF IInv, TypeOK, Collected, errors
<1>7. Completion'
  BY <1>1, NotCompleted DEF private, caller
<1>8. QED
  BY <1>3, <1>4, <1>5, <1>6, <1>7 DEF IInv

\* The bytes of a part are kept in its own cell.
LEMMA Kept ==
  ASSUME IInv, NEW p \in Parts, Keep(p)
  PROVE  /\ stored' \in [Parts -> SUBSET (0 .. (Size - 1))]
         /\ stored'[p] = Bytes(p)
         /\ \A q \in Parts : q # p => stored'[q] = stored[q]
<1>1. Bytes(p) \in SUBSET (0 .. (Size - 1))
  BY BytesInside
<1>2. stored \in [Parts -> SUBSET (0 .. (Size - 1))]
  BY DEF IInv, TypeOK
<1>3. QED
  BY <1>1, <1>2 DEF Keep

LEMMA PutAnsweredInv == ASSUME IInv, NEW p \in Parts, PutAnswered(p) PROVE IInv'
<1>1. /\ part[p] = "flight" /\ Goto(p, "leaving") /\ Keep(p)
      /\ results' = results \cup {p}
      /\ UNCHANGED <<private, partErr, errors, payload, object, late>>
  BY DEF PutAnswered
<1>2. /\ part' \in [Parts -> GoroutineStates] /\ part'[p] = "leaving"
      /\ \A q \in Parts : q # p => part'[q] = part[q]
      /\ pc \notin {"complete", "completing", "done"}
  BY <1>1, Moved DEF GoroutineStates
<1>3. /\ stored' \in [Parts -> SUBSET (0 .. (Size - 1))]
      /\ stored'[p] = Bytes(p)
      /\ \A q \in Parts : q # p => stored'[q] = stored[q]
  BY <1>1, Kept
<1>4. TypeOK'
  BY <1>1, <1>2, <1>3 DEF IInv, TypeOK, private, caller, errors
<1>5. Counts' /\ Scheduling'
  BY <1>1, SameCounts, SameScheduling
     DEF GoroutineStates, private, caller, errors
<1>6. Blame'
  BY <1>1, <1>2 DEF IInv, Blame, partCtxDone, private, caller, errors
<1>7. Collected'
  <2>1. results \subseteq Parts
    BY DEF IInv, TypeOK
  <2>2. ASSUME NEW q \in results'
        PROVE  /\ stored'[q] = Bytes(q)'
               /\ part'[q] \in {"leaving", "released", "ended"}
    <3>1. CASE q = p
      BY <3>1, <1>2, <1>3 DEF Bytes
    <3>2. CASE q # p
      BY <3>2, <2>1, <1>1, <1>2, <1>3 DEF IInv, Collected, Bytes
    <3>3. QED
      BY <3>1, <3>2
  <2>3. ASSUME NEW q \in Parts, part'[q] \in {"leaving", "released", "ended"}
        PROVE  q \in results' \/ firstErr' # "none"
    BY <2>3, <1>1, <1>2 DEF IInv, Collected, errors
  <2>4. QED
    BY <2>2, <2>3 DEF Collected
<1>8. Completion'
  BY <1>1, NotCompleted DEF private, caller
<1>9. QED
  BY <1>4, <1>5, <1>6, <1>7, <1>8 DEF IInv

LEMMA PutFailedInv == ASSUME IInv, NEW p \in Parts, PutFailed(p) PROVE IInv'
<1>1. /\ part[p] = "flight" /\ Goto(p, "failed")
      /\ UNCHANGED <<private, errors, results, payload, object, late>>
  BY DEF PutFailed, Fail
<1>2. /\ part' \in [Parts -> GoroutineStates] /\ part'[p] = "failed"
      /\ \A q \in Parts : q # p => part'[q] = part[q]
      /\ pc \notin {"complete", "completing", "done"}
  BY <1>1, Moved DEF GoroutineStates
<1>3. /\ stored' \in [Parts -> SUBSET (0 .. (Size - 1))]
      /\ \A q \in Parts : q # p => stored'[q] = stored[q]
  <2>1. CASE Keep(p)
    BY <2>1, Kept
  <2>2. CASE UNCHANGED stored
    BY <2>2 DEF IInv, TypeOK
  <2>3. QED
    BY <2>1, <2>2 DEF PutFailed
<1>4. /\ partErr' \in [Parts -> PartErrors]
      /\ \A q \in Parts : q # p => partErr'[q] = partErr[q]
      /\ partErr'[p] = "put" \/ (partErr'[p] = "ctx" /\ partCtxDone)
  <2>1. CASE Fail(p, "put")
    BY <2>1, Failed DEF PartErrors
  <2>2. CASE partCtxDone /\ Fail(p, "ctx")
    BY <2>2, Failed DEF PartErrors
  <2>3. QED
    BY <2>1, <2>2 DEF PutFailed
<1>5. TypeOK'
  BY <1>1, <1>2, <1>3, <1>4 DEF IInv, TypeOK, private, caller, errors
<1>6. Counts' /\ Scheduling'
  BY <1>1, SameCounts, SameScheduling
     DEF GoroutineStates, private, caller, errors
<1>7. Blame'
  BY <1>1, <1>2, <1>4 DEF IInv, Blame, partCtxDone, private, caller, errors
<1>8. Collected'
  <2>1. ASSUME NEW q \in results
        PROVE  q \in Parts /\ q # p /\ stored[q] = Bytes(q)
               /\ part[q] \in {"leaving", "released", "ended"}
    BY <1>1 DEF IInv, TypeOK, Collected
  <2>2. ASSUME NEW q \in results
        PROVE  /\ stored'[q] = Bytes(q)
               /\ part'[q] \in {"leaving", "released", "ended"}
    BY <2>1, <1>2, <1>3
  <2>3. ASSUME NEW q \in Parts, part'[q] \in {"leaving", "released", "ended"}
        PROVE  q \in results \/ firstErr # "none"
    BY <2>3, <1>2 DEF IInv, Collected
  <2>4. QED
    BY <2>2, <2>3, <1>1 DEF Collected, errors, Bytes
<1>9. Completion'
  BY <1>1, NotCompleted DEF private, caller
<1>10. QED
  BY <1>5, <1>6, <1>7, <1>8, <1>9 DEF IInv

LEMMA RecordErrInv == ASSUME IInv, NEW p \in Parts, recordErr(p) PROVE IInv'
<1>1. /\ part[p] = "failed" /\ Goto(p, "recorded")
      /\ firstErr' = IF firstErr = "none" THEN partErr[p] ELSE firstErr
      /\ UNCHANGED <<private, partErr, cancelled, results, service>>
  BY DEF recordErr
<1>2. /\ part' \in [Parts -> GoroutineStates] /\ part'[p] = "recorded"
      /\ \A q \in Parts : q # p => part'[q] = part[q]
      /\ pc \notin {"complete", "completing", "done"}
  BY <1>1, Moved DEF GoroutineStates
\* Nothing has been cancelled before the first error is recorded.
<1>3. /\ firstErr' \in PartErrors /\ firstErr' # "none"
      /\ firstErr' = "ctx" => ctxDone
  <2>1. partErr[p] \in PartErrors \ {"none"}
    BY <1>1 DEF IInv, TypeOK, Blame
  <2>2. firstErr = "none" /\ partErr[p] = "ctx" => ctxDone
    BY <1>1 DEF IInv, Blame, partCtxDone
  <2>3. QED
    BY <2>1, <2>2, <1>1 DEF IInv, TypeOK, Blame
<1>4. TypeOK'
  BY <1>1, <1>2, <1>3 DEF IInv, TypeOK, private, caller, service
<1>5. Counts' /\ Scheduling'
  BY <1>1, SameCounts, SameScheduling DEF GoroutineStates, private, caller
<1>6. Blame'
  BY <1>1, <1>2, <1>3 DEF IInv, Blame, partCtxDone, private, caller
<1>7. Collected'
  BY <1>1, <1>2, <1>3 DEF IInv, TypeOK, Collected, service, Bytes
<1>8. Completion'
  BY <1>1, NotCompleted DEF private, caller, service
<1>9. QED
  BY <1>4, <1>5, <1>6, <1>7, <1>8 DEF IInv

LEMMA CancelRestInv == ASSUME IInv, NEW p \in Parts, CancelRest(p) PROVE IInv'
<1>1. /\ part[p] = "recorded" /\ Goto(p, "leaving") /\ cancelled' = TRUE
      /\ UNCHANGED <<private, partErr, firstErr, results, service>>
  BY DEF CancelRest
<1>2. /\ part' \in [Parts -> GoroutineStates] /\ part'[p] = "leaving"
      /\ \A q \in Parts : q # p => part'[q] = part[q]
      /\ pc \notin {"complete", "completing", "done"}
  BY <1>1, Moved DEF GoroutineStates
<1>3. firstErr # "none"
  BY <1>1 DEF IInv, Blame
<1>4. TypeOK'
  BY <1>1, <1>2 DEF IInv, TypeOK, private, caller, service
<1>5. Counts' /\ Scheduling'
  BY <1>1, SameCounts, SameScheduling DEF GoroutineStates, private, caller
<1>6. Blame'
  BY <1>1, <1>2, <1>3 DEF IInv, Blame, partCtxDone, private, caller
<1>7. Collected'
  BY <1>1, <1>2, <1>3 DEF IInv, TypeOK, Collected, service, Bytes
<1>8. Completion'
  BY <1>1, NotCompleted DEF private, caller, service
<1>9. QED
  BY <1>4, <1>5, <1>6, <1>7, <1>8 DEF IInv

LEMMA ReleaseTokenInv ==
  ASSUME IInv, NEW p \in Parts, ReleaseToken(p) PROVE IInv'
<1>1. /\ part[p] = "leaving" /\ Goto(p, "released") /\ held' = held - 1
      /\ UNCHANGED <<caller, partErr, running, errors, ctxDone, results,
                     service, outcome>>
  BY DEF ReleaseToken
<1>2. /\ part' \in [Parts -> GoroutineStates] /\ part'[p] = "released"
      /\ \A q \in Parts : q # p => part'[q] = part[q]
      /\ pc \notin {"complete", "completing", "done"}
  BY <1>1, Moved DEF GoroutineStates
<1>3. Counts' /\ held' \in 0 .. Slots
  <2>1. p \in Holding /\ Holding' = Holding \ {p} /\ Running' = Running
    BY <1>1, <1>2 DEF Holding, Running
  <2>2. Cardinality(Holding') = Cardinality(Holding) - 1
    BY <2>1, CountedSetsFinite, FS_RemoveElement
  <2>3. Cardinality(Holding') \in Nat
    BY <2>1, CountedSetsFinite, FS_Subset, FS_CardinalityType
  <2>4. held = Cardinality(Holding) /\ running = Cardinality(Running)
        /\ held \in 0 .. Slots
    BY DEF IInv, TypeOK, Counts
  <2>5. held' = Cardinality(Holding') /\ running' = Cardinality(Running')
    BY <2>1, <2>2, <2>4, <1>1
  <2>6. held' \in 0 .. Slots
    BY <2>3, <2>4, <2>5, <1>1, PartsFinite
  <2>7. QED
    BY <2>5, <2>6 DEF Counts
<1>4. TypeOK'
  BY <1>1, <1>2, <1>3 DEF IInv, TypeOK, caller, errors, service
<1>5. Scheduling'
  BY <1>1, SameScheduling DEF GoroutineStates, caller, errors
<1>6. Blame'
  BY <1>1, <1>2 DEF IInv, Blame, partCtxDone, caller, errors
<1>7. Collected'
  BY <1>1, <1>2 DEF IInv, TypeOK, Collected, errors, service, Bytes
<1>8. Completion'
  BY <1>1, NotCompleted DEF caller, service
<1>9. QED
  BY <1>3, <1>4, <1>5, <1>6, <1>7, <1>8 DEF IInv

LEMMA FinishInv == ASSUME IInv, NEW p \in Parts, Finish(p) PROVE IInv'
<1>1. /\ part[p] = "released" /\ Goto(p, "ended") /\ running' = running - 1
      /\ UNCHANGED <<caller, partErr, held, errors, ctxDone, results, service,
                     outcome>>
  BY DEF Finish
<1>2. /\ part' \in [Parts -> GoroutineStates] /\ part'[p] = "ended"
      /\ \A q \in Parts : q # p => part'[q] = part[q]
      /\ pc \notin {"complete", "completing", "done"}
  BY <1>1, Moved DEF GoroutineStates
<1>3. Counts' /\ running' \in Nat
  <2>1. p \in Running /\ Running' = Running \ {p} /\ Holding' = Holding
    BY <1>1, <1>2 DEF Holding, Running
  <2>2. Cardinality(Running') = Cardinality(Running) - 1
    BY <2>1, CountedSetsFinite, FS_RemoveElement
  <2>3. Cardinality(Running') \in Nat
    BY <2>1, CountedSetsFinite, FS_Subset, FS_CardinalityType
  <2>4. held = Cardinality(Holding) /\ running = Cardinality(Running)
    BY DEF IInv, Counts
  <2>5. held' = Cardinality(Holding') /\ running' = Cardinality(Running')
    BY <2>1, <2>2, <2>4, <1>1
  <2>6. QED
    BY <2>3, <2>5 DEF Counts
<1>4. TypeOK'
  BY <1>1, <1>2, <1>3 DEF IInv, TypeOK, caller, errors, service
<1>5. Scheduling'
  BY <1>1, SameScheduling DEF GoroutineStates, caller, errors
<1>6. Blame'
  BY <1>1, <1>2 DEF IInv, Blame, partCtxDone, caller, errors
<1>7. Collected'
  BY <1>1, <1>2 DEF IInv, TypeOK, Collected, errors, service, Bytes
<1>8. Completion'
  BY <1>1, NotCompleted DEF caller, service
<1>9. QED
  BY <1>3, <1>4, <1>5, <1>6, <1>7, <1>8 DEF IInv

-----------------------------------------------------------------------------
(* A step of the caller. *)

\* Steps that leave the goroutines and the service's cells alone keep what
\* is counted and collected.
LEMMA CallerAlone ==
  ASSUME IInv, UNCHANGED <<goroutines, errors, results, stored>>
  PROVE  Counts' /\ Collected'
<1>1. Holding' = Holding /\ Running' = Running
  BY DEF Holding, Running, goroutines
<1>2. QED
  BY <1>1 DEF IInv, Counts, Collected, goroutines, errors, Bytes

LEMMA CreateCheckInv == ASSUME IInv, CreateCheck PROVE IInv'
<1>1. /\ pc = "create" /\ pc' \in {"creating", "done"}
      /\ outcome' \in {outcome, "createErr"} \/ (outcome' = "ctxErr" /\ ctxDone)
      /\ UNCHANGED <<next, goroutines, errors, ctxDone, results, service>>
  BY DEF CreateCheck, Return
<1>2. next = 1 /\ payload = Nothing /\ Running = {}
  BY <1>1 DEF IInv, Scheduling, Completion, Running, TypeOK, Parts
<1>3. TypeOK'
  BY <1>1 DEF IInv, TypeOK, goroutines, errors, service, Outcomes
<1>4. Counts' /\ Collected'
  BY <1>1, CallerAlone DEF service
<1>5. Scheduling'
  BY <1>1, <1>2 DEF IInv, Scheduling, Running, goroutines
<1>6. Blame'
  BY <1>1 DEF IInv, Blame, partCtxDone, goroutines, errors
<1>7. Completion'
  BY <1>1, <1>2 DEF Completion, CompleteCarriesAll, service
<1>8. QED
  BY <1>3, <1>4, <1>5, <1>6, <1>7 DEF IInv

LEMMA CreateAnsweredInv == ASSUME IInv, CreateAnswered PROVE IInv'
<1>1. /\ pc = "creating" /\ pc' \in {"schedule", "done"}
      /\ outcome' \in {outcome, "createErr"} \/ (outcome' = "ctxErr" /\ ctxDone)
      /\ UNCHANGED <<next, goroutines, errors, ctxDone, results, service>>
  BY DEF CreateAnswered, Return
<1>2. next = 1 /\ payload = Nothing /\ Running = {}
  BY <1>1 DEF IInv, Scheduling, Completion, Running, TypeOK, Parts
<1>3. TypeOK'
  BY <1>1 DEF IInv, TypeOK, goroutines, errors, service, Outcomes
<1>4. Counts' /\ Collected'
  BY <1>1, CallerAlone DEF service
<1>5. Scheduling'
  BY <1>1, <1>2 DEF IInv, Scheduling, Running, goroutines
<1>6. Blame'
  BY <1>1 DEF IInv, Blame, partCtxDone, goroutines, errors
<1>7. Completion'
  BY <1>1, <1>2 DEF Completion, CompleteCarriesAll, service
<1>8. QED
  BY <1>3, <1>4, <1>5, <1>6, <1>7 DEF IInv

LEMMA ScheduleInv == ASSUME IInv, Schedule PROVE IInv'
<1>1. /\ pc = "schedule" /\ next \in Parts /\ held < Slots
      /\ held' = held + 1 /\ running' = running + 1
      /\ part' = [part EXCEPT ![next] = "started"]
      /\ next' = next + 1
      /\ UNCHANGED <<pc, partErr, errors, ctxDone, results, service, outcome>>
  BY DEF Schedule, semFree
<1>2. part[next] = "idle" /\ payload = Nothing
  BY <1>1, PartsFinite DEF IInv, Scheduling, Completion
<1>3. /\ part' \in [Parts -> GoroutineStates] /\ part'[next] = "started"
      /\ \A q \in Parts : q # next => part'[q] = part[q]
  BY <1>1 DEF IInv, TypeOK, GoroutineStates
<1>4. Counts' /\ held' \in 0 .. Slots /\ running' \in Nat
  <2>1. /\ next \notin Holding /\ next \notin Running
        /\ Holding' = Holding \cup {next} /\ Running' = Running \cup {next}
    BY <1>1, <1>2, <1>3 DEF Holding, Running
  <2>2. /\ Cardinality(Holding') = Cardinality(Holding) + 1
        /\ Cardinality(Running') = Cardinality(Running) + 1
    BY <2>1, CountedSetsFinite, FS_AddElement
  <2>3. /\ held = Cardinality(Holding) /\ running = Cardinality(Running)
        /\ held \in 0 .. Slots /\ running \in Nat
    BY DEF IInv, TypeOK, Counts
  <2>4. held' \in 0 .. Slots /\ running' \in Nat
    BY <2>3, <1>1, PartsFinite
  <2>5. QED
    BY <2>2, <2>3, <2>4, <1>1 DEF Counts
<1>5. next' \in 1 .. (numParts(Size, PartSize) + 1)
  BY <1>1, PartsFinite DEF Parts
<1>6. TypeOK'
  BY <1>1, <1>3, <1>4, <1>5 DEF IInv, TypeOK, errors, service
<1>7. Scheduling'
  <2>1. ASSUME NEW q \in Parts PROVE part'[q] = "idle" <=> q >= next'
    <3>1. q \in Nat /\ next \in Nat
      BY <1>1, PartsFinite
    <3>2. part[q] = "idle" <=> q >= next
      BY DEF IInv, Scheduling
    <3>3. QED
      BY <3>1, <3>2, <1>1, <1>3
  <2>2. QED
    BY <2>1, <1>1 DEF Scheduling
<1>8. Blame'
  BY <1>1, <1>3 DEF IInv, Blame, partCtxDone, errors
<1>9. Collected'
  <2>1. next \notin results
    BY <1>2 DEF IInv, Collected
  <2>2. QED
    BY <2>1, <1>1, <1>3 DEF IInv, TypeOK, Collected, errors, service, Bytes
<1>10. Completion'
  BY <1>1, <1>2 DEF Completion, CompleteCarriesAll, service
<1>11. QED
  BY <1>4, <1>6, <1>7, <1>8, <1>9, <1>10 DEF IInv

LEMMA StopSchedulingInv == ASSUME IInv, StopScheduling PROVE IInv'
<1>1. /\ pc = "schedule" /\ pc' = "wait" /\ (partCtxDone \/ next \notin Parts)
      /\ UNCHANGED <<next, goroutines, errors, ctxDone, results, service, outcome>>
  BY DEF StopScheduling
<1>2. payload = Nothing
  BY <1>1 DEF IInv, Completion
<1>3. TypeOK'
  BY <1>1 DEF IInv, TypeOK, goroutines, errors, service
<1>4. Counts' /\ Collected'
  BY <1>1, CallerAlone DEF service
<1>5. Scheduling'
  BY <1>1 DEF IInv, Scheduling, partCtxDone, goroutines, errors
<1>6. Blame'
  BY <1>1 DEF IInv, Blame, partCtxDone, goroutines, errors
<1>7. Completion'
  BY <1>1, <1>2 DEF Completion, CompleteCarriesAll, service
<1>8. QED
  BY <1>3, <1>4, <1>5, <1>6, <1>7 DEF IInv

LEMMA JoinInv == ASSUME IInv, Join PROVE IInv'
<1>1. /\ pc = "wait" /\ running = 0
      /\ \/ firstErr = "none" /\ pc' = "complete" /\ UNCHANGED outcome
         \/ firstErr = "ctx" /\ pc' = "done" /\ outcome' = "ctxErr"
         \/ firstErr \notin {"none", "ctx"} /\ pc' = "done" /\ outcome' = firstErr
      /\ UNCHANGED <<next, goroutines, errors, ctxDone, results, service>>
  BY DEF Join, allDone, Return
<1>2. Running = {}
  BY <1>1, CountedSetsFinite, FS_EmptySet DEF IInv, Counts
<1>3. payload = Nothing
  BY <1>1 DEF IInv, Completion
<1>4. TypeOK'
  BY <1>1 DEF IInv, TypeOK, goroutines, errors, service, PartErrors, Outcomes
<1>5. Counts' /\ Collected'
  BY <1>1, CallerAlone DEF service
<1>6. Scheduling'
  <2>1. Running' = {}
    BY <1>1, <1>2 DEF Running, goroutines
  <2>2. QED
    BY <2>1, <1>1 DEF IInv, Scheduling, partCtxDone, goroutines, errors
<1>7. Blame'
  BY <1>1 DEF IInv, TypeOK, PartErrors, Blame, partCtxDone, goroutines, errors
<1>8. Completion'
  BY <1>1, <1>3 DEF Completion, CompleteCarriesAll, service
<1>9. QED
  BY <1>4, <1>5, <1>6, <1>7, <1>8 DEF IInv

\* With no error recorded nothing has been cancelled: unless the caller's
\* context has ended, every part was scheduled, and has come through.
LEMMA CompleteCheckInv == ASSUME IInv, CompleteCheck PROVE IInv'
<1>1. /\ pc = "complete" /\ pc' \in {"completing", "done"}
      /\ \/ /\ pc' = "done" /\ UNCHANGED payload
            /\ outcome' = "completeErr" \/ (ctxDone /\ outcome' = "ctxErr")
         \/ /\ ~ctxDone /\ pc' = "completing" /\ UNCHANGED outcome
            /\ payload' = [p \in Parts |-> IF p \in results THEN p ELSE 0]
      /\ UNCHANGED <<next, goroutines, errors, ctxDone, results, stored, object,
                     late>>
  BY DEF CompleteCheck, Return
<1>2. Running = {} /\ payload = Nothing /\ firstErr = "none"
  BY <1>1 DEF IInv, Scheduling, Blame, Completion
<1>3. ~ctxDone => results = Parts
  <2> SUFFICES ASSUME ~ctxDone PROVE results = Parts
    OBVIOUS
  <2>1. ~partCtxDone
    BY <1>2 DEF IInv, Blame, partCtxDone
  <2>2. next \notin Parts
    BY <2>1, <1>1 DEF IInv, Scheduling
  <2>3. next > numParts(Size, PartSize)
    BY <2>2, PartsFinite DEF IInv, TypeOK, Parts
  <2>4. ASSUME NEW p \in Parts PROVE part[p] = "ended"
    <3>1. p < next
      BY <2>3, PartsFinite DEF IInv, TypeOK, Parts
    <3>2. part[p] # "idle"
      BY <3>1, PartsFinite DEF IInv, TypeOK, Scheduling
    <3>3. QED
      BY <3>2, <1>2 DEF Running
  <2>5. QED
    BY <2>4, <1>2 DEF IInv, TypeOK, Collected
<1>4. payload' \in {Nothing} \cup [Parts -> Nat]
  BY <1>1, <1>2, PartsFinite
<1>5. TypeOK'
  BY <1>1, <1>4 DEF IInv, TypeOK, goroutines, errors, Outcomes
<1>6. Counts' /\ Collected'
  BY <1>1, CallerAlone
<1>7. Scheduling'
  <2>1. Running' = {}
    BY <1>1, <1>2 DEF Running, goroutines
  <2>2. QED
    BY <2>1, <1>1 DEF IInv, Scheduling, goroutines
<1>8. Blame'
  BY <1>1 DEF IInv, Blame, partCtxDone, goroutines, errors
<1>9. Completion'
  <2>1. payload' # Nothing =>
          payload' = [p \in Parts |-> p] /\ \A p \in Parts : stored[p] = Bytes(p)
    BY <1>1, <1>2, <1>3 DEF IInv, Collected
  <2>2. QED
    BY <2>1, <1>1, <1>2 DEF Completion, CompleteCarriesAll, errors, Bytes
<1>10. QED
  BY <1>5, <1>6, <1>7, <1>8, <1>9 DEF IInv

LEMMA CompleteAnsweredInv == ASSUME IInv, CompleteAnswered PROVE IInv'
<1>1. /\ pc = "completing" /\ pc' = "done"
      /\ outcome' \in {"url", "completeErr"} \/ (outcome' = "ctxErr" /\ ctxDone)
      /\ object' \in {object, Assembled}
      /\ UNCHANGED <<next, goroutines, errors, ctxDone, results, stored, payload,
                     late>>
  BY DEF CompleteAnswered, Return
<1>2. TypeOK'
  BY <1>1 DEF IInv, TypeOK, Assembled, goroutines, errors, Outcomes
<1>3. Counts' /\ Collected'
  BY <1>1, CallerAlone
<1>4. Scheduling'
  BY <1>1 DEF IInv, Scheduling, Running, goroutines
<1>5. Blame'
  BY <1>1 DEF IInv, Blame, partCtxDone, goroutines, errors
<1>6. Completion'
  BY <1>1 DEF IInv, Completion, CompleteCarriesAll, errors, Bytes
<1>7. QED
  BY <1>2, <1>3, <1>4, <1>5, <1>6 DEF IInv

LEMMA ContextEndsInv == ASSUME IInv, ContextEnds PROVE IInv'
<1>1. /\ ctxDone' = TRUE
      /\ UNCHANGED <<caller, goroutines, errors, results, service, outcome>>
  BY DEF ContextEnds
<1>2. TypeOK'
  BY <1>1 DEF IInv, TypeOK, caller, goroutines, errors, service
<1>3. Counts' /\ Collected'
  BY <1>1, CallerAlone DEF service
<1>4. Scheduling'
  BY <1>1 DEF IInv, Scheduling, Running, partCtxDone, caller, goroutines
<1>5. Blame'
  BY <1>1 DEF IInv, Blame, partCtxDone, caller, goroutines, errors
<1>6. Completion'
  BY <1>1 DEF IInv, Completion, CompleteCarriesAll, caller, errors, service, Bytes
<1>7. QED
  BY <1>2, <1>3, <1>4, <1>5, <1>6 DEF IInv

-----------------------------------------------------------------------------
(* The invariant, and what follows from it. *)

LEMMA GoroutineInv ==
  ASSUME IInv, NEW p \in Parts, Goroutine(p) \/ PutFlight(p) PROVE IInv'
BY ReadPartInv, PutCheckInv, PutSendInv, PutAnsweredInv, PutFailedInv,
   RecordErrInv, CancelRestInv, ReleaseTokenInv, FinishInv
   DEF Goroutine, PutFlight

LEMMA StepInv == IInv /\ [Next]_vars => IInv'
<1> SUFFICES ASSUME IInv, [Next]_vars PROVE IInv'
  OBVIOUS
<1>1. CASE Caller \/ CallerFlight
  BY <1>1, CreateCheckInv, CreateAnsweredInv, ScheduleInv, StopSchedulingInv,
     JoinInv, CompleteCheckInv, CompleteAnsweredInv DEF Caller, CallerFlight
<1>2. CASE \E p \in Parts : Goroutine(p) \/ PutFlight(p)
  BY <1>2, GoroutineInv
<1>3. CASE ContextEnds
  BY <1>3, ContextEndsInv
<1>4. CASE UNCHANGED vars
  <2>1. /\ UNCHANGED <<caller, goroutines, errors, ctxDone, results, service, outcome>>
        /\ Holding' = Holding /\ Running' = Running
    BY <1>4 DEF vars, Holding, Running, goroutines
  <2>2. TypeOK'
    BY <2>1 DEF IInv, TypeOK, caller, goroutines, errors, service
  <2>3. Counts' /\ Collected'
    BY <2>1, CallerAlone DEF service
  <2>4. Scheduling' /\ Blame'
    BY <2>1 DEF IInv, Scheduling, Blame, partCtxDone, caller, goroutines, errors
  <2>5. Completion'
    BY <2>1 DEF IInv, Completion, CompleteCarriesAll, caller, errors, service, Bytes
  <2>6. QED
    BY <2>2, <2>3, <2>4, <2>5 DEF IInv
<1>5. QED
  BY <1>1, <1>2, <1>3, <1>4 DEF Next, Returned

\* Every reachable state of an upload satisfies the inductive invariant.
THEOREM Inductive == Spec => []IInv
BY InitInv, StepInv, PTL DEF Spec

\* The variables keep their types, whatever the size, the part size and the
\* concurrency: the semaphore never holds more tokens than it has room for.
THEOREM TypeCorrect == Spec => []TypeOK
<1>1. IInv => TypeOK
  BY DEF IInv
<1>2. QED
  BY <1>1, Inductive, PTL

\* At most Concurrency buffers exist at a time (multipart.go:132).
THEOREM BuffersBounded == Spec => []BoundedBuffers
<1>1. IInv => BoundedBuffers
  BY PartsFinite DEF IInv, TypeOK, Counts, BoundedBuffers
<1>2. QED
  BY <1>1, Inductive, PTL

\* What follows wg.Wait runs alone (multipart.go:175).
THEOREM GoroutinesJoined == Spec => []JoinedBeforeUse
<1>1. IInv => JoinedBeforeUse
  BY DEF IInv, Scheduling, JoinedBeforeUse, Running
<1>2. QED
  BY <1>1, Inductive, PTL

\* A context error is returned only when the caller's context has ended.
THEOREM ErrorIsCause == Spec => []FirstErrorIsCause
<1>1. IInv => FirstErrorIsCause
  BY DEF IInv, Blame, FirstErrorIsCause
<1>2. QED
  BY <1>1, Inductive, PTL

\* The complete request lists every part, in order, each stored whole, and is
\* never sent after a failure or a scheduling loop cut short.
THEOREM CompletionCarriesAll == Spec => []CompleteCarriesAll
<1>1. IInv => CompleteCarriesAll
  BY DEF IInv, Completion
<1>2. QED
  BY <1>1, Inductive, PTL

-----------------------------------------------------------------------------
(* The parts that are sent late. *)

\* The parts that are past the look at their context are all that can still be
\* sent once it has ended; they held a token when it did.
Checked == {p \in Parts : part[p] = "checked"}
Sendable == late \cup Checked

LateParts ==
  /\ ~partCtxDone => late = {}
  /\ partCtxDone => Cardinality(Sendable) <= IF ctxDone THEN Slots ELSE Slots - 1

LEMMA SendableFinite ==
  IInv => IsFiniteSet(Sendable) /\ Sendable \subseteq Parts /\ Cardinality(Sendable) \in Nat
<1> SUFFICES ASSUME IInv
             PROVE  IsFiniteSet(Sendable) /\ Sendable \subseteq Parts
                    /\ Cardinality(Sendable) \in Nat
  OBVIOUS
<1>1. Sendable \subseteq Parts
  BY DEF IInv, TypeOK, Sendable, Checked
<1> QED BY <1>1, PartsFinite, FS_Subset, FS_CardinalityType

\* While the context goes on, no part is late and those that are past the look
\* hold a token; a part that is about to call the others off holds one as well.
LEMMA CheckedHoldTokens ==
  ASSUME IInv, late = {}
  PROVE  /\ Cardinality(Sendable) <= Slots
         /\ \A p \in Parts : part[p] = "recorded" => Cardinality(Sendable) <= Slots - 1
<1>1. Sendable \subseteq Holding
  BY DEF Sendable, Checked, Holding
<1>2. Cardinality(Holding) <= Slots /\ Cardinality(Holding) \in Nat /\ Slots \in Nat
  BY CountedSetsFinite, PartsFinite DEF IInv, TypeOK, Counts
<1>3. Cardinality(Sendable) <= Cardinality(Holding)
  BY <1>1, CountedSetsFinite, FS_Subset
<1>4. ASSUME NEW p \in Parts, part[p] = "recorded"
      PROVE  Cardinality(Sendable) <= Slots - 1
  <2>1. p \in Holding /\ Sendable \subseteq Holding \ {p}
    BY <1>4 DEF Sendable, Checked, Holding
  <2>2. IsFiniteSet(Holding \ {p}) /\ Cardinality(Holding \ {p}) = Cardinality(Holding) - 1
    BY <2>1, CountedSetsFinite, FS_RemoveElement
  <2>3. Cardinality(Sendable) <= Cardinality(Holding \ {p})
    BY <2>1, <2>2, FS_Subset
  <2> QED BY <1>2, <2>2, <2>3, SendableFinite
<1> QED BY <1>2, <1>3, <1>4, SendableFinite

\* Where the context has ended before, no part passes the look any more.
LEMMA NothingNewSendable ==
  ASSUME IInv, partCtxDone, [Next]_vars
  PROVE  Sendable' \subseteq Sendable
<1>1. CASE \E p \in Parts : PutCheck(p) \/ PutSend(p)
  <2>1. PICK p \in Parts : PutCheck(p) \/ PutSend(p)
    BY <1>1
  <2>2. CASE PutCheck(p)
    BY <2>2 DEF PutCheck, Fail, Goto, Sendable, Checked, IInv, TypeOK, service
  <2>3. CASE PutSend(p)
    BY <2>3 DEF PutSend, Goto, Sendable, Checked, IInv, TypeOK
  <2> QED BY <2>1, <2>2, <2>3
<1>2. CASE \E p \in Parts : \/ ReadPart(p) \/ PutAnswered(p) \/ PutFailed(p)
                            \/ recordErr(p) \/ CancelRest(p) \/ ReleaseToken(p) \/ Finish(p)
  <2>1. PICK p \in Parts, s \in GoroutineStates \ {"checked"} : Goto(p, s) /\ UNCHANGED late
    BY <1>2 DEF ReadPart, PutAnswered, PutFailed, recordErr, CancelRest, ReleaseToken,
       Finish, Fail, service, GoroutineStates
  <2> QED BY <2>1 DEF Goto, Sendable, Checked, IInv, TypeOK
<1>3. CASE Schedule
  BY <1>3 DEF Schedule, Sendable, Checked, IInv, TypeOK, service
<1>4. CASE \/ CreateCheck \/ StopScheduling \/ Join \/ CompleteCheck \/ CallerFlight
           \/ ContextEnds \/ UNCHANGED vars
  <2>1. UNCHANGED <<part, late>>
    BY <1>4 DEF CreateCheck, StopScheduling, Join, CompleteCheck, CallerFlight,
       CreateAnswered, CompleteAnswered, ContextEnds, vars, goroutines, service
  <2> QED BY <2>1 DEF Sendable, Checked
<1> QED BY <1>1, <1>2, <1>3, <1>4 DEF Next, Caller, Goroutine, PutFlight, Returned

\* The context of the parts ends by itself, or in the step of the part that
\* calls it off.
LEMMA ContextSteps ==
  ASSUME [Next]_vars
  PROVE  /\ ctxDone => ctxDone'
         /\ cancelled => cancelled'
         /\ cancelled' => cancelled \/ \E p \in Parts : part[p] = "recorded"
         /\ ctxDone' # ctxDone \/ cancelled' # cancelled => late' = late
         /\ ctxDone' # ctxDone => cancelled' = cancelled
BY DEF Next, Caller, CallerFlight, Goroutine, PutFlight, CreateCheck, CreateAnswered,
   Schedule, StopScheduling, Join, CompleteCheck, CompleteAnswered, ReadPart, PutCheck,
   PutSend, PutAnswered, PutFailed, recordErr, CancelRest, ReleaseToken, Finish,
   ContextEnds, Returned, vars, errors, private, service

\* A part is late only when the context had ended before it was sent.
LEMMA NoneLateYet ==
  ASSUME IInv, LateParts, [Next]_vars, ~partCtxDone
  PROVE  late = {} /\ late' = {}
<1>1. late = {}
  BY DEF LateParts
<1>2. late' = late
  BY DEF Next, Caller, CallerFlight, Goroutine, PutFlight, CreateCheck, CreateAnswered,
     Schedule, StopScheduling, Join, CompleteCheck, CompleteAnswered, ReadPart, PutCheck,
     PutSend, PutAnswered, PutFailed, recordErr, CancelRest, ReleaseToken, Finish,
     ContextEnds, Returned, vars, service
<1> QED BY <1>1, <1>2

\* The step that ends the context lets no further part past the look at it.
LEMMA EndingKeepsParts ==
  ASSUME IInv, [Next]_vars, ~partCtxDone, partCtxDone'
  PROVE  /\ Checked' \subseteq Checked
         /\ ctxDone' \/ \E p \in Parts : part[p] = "recorded"
<1>1. CASE ContextEnds
  BY <1>1 DEF ContextEnds, Checked, goroutines
<1>2. CASE \E p \in Parts : CancelRest(p)
  BY <1>2 DEF CancelRest, Goto, Checked, IInv, TypeOK
<1>3. CASE ~ContextEnds /\ ~\E p \in Parts : CancelRest(p)
  <2>1. UNCHANGED <<cancelled, ctxDone>>
    BY <1>3 DEF Next, Caller, CallerFlight, Goroutine, PutFlight, CreateCheck,
       CreateAnswered, Schedule, StopScheduling, Join, CompleteCheck, CompleteAnswered,
       ReadPart, PutCheck, PutSend, PutAnswered, PutFailed, recordErr, ReleaseToken,
       Finish, Returned, vars, errors, private
  <2> QED BY <2>1 DEF partCtxDone
<1> QED BY <1>1, <1>2, <1>3

LEMMA LatePartsStep == ASSUME IInv, LateParts, [Next]_vars PROVE LateParts'
<1>1. Slots \in Nat \ {0} /\ ctxDone \in BOOLEAN /\ cancelled \in BOOLEAN
  BY PartsFinite DEF IInv, TypeOK
<1>2. /\ IsFiniteSet(Sendable) /\ Cardinality(Sendable) \in Nat
      /\ \A S : S \subseteq Sendable =>
           Cardinality(S) \in Nat /\ Cardinality(S) <= Cardinality(Sendable)
  BY SendableFinite, FS_Subset, FS_CardinalityType
<1>3. CASE ~partCtxDone /\ ~partCtxDone'
  BY <1>3, NoneLateYet DEF LateParts
<1>4. CASE ~partCtxDone /\ partCtxDone'
  <2>1. late = {} /\ late' = {} /\ Checked' \subseteq Checked
        /\ (ctxDone' \/ \E p \in Parts : part[p] = "recorded")
    BY <1>4, NoneLateYet, EndingKeepsParts
  <2>2. Sendable' \subseteq Sendable
    BY <2>1 DEF Sendable
  <2>3. Cardinality(Sendable) <= Slots
        /\ \A p \in Parts : part[p] = "recorded" => Cardinality(Sendable) <= Slots - 1
    BY <2>1, CheckedHoldTokens
  <2>4. Cardinality(Sendable') <= Cardinality(Sendable) /\ Cardinality(Sendable') \in Nat
    BY <1>2, <2>2
  <2>5. Slots' = Slots
    BY DEF Slots
  <2>6. Cardinality(Sendable') <= IF ctxDone' THEN Slots ELSE Slots - 1
    BY <1>1, <1>2, <2>1, <2>3, <2>4
  <2> QED BY <1>4, <2>6 DEF LateParts
<1>5. CASE partCtxDone
  <2>1. Sendable' \subseteq Sendable
    BY <1>5, NothingNewSendable
  <2>2. Cardinality(Sendable') <= Cardinality(Sendable) /\ Cardinality(Sendable') \in Nat
    BY <1>2, <2>1
  <2>3. (ctxDone => ctxDone') /\ partCtxDone'
    BY <1>5, ContextSteps DEF partCtxDone
  <2>4. Cardinality(Sendable) <= IF ctxDone THEN Slots ELSE Slots - 1
    BY <1>5 DEF LateParts
  <2>5. Cardinality(Sendable') <= IF ctxDone' THEN Slots ELSE Slots - 1
    BY <1>1, <1>2, <2>2, <2>3, <2>4
  <2> QED BY <2>3, <2>5 DEF LateParts
<1> QED BY <1>3, <1>4, <1>5

\* Once a part has failed, or the caller's context has ended, at most the parts
\* that held a token then are still sent, the failing one not among them.
THEOREM LatePartsBounded == Spec => []BoundedLateParts
<1>1. Init => LateParts
  <2> SUFFICES ASSUME Init PROVE LateParts
    OBVIOUS
  <2>1. late = {} /\ Sendable = {}
    BY DEF Init, Sendable, Checked
  <2>2. Slots \in Nat \ {0} /\ Cardinality({}) = 0 /\ ~cancelled
    BY PartsFinite, FS_EmptySet DEF Init
  <2> QED BY <2>1, <2>2 DEF LateParts, partCtxDone
<1>2. IInv /\ LateParts /\ [Next]_vars => LateParts'
  BY LatePartsStep
<1>3. IInv /\ LateParts => BoundedLateParts
  <2> SUFFICES ASSUME IInv, LateParts PROVE BoundedLateParts
    OBVIOUS
  <2>1. Slots \in Nat \ {0} /\ ctxDone \in BOOLEAN /\ Cardinality({}) = 0
    BY PartsFinite, FS_EmptySet DEF IInv, TypeOK
  <2>2. CASE ~partCtxDone
    BY <2>1, <2>2 DEF LateParts, BoundedLateParts
  <2>3. CASE partCtxDone
    <3>1. late \subseteq Sendable
      BY DEF Sendable
    <3>2. Cardinality(late) <= Cardinality(Sendable) /\ Cardinality(late) \in Nat
          /\ Cardinality(Sendable) \in Nat
      BY <3>1, SendableFinite, FS_Subset, FS_CardinalityType
    <3> QED BY <2>1, <2>3, <3>2 DEF LateParts, BoundedLateParts
  <2> QED BY <2>2, <2>3
<1> QED BY Inductive, <1>1, <1>2, <1>3, PTL DEF Spec

-----------------------------------------------------------------------------
(* The refinement of AtomicUpload. *)

\* The object exists only once the complete request has been answered, and
\* that request lists something.
Undecided ==
  /\ pc # "done" => outcome = "running" /\ object = "absent"
  /\ pc = "completing" => payload # Nothing
  /\ object \in {"absent", "whole"}

LEMMA ListsSomething == [p \in Parts |-> IF p \in results THEN p ELSE 0] # Nothing
<1> DEFINE list == [p \in Parts |-> IF p \in results THEN p ELSE 0]
<1>1. 1 \in DOMAIN list
  BY PartsFinite DEF Parts
<1>2. 1 \notin DOMAIN Nothing
  BY DEF Nothing
<1>3. QED
  BY <1>1, <1>2

LEMMA AssembledWhole ==
  IInv /\ Undecided /\ pc = "completing" => Assembled = "whole"
<1> SUFFICES ASSUME IInv, Undecided, pc = "completing" PROVE Assembled = "whole"
  OBVIOUS
<1>1. /\ payload = [p \in Parts |-> p]
      /\ \A p \in Parts : stored[p] = Bytes(p)
  BY DEF IInv, Undecided, Completion, CompleteCarriesAll
<1>2. UNION {stored[p] : p \in Parts} = 0 .. (Size - 1)
  <2>1. ASSUME NEW b \in 0 .. (Size - 1)
        PROVE  \E p \in Parts : b \in stored[p]
    <3>1. Tiles(Size, PartSize)
      BY PartsTileObject
    <3>2. PICK p \in Parts : b \in Bytes(p)
      BY <3>1 DEF Tiles, Parts, Bytes
    <3>3. QED
      BY <1>1, <3>2
  <2>2. \A p \in Parts : stored[p] \subseteq 0 .. (Size - 1)
    BY <1>1, BytesInside
  <2>3. QED
    BY <2>1, <2>2
<1>3. ASSUME NEW p \in Parts, NEW q \in Parts, p < q,
             NEW b \in stored[p], NEW c \in stored[q]
      PROVE  b < c
  <2>1. p \in Nat \ {0} /\ q \in Nat \ {0}
    BY PartsFinite DEF Parts
  <2>2. b \in PartBytes(p, Size, PartSize) /\ c \in PartBytes(q, Size, PartSize)
    BY <1>1 DEF Bytes
  <2>3. QED
    BY <2>1, <2>2, <1>3, PartsInOrder
<1>4. QED
  BY <1>1, <1>2, <1>3 DEF Assembled

\* A call that returns takes a ReturnError or a StoreAndReturn; every other
\* step stutters.
LEMMA StepSimulates ==
  IInv /\ Undecided /\ [Next]_vars => Undecided' /\ [Atomic!Next]_(Atomic!vars)
<1> SUFFICES ASSUME IInv, Undecided, [Next]_vars
             PROVE  Undecided' /\ [Atomic!Next]_(Atomic!vars)
  OBVIOUS
<1> USE DEF Undecided, Atomic!Next, Atomic!vars, Atomic!StoreAndReturn,
        Atomic!ReturnError, verdict
<1>1. CASE CreateCheck \/ CreateAnswered
  BY <1>1 DEF CreateCheck, CreateAnswered, Return, service
<1>2. CASE Schedule \/ StopScheduling \/ ContextEnds
  BY <1>2 DEF Schedule, StopScheduling, ContextEnds, service, caller
<1>3. CASE Join
  <2>1. firstErr \in PartErrors
    BY DEF IInv, TypeOK
  <2>2. \/ outcome' = outcome /\ pc' = "complete"
        \/ outcome' \in {"ctxErr", "read", "put"} /\ pc' = "done"
    BY <1>3, <2>1 DEF Join, Return, PartErrors
  <2>3. pc = "wait" /\ UNCHANGED <<object, payload>>
    BY <1>3 DEF Join, service
  <2>4. QED
    BY <2>2, <2>3
<1>4. CASE CompleteCheck
  <2>1. pc = "complete" /\ UNCHANGED object
    BY <1>4 DEF CompleteCheck
  <2>2. CASE pc' = "done"
    <3>1. outcome' \in {"completeErr", "ctxErr"}
      BY <1>4, <2>2 DEF CompleteCheck, Return
    <3>2. QED
      BY <2>1, <2>2, <3>1
  <2>3. CASE pc' # "done"
    <3>1. pc' = "completing" /\ UNCHANGED outcome /\ payload' # Nothing
      BY <1>4, <2>3, ListsSomething DEF CompleteCheck, Return
    <3>2. QED
      BY <2>1, <3>1
  <2>4. QED
    BY <2>2, <2>3
<1>5. CASE CompleteAnswered
  <2>1. Assembled = "whole" /\ pc = "completing"
    BY <1>5, AssembledWhole DEF CompleteAnswered
  <2>2. /\ pc' = "done"
        /\ \/ object' = "whole" /\ outcome' = "url"
           \/ object' \in {object, "whole"} /\ outcome' \in {"completeErr", "ctxErr"}
    BY <1>5, <2>1 DEF CompleteAnswered, Return
  <2>3. QED
    BY <2>1, <2>2
<1>6. CASE \E p \in Parts : Goroutine(p) \/ PutFlight(p)
  <2>1. UNCHANGED <<pc, payload, object, outcome>>
    BY <1>6 DEF Goroutine, PutFlight, ReadPart, PutCheck, PutSend, PutAnswered,
       PutFailed, recordErr, CancelRest, ReleaseToken, Finish, private, caller,
       service
  <2>2. QED
    BY <2>1
<1>7. CASE UNCHANGED vars
  BY <1>7 DEF vars, caller, service
<1>8. QED
  BY <1>1, <1>2, <1>3, <1>4, <1>5, <1>6, <1>7
     DEF Next, Returned, Caller, CallerFlight

\* A multipart upload stores the object whole or not at all, and returns a URL
\* only for a stored object (uploadV3Multipart).
THEOREM ImplementsAtomicUpload == Spec => StoresAtomically
<1>1. Init => Undecided /\ Atomic!Init
  BY DEF Init, Undecided, Atomic!Init, verdict
<1>2. QED
  BY <1>1, StepSimulates, Inductive, PTL DEF Spec, StoresAtomically, Atomic!Spec

\* What every upload of the abstract kind promises.
LEMMA AtomicPromise == Atomic!Spec => []Atomic!UrlOfWhole /\ Atomic!Settled
<1> USE DEF Atomic!UrlOfWhole
<1>1. Atomic!Init => Atomic!UrlOfWhole
  BY DEF Atomic!Init
<1>2. Atomic!UrlOfWhole /\ [Atomic!Next]_(Atomic!vars) => Atomic!UrlOfWhole'
  BY DEF Atomic!Next, Atomic!Store, Atomic!ReturnURL, Atomic!StoreAndReturn,
     Atomic!ReturnError, Atomic!vars
<1>3. [Atomic!Next]_(Atomic!vars) => [verdict = "running"]_(Atomic!vars)
  BY DEF Atomic!Next, Atomic!Store, Atomic!ReturnURL, Atomic!StoreAndReturn,
     Atomic!ReturnError
<1>4. QED
  BY <1>1, <1>2, <1>3, PTL DEF Atomic!Spec, Atomic!Settled

\* So does a multipart upload: it returns the URL of a whole object only, and once
\* it has returned, no goroutine or late answer changes the object any more.
THEOREM UrlIsFinal == Spec => []Atomic!UrlOfWhole /\ Atomic!Settled
<1>1. Atomic!Spec => []Atomic!UrlOfWhole /\ Atomic!Settled
  BY AtomicPromise
<1>2. Spec => Atomic!Spec
  BY ImplementsAtomicUpload DEF StoresAtomically
<1>3. QED
  BY <1>1, <1>2
=============================================================================

---------------------------- MODULE RealtimeProofs ----------------------------
(***************************************************************************)
(* What module Realtime promises of Recv and of concurrent Closes, for any *)
(* number of closers and of frames.                                        *)
(***************************************************************************)
EXTENDS Realtime, TLAPS

\* Nothing is called before the connection is open.
Opening ==
  /\ \A call \in {"recv", "send"} : call \in busy => pc = "open"
  /\ \A c \in Closers : closer[c] # "idle" => pc = "open"

\* closeOnce runs its function once, in one goroutine; when it has, the connection
\* is closed, and closeErr does not change any more.
Closing ==
  /\ once \in {"new", "running", "done"} /\ closeErr \in {"none", "nil", "error"}
  /\ closeResult \in [Closers -> {"none", "nil", "error"}]
  /\ conn = "closing" => once # "new"
  /\ once = "done" => conn = "closed" /\ closeErr # "none"
  /\ \A c \in Closers : closer[c] = "running" =>
       once = "running" /\ \A d \in Closers : closer[d] = "running" => d = c

\* A frame in hand is the last one taken; a normal closure is the service's, or
\* the answer to our own.
InHand ==
  /\ read \in Frames => taken > 0 /\ read = sent[taken]
  /\ read = "closed" => end = "normal" \/ once # "new"

Inv == TypeOK /\ Opening /\ Closing /\ InHand /\ RecvInOrder

-----------------------------------------------------------------------------
\* The initial state satisfies the invariant.
LEMMA InitInv == Init => Inv
BY DEF Init, Inv, TypeOK, Opening, Closing, InHand, RecvInOrder, Calls, Frames

\* What Recv has returned is judged by the frames it was returned for only.
LEMMA SameResults ==
  ASSUME Inv, UNCHANGED <<sent, taken, results>>,
         UNCHANGED read \/ (read \notin Frames /\ read' \notin Frames),
         failure' = "EOF" => end' = "normal" \/ once' # "new"
  PROVE  RecvInOrder'
BY DEF Inv, RecvInOrder

\* The same, where Recv does not return and no close begins anew.
LEMMA SameReceiver ==
  ASSUME Inv, UNCHANGED <<sent, receiver, end>>, once = once' \/ once' # "new"
  PROVE  InHand' /\ RecvInOrder'
<1>1. UNCHANGED <<taken, read, results, failure>>
  BY DEF receiver
<1>2. InHand'
  BY <1>1 DEF Inv, InHand
<1> QED BY <1>1, <1>2, SameResults DEF Inv, RecvInOrder

-----------------------------------------------------------------------------
(* Realtime. *)

\* The call goes on, without a connection yet.
LEMMA OpenInv ==
  ASSUME Inv, pc \notin {"open", "failed"},
         NEW place \in {"auth", "mint", "url", "dial", "failed"}, Goto(place), UNCHANGED conn
  PROVE  Inv'
<1> USE DEF Goto, End, peer, receiver, closing
<1>1. TypeOK'
  BY DEF Inv, TypeOK, Calls
<1>2. Opening' /\ Closing'
  BY DEF Inv, TypeOK, Opening, Closing
<1>3. InHand' /\ RecvInOrder'
  BY SameReceiver
<1> QED BY <1>1, <1>2, <1>3 DEF Inv

LEMMA DialledInv == ASSUME Inv, Dialled PROVE Inv'
<1> USE DEF Dialled, Goto, End, peer, receiver, closing
<1>1. TypeOK'
  BY DEF Inv, TypeOK, Calls
<1>2. Opening' /\ Closing'
  BY DEF Inv, TypeOK, Opening, Closing
<1>3. InHand' /\ RecvInOrder'
  BY SameReceiver
<1> QED BY <1>1, <1>2, <1>3 DEF Inv

-----------------------------------------------------------------------------
(* Recv and Send. *)

LEMMA BeginInv == ASSUME Inv, NEW call \in Calls, Begin(call) PROVE Inv'
<1> USE DEF Begin, peer, receiver, closing
<1>1. TypeOK'
  BY DEF Inv, TypeOK, Calls
<1>2. Opening' /\ Closing'
  BY DEF Inv, Opening, Closing
<1>3. InHand' /\ RecvInOrder'
  BY SameReceiver
<1> QED BY <1>1, <1>2, <1>3 DEF Inv

\* The frame that is taken is in hand.
LEMMA ReadFrameInv == ASSUME Inv, ReadFrame PROVE Inv'
<1>1. /\ sent \in Seq(Frames) /\ taken \in 0 .. Len(sent) /\ taken' = taken + 1
      /\ taken < Len(sent) /\ taken' \in 0 .. Len(sent)
      /\ read = "nothing" /\ read' = sent[taken'] /\ read' \in Frames /\ "recv" \in busy
      /\ UNCHANGED <<pc, conn, peer, busy, ctxDone, results, failure, closing>>
  BY DEF ReadFrame, Reading, Inv, TypeOK
<1> USE DEF peer, closing
<1>2. TypeOK'
  BY <1>1 DEF Inv, TypeOK
<1>3. Opening' /\ Closing'
  BY <1>1 DEF Inv, Opening, Closing
<1>4. InHand'
  BY <1>1 DEF InHand, Frames
<1>5. RecvInOrder'
  <2>1. read \notin Frames
    BY <1>1 DEF Frames
  <2>2. {i \in 1 .. taken' : sent[i] # "control" /\ (i = taken' => read' \notin Frames)}
          = {i \in 1 .. taken : sent[i] # "control" /\ (i = taken => read \notin Frames)}
    BY <1>1, <2>1
  <2> QED BY <1>1, <2>2 DEF Inv, RecvInOrder
<1> QED BY <1>2, <1>3, <1>4, <1>5 DEF Inv

\* Read returns an error, a normal closure only where there is one.
LEMMA ReadErrorInv ==
  ASSUME Inv, Reading, conn' \in {conn, "closed"}, NEW error \in {"closed", "failed"},
         ReadError(error), error = "closed" => end = "normal" \/ once # "new"
  PROVE  Inv'
<1> USE DEF ReadError, Reading, peer, closing
<1>1. TypeOK'
  BY DEF Inv, TypeOK, Opening
<1>2. Opening' /\ Closing'
  BY DEF Inv, Opening, Closing
<1>3. InHand'
  BY DEF Inv, InHand, Frames
<1>4. RecvInOrder'
  <2>1. read \notin Frames /\ read' \notin Frames
    BY DEF Frames
  <2> QED BY <2>1, SameResults DEF Inv, RecvInOrder
<1> QED BY <1>1, <1>2, <1>3, <1>4 DEF Inv

LEMMA ReadEndInv == ASSUME Inv, ReadEnd PROVE Inv'
<1>1. end = "none" => once # "new"
  BY DEF ReadEnd, Inv, Closing
<1>2. Reading /\ conn' \in {conn, "closed"}
  BY DEF ReadEnd
<1>3. CASE end \in {"none", "normal"}
  <2>1. ReadError("closed")
    BY <1>3 DEF ReadEnd, ReadError
  <2> QED BY <1>1, <1>2, <1>3, <2>1, ReadErrorInv
<1>4. CASE end \notin {"none", "normal"}
  <2>1. ReadError("failed")
    BY <1>4 DEF ReadEnd, ReadError
  <2> QED BY <1>2, <2>1, ReadErrorInv
<1> QED BY <1>3, <1>4

LEMMA ReadFailsInv == ASSUME Inv, ReadFails PROVE Inv'
BY ReadErrorInv DEF ReadFails

\* A frame that is skipped is a control frame, and any other is returned after all
\* those before it.
LEMMA TakeFrameInv == ASSUME Inv, TakeFrame PROVE Inv'
<1> DEFINE R == [number : Nat, outcome : {"value", "error", "RealtimeError"}]
           result == [number |-> taken, outcome |-> outcome(read)]
<1>1. /\ read \in Frames /\ read' = "nothing" /\ read' \notin Frames
      /\ taken \in 1 .. Len(sent) /\ read = sent[taken] /\ sent \in Seq(Frames)
      /\ UNCHANGED <<pc, conn, peer, taken, failure, closing>>
  BY DEF TakeFrame, Inv, TypeOK, InHand, Frames
<1>2. \/ read = "control" /\ UNCHANGED <<busy, ctxDone, results>>
      \/ read # "control" /\ results' = Append(results, result) /\ End("recv")
  BY DEF TakeFrame, skips
<1>3. /\ result \in R /\ result.number = taken
      /\ result.outcome = "RealtimeError" <=> read = "error"
      /\ result.outcome = "error" <=> read = "garbled"
  BY <1>1 DEF outcome
<1>4. results \in Seq(R)
  BY DEF Inv, TypeOK
<1> HIDE DEF result, R
<1>5. TypeOK'
  <2>1. results' \in Seq(R)
    BY <1>2, <1>3, <1>4
  <2>2. /\ busy' \subseteq Calls /\ ctxDone' \subseteq busy'
        /\ "realtime" \in busy' <=> pc' \notin {"open", "failed"}
    BY <1>1, <1>2 DEF Inv, TypeOK, End
  <2> QED BY <1>1, <2>1, <2>2 DEF Inv, TypeOK, peer, closing, R
<1>6. Opening' /\ Closing' /\ InHand'
  BY <1>1, <1>2 DEF Inv, Opening, Closing, InHand, End, closing
<1>7. RecvInOrder'
  <2>1. CASE read = "control" /\ UNCHANGED results
    <3>1. {i \in 1 .. taken' : sent'[i] # "control" /\ (i = taken' => read' \notin Frames)}
            = {i \in 1 .. taken : sent[i] # "control" /\ (i = taken => read \notin Frames)}
      BY <1>1, <2>1 DEF peer
    <3> QED BY <1>1, <2>1, <3>1 DEF Inv, RecvInOrder, peer, closing
  <2>2. CASE read # "control" /\ results' = Append(results, result)
    <3> DEFINE n == Len(results)
    <3>1. /\ DOMAIN results = 1 .. n /\ DOMAIN results' = 1 .. (n + 1) /\ n \in Nat
          /\ \A k \in 1 .. n : results'[k] = results[k]
          /\ results'[n + 1] = result
      BY <2>2, <1>4, <1>3
    <3> HIDE DEF n
    <3>2. {results[k].number : k \in DOMAIN results} =
            {i \in 1 .. taken : sent[i] # "control" /\ (i = taken => read \notin Frames)}
      BY DEF Inv, RecvInOrder
    <3>3. \A k \in 1 .. n : results[k].number \in 1 .. taken /\ results[k].number # taken
      BY <1>1, <3>1, <3>2
    <3>4. {results'[k].number : k \in DOMAIN results'} =
            {results[k].number : k \in DOMAIN results} \cup {taken}
      BY <3>1, <1>3
    <3>5. {i \in 1 .. taken' : sent'[i] # "control" /\ (i = taken' => read' \notin Frames)} =
            {i \in 1 .. taken : sent[i] # "control" /\ (i = taken => read \notin Frames)}
              \cup {taken}
      BY <1>1, <2>2 DEF peer
    <3>6. \A k \in 1 .. n :
            LET frame == sent[results[k].number] IN
            /\ results[k].outcome = "RealtimeError" <=> frame = "error"
            /\ results[k].outcome = "error" <=> frame = "garbled"
            /\ \A l \in 1 .. n : l < k => results[l].number < results[k].number
      BY <3>1 DEF Inv, RecvInOrder
    <3>7. \A k \in DOMAIN results' :
            LET frame == sent'[results'[k].number] IN
            /\ results'[k].outcome = "RealtimeError" <=> frame = "error"
            /\ results'[k].outcome = "error" <=> frame = "garbled"
            /\ \A l \in DOMAIN results' : l < k => results'[l].number < results'[k].number
      <4>1. ASSUME NEW k \in 1 .. n
            PROVE  LET frame == sent'[results'[k].number] IN
                   /\ results'[k].outcome = "RealtimeError" <=> frame = "error"
                   /\ results'[k].outcome = "error" <=> frame = "garbled"
                   /\ \A l \in DOMAIN results' :
                        l < k => results'[l].number < results'[k].number
        BY <1>1, <3>1, <3>6, <4>1 DEF peer
      <4>2. LET frame == sent'[results'[n + 1].number] IN
            /\ results'[n + 1].outcome = "RealtimeError" <=> frame = "error"
            /\ results'[n + 1].outcome = "error" <=> frame = "garbled"
            /\ \A l \in DOMAIN results' :
                 l < n + 1 => results'[l].number < results'[n + 1].number
        BY <1>1, <1>3, <3>1, <3>3 DEF peer
      <4> QED BY <3>1, <4>1, <4>2
    <3>8. failure' = "EOF" => end' = "normal" \/ once' # "new"
      BY <1>1 DEF Inv, RecvInOrder, peer, closing
    <3> QED BY <3>2, <3>4, <3>5, <3>7, <3>8 DEF RecvInOrder
  <2> QED BY <1>2, <2>1, <2>2
<1> QED BY <1>5, <1>6, <1>7 DEF Inv

\* Recv fails; the end of the stream is told where there is one.
LEMMA RecvFailsInv == ASSUME Inv, RecvFails PROVE Inv'
<1> USE DEF RecvFails, End, peer, closing
<1>1. TypeOK'
  BY DEF Inv, TypeOK, Frames
<1>2. Opening' /\ Closing'
  BY DEF Inv, Opening, Closing
<1>3. InHand'
  BY DEF InHand, Frames
<1>4. RecvInOrder'
  <2>1. read \notin Frames /\ read' \notin Frames
    BY DEF Frames
  <2>2. failure' = "EOF" => end' = "normal" \/ once' # "new"
    BY DEF Inv, InHand
  <2> QED BY <2>1, <2>2, SameResults
<1> QED BY <1>1, <1>2, <1>3, <1>4 DEF Inv

LEMMA SendInv == ASSUME Inv, Sender PROVE Inv'
<1>1. /\ "send" \in busy /\ End("send") /\ conn' \in {conn, "closed"}
      /\ UNCHANGED <<pc, peer, receiver, closing>>
  BY DEF Sender, SendReturns, WriteFails
<1> USE DEF End, peer, receiver, closing
<1>2. TypeOK'
  BY <1>1 DEF Inv, TypeOK, Opening, Calls
<1>3. Opening' /\ Closing'
  BY <1>1 DEF Inv, Opening, Closing
<1>4. InHand' /\ RecvInOrder'
  BY <1>1, SameReceiver
<1> QED BY <1>2, <1>3, <1>4 DEF Inv

-----------------------------------------------------------------------------
(* Close. *)

LEMMA CloseCalledInv == ASSUME Inv, NEW c \in Closers, CloseCalled(c) PROVE Inv'
<1> USE DEF CloseCalled, peer, receiver
<1>1. TypeOK'
  BY DEF Inv, TypeOK, Closing
<1>2. Opening' /\ Closing'
  BY DEF Inv, TypeOK, Opening, Closing
<1>3. InHand' /\ RecvInOrder'
  BY SameReceiver
<1> QED BY <1>1, <1>2, <1>3 DEF Inv

LEMMA OnceBeginsInv == ASSUME Inv, NEW c \in Closers, OnceBegins(c) PROVE Inv'
<1> USE DEF OnceBegins, peer, receiver
<1>1. TypeOK'
  BY DEF Inv, TypeOK, Opening, Closing
<1>2. Opening' /\ Closing'
  BY DEF Inv, TypeOK, Opening, Closing
<1>3. InHand' /\ RecvInOrder'
  BY SameReceiver
<1> QED BY <1>1, <1>2, <1>3 DEF Inv

\* No other goroutine has returned from Close by then.
LEMMA OnceEndsInv == ASSUME Inv, NEW c \in Closers, OnceEnds(c) PROVE Inv'
<1> USE DEF OnceEnds, peer, receiver
<1>1. TypeOK'
  BY DEF Inv, TypeOK, Opening, Closing
<1>2. Opening' /\ Closing'
  BY DEF Inv, TypeOK, Opening, Closing
<1>3. InHand' /\ RecvInOrder'
  BY SameReceiver
<1> QED BY <1>1, <1>2, <1>3 DEF Inv

LEMMA CloseReturnsInv == ASSUME Inv, NEW c \in Closers, CloseReturns(c) PROVE Inv'
<1> USE DEF CloseReturns, onceOver, peer, receiver
<1>1. TypeOK'
  BY DEF Inv, TypeOK, Closing
<1>2. Opening' /\ Closing'
  BY DEF Inv, TypeOK, Opening, Closing
<1>3. InHand' /\ RecvInOrder'
  BY SameReceiver
<1> QED BY <1>1, <1>2, <1>3 DEF Inv

-----------------------------------------------------------------------------
(* The service, and the contexts. *)

\* What is sent now comes after all that has been taken.
LEMMA SendFrameInv == ASSUME Inv, SendFrame PROVE Inv'
<1>1. /\ sent' \in Seq(Frames) /\ Len(sent') = Len(sent) + 1
      /\ \A i \in 1 .. Len(sent) : sent'[i] = sent[i]
      /\ UNCHANGED <<pc, conn, end, busy, ctxDone, receiver, closing>>
  BY DEF SendFrame, Inv, TypeOK
<1> USE DEF receiver, closing
<1>2. TypeOK'
  BY <1>1 DEF Inv, TypeOK
<1>3. Opening' /\ Closing'
  BY <1>1 DEF Inv, Opening, Closing
<1>4. taken \in 0 .. Len(sent) /\ \A i \in 1 .. taken : sent'[i] = sent[i]
  BY <1>1 DEF Inv, TypeOK
<1>5. InHand'
  BY <1>1, <1>4 DEF Inv, InHand
<1>6. RecvInOrder'
  <2>1. \A k \in DOMAIN results : results[k].number \in 1 .. taken
    BY DEF Inv, RecvInOrder
  <2>2. {i \in 1 .. taken' : sent'[i] # "control" /\ (i = taken' => read' \notin Frames)}
          = {i \in 1 .. taken : sent[i] # "control" /\ (i = taken => read \notin Frames)}
    BY <1>1, <1>4
  <2> QED BY <1>1, <1>4, <2>1, <2>2 DEF Inv, RecvInOrder
<1> QED BY <1>2, <1>3, <1>5, <1>6 DEF Inv

LEMMA ServiceEndsInv == ASSUME Inv, ServiceEnds PROVE Inv'
<1> USE DEF ServiceEnds, receiver, closing
<1>1. TypeOK'
  BY DEF Inv, TypeOK
<1>2. Opening' /\ Closing'
  BY DEF Inv, Opening, Closing
<1>3. InHand'
  BY DEF Inv, InHand
<1>4. RecvInOrder'
  BY SameResults DEF Inv, RecvInOrder
<1> QED BY <1>1, <1>2, <1>3, <1>4 DEF Inv

LEMMA ContextEndsInv == ASSUME Inv, NEW call \in Calls, ContextEnds(call) PROVE Inv'
<1> USE DEF ContextEnds, peer, receiver, closing
<1>1. TypeOK'
  BY DEF Inv, TypeOK
<1>2. Opening' /\ Closing' /\ InHand' /\ RecvInOrder'
  BY SameReceiver DEF Inv, Opening, Closing
<1> QED BY <1>1, <1>2 DEF Inv

-----------------------------------------------------------------------------
\* Every step keeps the invariant.
LEMMA NextInv == Inv /\ [Next]_vars => Inv'
<1> SUFFICES ASSUME Inv, [Next]_vars PROVE Inv'
  OBVIOUS
<1>1. CASE Opener \/ MintAnswered
  BY <1>1, OpenInv DEF Opener, Configure, Authenticate, MintAnswered, BuildURL, DialFails
<1>2. CASE Dialled
  BY <1>2, DialledInv
<1>3. CASE Receiver \/ Sender
  BY <1>3, ReadFrameInv, ReadEndInv, ReadFailsInv, TakeFrameInv, RecvFailsInv, SendInv
  DEF Receiver
<1>4. CASE SendFrame \/ ServiceEnds
  BY <1>4, SendFrameInv, ServiceEndsInv
<1>5. CASE \E call \in Calls : Begin(call) \/ ContextEnds(call)
  BY <1>5, BeginInv, ContextEndsInv
<1>6. CASE \E c \in Closers : CloseCalled(c) \/ Closer(c)
  BY <1>6, CloseCalledInv, OnceBeginsInv, OnceEndsInv, CloseReturnsInv DEF Closer
<1>7. CASE UNCHANGED vars
  <2> USE DEF vars, peer, receiver, closing
  <2>1. TypeOK' /\ Opening' /\ Closing'
    BY <1>7 DEF Inv, TypeOK, Opening, Closing
  <2>2. InHand' /\ RecvInOrder'
    BY <1>7, SameReceiver
  <2> QED BY <2>1, <2>2 DEF Inv
<1> QED BY <1>1, <1>2, <1>3, <1>4, <1>5, <1>6, <1>7 DEF Next, Opened, NotOpened

LEMMA Invariance == Spec => []Inv
BY InitInv, NextInv, PTL DEF Spec

\* For any number of goroutines that call Close, each that has returned found the
\* connection closed and has the result of the one close there was.
THEOREM TypeCorrect == Spec => []TypeOK
<1>1. Inv => TypeOK
  BY DEF Inv
<1> QED BY <1>1, Invariance, PTL

\* However contexts end, sends fail and the connection is closed in between, also
\* while Recv has a frame in hand, the calls of Recv return every frame that was
\* taken from the connection and is not a control frame, once and in order, and
\* tell its end only where there is one.
THEOREM FramesInOrder == Spec => []RecvInOrder
<1>1. Inv => RecvInOrder
  BY DEF Inv
<1> QED BY <1>1, Invariance, PTL

\* For any number of closers and of frames, the close is final: what a Recv has in
\* hand by then is the last that comes of the connection (RealtimeConn.Close).
THEOREM CloseIsFinal == Spec => ClosedForGood
<1> DEFINE Final == /\ UNCHANGED <<conn, once, closeErr, taken>>
                    /\ read' \in {read, "nothing", "failed"}
                    /\ results' # results => read \in Frames
                    /\ failure' = "EOF" => failure = "EOF" \/ read = "closed"
<1>1. Inv /\ [Next]_vars => [once = "done" => Final]_vars
  <2> SUFFICES ASSUME Inv, [Next]_vars, once = "done" PROVE Final
    OBVIOUS
  <2>1. conn = "closed" /\ pc = "open" /\ \A c \in Closers : closer[c] # "running"
    BY DEF Inv, Closing, TypeOK
  <2>2. CASE Opener \/ Opened \/ NotOpened \/ UNCHANGED vars
    BY <2>1, <2>2 DEF Opener, Opened, Configure, Authenticate, BuildURL, DialFails,
       MintAnswered, Dialled, NotOpened, vars, receiver, closing
  <2>3. CASE Receiver
    <3>1. CASE ReadFrame \/ ReadEnd \/ ReadFails
      BY <2>1, <3>1 DEF ReadFrame, ReadEnd, ReadFails, ReadError, closing
    <3>2. CASE TakeFrame \/ RecvFails
      BY <3>2 DEF TakeFrame, RecvFails, closing
    <3> QED BY <2>3, <3>1, <3>2 DEF Receiver
  <2>4. CASE Sender
    BY <2>1, <2>4 DEF Sender, SendReturns, WriteFails, receiver, closing
  <2>5. CASE SendFrame \/ ServiceEnds \/ \E call \in Calls : Begin(call) \/ ContextEnds(call)
    BY <2>5 DEF SendFrame, ServiceEnds, Begin, ContextEnds, receiver, closing
  <2>6. CASE \E c \in Closers : CloseCalled(c) \/ Closer(c)
    BY <2>1, <2>6 DEF CloseCalled, Closer, OnceBegins, OnceEnds, CloseReturns, receiver
  <2> QED BY <2>2, <2>3, <2>4, <2>5, <2>6 DEF Next
<1> QED BY Invariance, <1>1, PTL DEF Spec, ClosedForGood
=============================================================================

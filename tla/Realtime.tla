------------------------------- MODULE Realtime -------------------------------
(***************************************************************************)
(* A realtime connection (realtime.go): the call of Realtime that mints a  *)
(* token and dials, and then one goroutine that calls Recv, one that calls *)
(* Send and any number that call Close, each call with a context of its    *)
(* own.  The WebSocket library is modelled from its use: a Read or Write   *)
(* whose context has ended fails and may close the connection under the    *)
(* others, and its Close is bounded by a timeout.  Read's return and what  *)
(* Recv makes of it are two steps: the others may come in between.         *)
(*                                                                         *)
(* A frame is what Recv makes of it: a "message" is msgpack, JSON or text  *)
(* that is wrapped as JSON; "garbled" is binary but not msgpack; "error"   *)
(* and "control" are the x-fal-error and x-fal-message frames.             *)
(***************************************************************************)
EXTENDS Naturals, Sequences

CONSTANTS
  Closers,   \* the goroutines that call Close, any number of times
  MaxFrames  \* the most frames the service sends

ASSUME MaxFramesAssumption == MaxFrames \in Nat

Frames == {"message", "garbled", "error", "control"}
Calls == {"realtime", "recv", "send"}

VARIABLES
  \* the call of Realtime
  pc,         \* "options", "auth", "mint", "url", "dial", "open" or "failed"
  \* the connection
  conn,       \* "none", "open", "closing" (Close is in its handshake), "closed"
  sent,       \* the frames the service has sent
  taken,      \* how many of them Read has returned
  end,        \* how the service ended: "none", "normal", "abnormal" or "lost"
  \* the calls
  busy,       \* the calls that are under way
  read,       \* what Read has returned to Recv: "nothing" yet, a frame, "closed"
              \* for a normal closure, or "failed"
  ctxDone,    \* those whose context has ended
  results,    \* what Recv returned of frames: their number and outcome
  failure,    \* how the last Recv that returned no frame ended
  \* Close
  once,       \* closeOnce: "new", "running" or "done"
  closeErr,   \* rc.closeErr
  closer,     \* each closer: "idle", "asking", "running" or "done"
  closeResult \* what its last Close returned

peer == <<sent, end>>
receiver == <<taken, read, results, failure>>
closing == <<once, closeErr, closer, closeResult>>
vars == <<pc, conn, peer, busy, ctxDone, receiver, closing>>

Init ==
  /\ pc = "options"
  /\ conn = "none" /\ sent = <<>> /\ taken = 0 /\ end = "none"
  /\ busy = {"realtime"} /\ ctxDone = {}
  /\ read = "nothing" /\ results = <<>> /\ failure = "none"
  /\ once = "new" /\ closeErr = "none"
  /\ closer = [c \in Closers |-> "idle"]
  /\ closeResult = [c \in Closers |-> "none"]

-----------------------------------------------------------------------------
(* Realtime. *)

\* A call returns, and its context is forgotten.
End(call) == busy' = busy \ {call} /\ ctxDone' = ctxDone \ {call}

Goto(place) ==
  /\ pc' = place
  /\ IF place \in {"open", "failed"} THEN End("realtime") ELSE UNCHANGED <<busy, ctxDone>>
  /\ UNCHANGED <<peer, receiver, closing>>

\* The options and the application id, before any request.
Configure ==
  /\ pc = "options"
  /\ Goto("auth") \/ Goto("failed")
  /\ UNCHANGED conn

\* The credentials for the handshake itself (WithoutJWT), or for the request
\* that mints a token, and then do's look at the context.
Authenticate ==
  /\ pc = "auth"
  /\ \/ Goto("url")
     \/ "realtime" \notin ctxDone /\ Goto("mint")
     \/ Goto("failed")
  /\ UNCHANGED conn

\* A bare string or a token; an error status, a detail or anything else fails.
MintAnswered ==
  /\ pc = "mint"
  /\ Goto("url") \/ Goto("failed")
  /\ UNCHANGED conn

\* The base URL may have a scheme that does not map to a WebSocket.
BuildURL ==
  /\ pc = "url"
  /\ Goto("dial") \/ Goto("failed")
  /\ UNCHANGED conn

Dialled ==
  /\ pc = "dial"
  /\ Goto("open") /\ conn' = "open"

dialEnds_ByContextOnly == "realtime" \in ctxDone
\* The handshake is given up at the end of the context or after a timeout.
dialEnds == TRUE

DialFails ==
  /\ pc = "dial" /\ dialEnds
  /\ Goto("failed")
  /\ UNCHANGED conn

-----------------------------------------------------------------------------
(* Recv and Send. *)

\* The next call of the receiver or of the sender, with a context of its own,
\* which may have ended already.
Begin(call) ==
  /\ call \in {"recv", "send"}
  /\ pc = "open" /\ call \notin busy
  /\ busy' = busy \cup {call}
  /\ ctxDone' \in {ctxDone, ctxDone \cup {call}}
  /\ UNCHANGED <<pc, conn, peer, receiver, closing>>

Reading == "recv" \in busy /\ read = "nothing"

ReadFrame ==
  /\ Reading /\ conn \in {"open", "closing"} /\ taken < Len(sent)
  /\ taken' = taken + 1 /\ read' = sent[taken + 1]
  /\ UNCHANGED <<pc, conn, peer, busy, ctxDone, results, failure, closing>>

ReadError(error) ==
  /\ read' = error
  /\ UNCHANGED <<pc, peer, busy, ctxDone, taken, results, failure, closing>>

\* The close frame of the service, as the answer to our own or not, or the loss
\* of the connection; Read then closes it.
ReadEnd ==
  /\ Reading /\ conn \in {"open", "closing"} /\ taken = Len(sent)
  /\ end # "none" \/ conn = "closing"
  /\ conn' = "closed"
  /\ ReadError(IF end \in {"none", "normal"} THEN "closed" ELSE "failed")

ReadFails ==
  /\ Reading
  /\ \/ conn = "closed" /\ UNCHANGED conn
     \/ "recv" \in ctxDone /\ conn' \in {conn, "closed"}
  /\ ReadError("failed")

skips_Garbled(frame) == frame \in {"control", "garbled"}
\* What does not make Recv return: its loop goes on with the same context.
skips(frame) == frame = "control"

outcome(frame) ==
  CASE frame = "error" -> "RealtimeError"
    [] frame = "garbled" -> "error"
    [] OTHER -> "value"

\* Recv decodes the frame that Read has returned, whatever has become of the
\* connection and of its context since.
TakeFrame ==
  /\ read \in Frames
  /\ read' = "nothing"
  /\ IF skips(read) THEN UNCHANGED <<busy, ctxDone, results>>
     ELSE /\ results' = Append(results, [number |-> taken, outcome |-> outcome(read)])
          /\ End("recv")
  /\ UNCHANGED <<pc, conn, peer, taken, failure, closing>>

\* An error of Read: a normal closure comes before the context's own error.
RecvFails ==
  /\ read \in {"closed", "failed"}
  /\ read' = "nothing"
  /\ failure' = IF read = "closed" THEN "EOF"
                ELSE IF "recv" \in ctxDone THEN "ctx" ELSE "error"
  /\ End("recv")
  /\ UNCHANGED <<pc, conn, peer, taken, results, closing>>

\* The message cannot be encoded, or it has been written.
SendReturns ==
  /\ "send" \in busy
  /\ End("send")
  /\ UNCHANGED <<pc, conn, peer, receiver, closing>>

WriteFails ==
  /\ "send" \in busy
  /\ \/ conn = "closed" /\ UNCHANGED conn
     \/ "send" \in ctxDone /\ conn' \in {conn, "closed"}
  /\ End("send")
  /\ UNCHANGED <<pc, peer, receiver, closing>>

-----------------------------------------------------------------------------
(* Close. *)

CloseCalled(c) ==
  /\ pc = "open" /\ closer[c] \in {"idle", "done"}
  /\ closer' = [closer EXCEPT ![c] = "asking"]
  /\ closeResult' = [closeResult EXCEPT ![c] = "none"]
  /\ UNCHANGED <<pc, conn, peer, busy, ctxDone, receiver, once, closeErr>>

OnceBegins_Again(c) ==
  /\ closer[c] = "asking" /\ once # "running"
  /\ once' = "running"
  /\ closer' = [closer EXCEPT ![c] = "running"]
  /\ conn' = IF conn = "open" THEN "closing" ELSE conn
  /\ UNCHANGED <<pc, peer, busy, ctxDone, receiver, closeErr, closeResult>>

\* The first closer runs the function of closeOnce: a close frame is sent, if
\* the connection is still there.
OnceBegins(c) ==
  /\ closer[c] = "asking" /\ once = "new"
  /\ once' = "running"
  /\ closer' = [closer EXCEPT ![c] = "running"]
  /\ conn' = IF conn = "open" THEN "closing" ELSE conn
  /\ UNCHANGED <<pc, peer, busy, ctxDone, receiver, closeErr, closeResult>>

\* The service has answered, or has not in time: the connection is closed.
OnceEnds(c) ==
  /\ closer[c] = "running"
  /\ once' = "done" /\ conn' = "closed" /\ closeErr' \in {"nil", "error"}
  /\ closer' = [closer EXCEPT ![c] = "asking"]
  /\ UNCHANGED <<pc, peer, busy, ctxDone, receiver, closeResult>>

onceOver_Flagged == once # "new"
\* closeOnce lets the other closers through when its function has returned.
onceOver == once = "done"

CloseReturns(c) ==
  /\ closer[c] = "asking" /\ onceOver
  /\ closer' = [closer EXCEPT ![c] = "done"]
  /\ closeResult' = [closeResult EXCEPT ![c] = closeErr]
  /\ UNCHANGED <<pc, conn, peer, busy, ctxDone, receiver, once, closeErr>>

-----------------------------------------------------------------------------
(* The service, and the contexts. *)

SendFrame ==
  /\ conn \in {"open", "closing"} /\ end = "none" /\ Len(sent) < MaxFrames
  /\ \E frame \in Frames : sent' = Append(sent, frame)
  /\ UNCHANGED <<pc, conn, end, busy, ctxDone, receiver, closing>>

ServiceEnds ==
  /\ conn \in {"open", "closing"} /\ end = "none"
  /\ end' \in {"normal", "abnormal", "lost"}
  /\ UNCHANGED <<pc, conn, sent, busy, ctxDone, receiver, closing>>

ContextEnds(call) ==
  /\ call \in busy \ ctxDone
  /\ ctxDone' = ctxDone \cup {call}
  /\ UNCHANGED <<pc, conn, peer, busy, receiver, closing>>

NotOpened == pc = "failed" /\ UNCHANGED vars

Opener == Configure \/ Authenticate \/ BuildURL \/ DialFails
Opened == MintAnswered \/ Dialled
Receiver == ReadFrame \/ ReadEnd \/ ReadFails \/ TakeFrame \/ RecvFails
Sender == SendReturns \/ WriteFails
Closer(c) == OnceBegins(c) \/ OnceEnds(c) \/ CloseReturns(c)

Next ==
  \/ Opener \/ Opened \/ Receiver \/ Sender \/ SendFrame \/ ServiceEnds
  \/ \E call \in Calls : Begin(call) \/ ContextEnds(call)
  \/ \E c \in Closers : CloseCalled(c) \/ Closer(c)
  \/ NotOpened

\* Goroutines run; the request that mints a token is given up when its context
\* ends, and the library ends a handshake, a Read or Write whose context has
\* ended or whose connection is closed, and its own Close.
Fairness ==
  /\ WF_vars(Opener) /\ WF_vars("realtime" \in ctxDone /\ MintAnswered)
  /\ WF_vars(Receiver) /\ WF_vars(WriteFails)
  /\ \A c \in Closers : WF_vars(Closer(c))

Spec == Init /\ [][Next]_vars /\ Fairness

-----------------------------------------------------------------------------
(* Properties. *)

\* The type invariant, with what Close promises: every one that has returned,
\* concurrent ones included, found the connection closed, and returned the
\* result of the one close there was.
TypeOK ==
  /\ pc \in {"options", "auth", "mint", "url", "dial", "open", "failed"}
  /\ conn \in {"none", "open", "closing", "closed"} /\ (pc = "open" <=> conn # "none")
  /\ sent \in Seq(Frames) /\ taken \in 0 .. Len(sent)
  /\ end \in {"none", "normal", "abnormal", "lost"}
  /\ busy \subseteq Calls /\ ctxDone \subseteq busy
  /\ ("realtime" \in busy <=> pc \notin {"open", "failed"})
  /\ read \in Frames \cup {"nothing", "closed", "failed"}
  /\ read # "nothing" => "recv" \in busy
  /\ results \in Seq([number : Nat, outcome : {"value", "error", "RealtimeError"}])
  /\ failure \in {"none", "EOF", "ctx", "error"}
  /\ closer \in [Closers -> {"idle", "asking", "running", "done"}]
  /\ \A c \in Closers :
       closer[c] = "done" =>
         /\ once = "done" /\ conn = "closed"
         /\ closeErr # "none" /\ closeResult[c] = closeErr

\* Every frame that Read has given to Recv was returned by one Recv, in the order
\* in which it was sent, unless it is a control frame or the one in hand: neither
\* a frame that cannot be decoded, nor an error frame, nor a context that ended, a
\* Send that failed or a Close between Read's return and Recv's, loses a frame or
\* returns one twice.  Only what the service reports as an error is a
\* RealtimeError, and only what cannot be decoded is another error.  The end of
\* the stream is told only where the service, or a Close of our own, ended it in
\* order.
RecvInOrder ==
  /\ {results[k].number : k \in DOMAIN results} =
       {i \in 1 .. taken : sent[i] # "control" /\ (i = taken => read \notin Frames)}
  /\ \A k \in DOMAIN results :
       LET frame == sent[results[k].number] IN
       /\ results[k].outcome = "RealtimeError" <=> frame = "error"
       /\ results[k].outcome = "error" <=> frame = "garbled"
       /\ \A l \in DOMAIN results : l < k => results[l].number < results[k].number
  /\ failure = "EOF" => end = "normal" \/ once # "new"

\* The one close there is settles the connection: once it is over, no frame is
\* taken from it any more, no other close is run, and closeErr does not change.
\* Only the Recv that had a frame, or the end of the stream, in hand by then still
\* returns it; every other Recv, under way or begun later, fails with an error
\* that does not pass for the end of the stream (RealtimeConn.Close).
ClosedForGood ==
  [][once = "done" =>
       /\ UNCHANGED <<conn, once, closeErr, taken>>
       /\ read' \in {read, "nothing", "failed"}
       /\ results' # results => read \in Frames
       /\ failure' = "EOF" => failure = "EOF" \/ read = "closed"]_vars

\* Realtime returns once its context has ended, and a handshake without that; a
\* Recv or a Send returns once its context has ended, or the connection is
\* closed by anyone; and Close returns, whatever the service does.
CallsReturn ==
  /\ "realtime" \in ctxDone ~> "realtime" \notin busy
  /\ pc = "dial" ~> pc \in {"open", "failed"}
  /\ \A call \in {"recv", "send"} :
       call \in busy /\ (call \in ctxDone \/ conn = "closed") ~> call \notin busy
  /\ \A c \in Closers : closer[c] = "asking" ~> closer[c] = "done"
=============================================================================

-------------------------------- MODULE Stream --------------------------------
(***************************************************************************)
(* One call of Stream (stream.go) with its decoder of server-sent events   *)
(* (sse.go), from the first pull of the consumer to the return of the      *)
(* iterator.  The service sends the body line by line and may end it in    *)
(* the middle of a line or of an event; the connection may be cut; the     *)
(* context may end and the consumer may stop at any time.                  *)
(*                                                                         *)
(* The decoder joins the values of an event's data fields with newlines: a *)
(* value holds none, so an event is kept as the sequence of its values.    *)
(***************************************************************************)
EXTENDS Naturals, Sequences

CONSTANTS
  Values,    \* what data fields carry, the empty value among them
  MaxLines   \* the longest body, in lines

ASSUME MaxLinesAssumption == MaxLines \in Nat

\* The lines of a body: what matters of a field is whether it is data.
Blank == [kind |-> "blank"]
Data == [kind : {"data"}, value : Values]
Ignored == [kind : {"comment", "other"}]
Line == {Blank} \cup Data \cup Ignored

VARIABLES
  \* the call
  pc,       \* "request", "flight", "status", "next", "yield", "return", "done"
  decoded,  \* what next has gathered of its event: data and hasData
  item,     \* what is being yielded
  body,     \* resp.Body: "none", "open" or "closed"
  ctxDone,  \* ctx has ended
  \* the service and the connection
  sent,     \* the lines of the body so far
  read,     \* how many of them the decoder has read
  end,      \* "open", "eof" or "cut"
  \* the consumer
  yielded,  \* what it has been given
  stopped   \* it has left its loop

service == <<sent, end>>
vars == <<pc, decoded, item, body, ctxDone, service, read, yielded, stopped>>

Event(values) == [event |-> values]
Error(cause) == [error |-> cause]
IsError(i) == "error" \in DOMAIN i
Causes == {"request", "ctx", "transport", "status", "read"}

Init ==
  /\ pc = "request" /\ decoded = <<>> /\ item = Event(<<>>)
  /\ body = "none" /\ ctxDone \in BOOLEAN
  /\ sent = <<>> /\ read = 0 /\ end = "open"
  /\ yielded = <<>> /\ stopped = FALSE

Yield(i) == item' = i /\ pc' = "yield"
Fail(cause) == Yield(Error(cause))

-----------------------------------------------------------------------------
(* The request: one attempt, with no timeout but the context's. *)

\* The application id, the input or the credentials.
RequestFails ==
  /\ pc = "request"
  /\ Fail("request")
  /\ UNCHANGED <<decoded, body, ctxDone, service, read, yielded, stopped>>

SendRequest ==
  /\ pc = "request"
  /\ pc' = "flight"
  /\ UNCHANGED <<decoded, item, body, ctxDone, service, read, yielded, stopped>>

NoAnswer ==
  /\ pc = "flight"
  /\ Fail(IF ctxDone THEN "ctx" ELSE "transport")
  /\ UNCHANGED <<decoded, body, ctxDone, service, read, yielded, stopped>>

Refused ==
  /\ pc = "flight"
  /\ pc' = "status" /\ body' = "open"
  /\ UNCHANGED <<decoded, item, ctxDone, service, read, yielded, stopped>>

\* The body of an error answer is read whole, or cannot be.
ReadStatus ==
  /\ pc = "status"
  /\ \E cause \in {"status", "read"} : Fail(cause)
  /\ UNCHANGED <<decoded, body, ctxDone, service, read, yielded, stopped>>

Answered ==
  /\ pc = "flight"
  /\ pc' = "next" /\ body' = "open"
  /\ UNCHANGED <<decoded, item, ctxDone, service, read, yielded, stopped>>

-----------------------------------------------------------------------------
(* The decoder: one turn of next's loop each. *)

\* The data of the line joins that of its event, which a blank line ends.
gathers(line) ==
  decoded' = IF line \in Data THEN Append(decoded, line.value)
             ELSE IF line = Blank THEN <<>>
             ELSE decoded

dispatches(line) == line = Blank /\ decoded # <<>>

\* A line that has arrived: it may have been buffered before ctx ended.
ReadLine ==
  /\ pc = "next" /\ read < Len(sent)
  /\ read' = read + 1
  /\ LET line == sent[read + 1] IN
     /\ gathers(line)
     /\ IF dispatches(line) THEN Yield(Event(decoded)) ELSE UNCHANGED <<pc, item>>
  /\ UNCHANGED <<body, ctxDone, service, yielded, stopped>>

EndOfBody_Flushes ==
  /\ pc = "next" /\ read = Len(sent) /\ end = "eof"
  /\ IF ctxDone THEN Fail("ctx")
     ELSE IF decoded # <<>> THEN Yield(Event(decoded))
     ELSE pc' = "return" /\ UNCHANGED item
  /\ decoded' = <<>>
  /\ UNCHANGED <<body, ctxDone, service, read, yielded, stopped>>

\* A last line without a terminator joins what its event has gathered, and all
\* of it is dropped: such a line makes no difference and is not kept in sent.
EndOfBody ==
  /\ pc = "next" /\ read = Len(sent) /\ end = "eof"
  /\ IF ctxDone THEN Fail("ctx") ELSE pc' = "return" /\ UNCHANGED item
  /\ decoded' = <<>>
  /\ UNCHANGED <<body, ctxDone, service, read, yielded, stopped>>

\* The connection is cut, or closed by the HTTP client as ctx has ended, which
\* drops what it had not delivered.
readFails == ctxDone \/ (end = "cut" /\ read = Len(sent))

ReadFails ==
  /\ pc = "next" /\ readFails
  /\ Fail(IF ctxDone THEN "ctx" ELSE "read")
  /\ decoded' = <<>>
  /\ UNCHANGED <<body, ctxDone, service, read, yielded, stopped>>

-----------------------------------------------------------------------------
(* The consumer's loop body, and the end of the iterator. *)

Consume_IgnoresStop ==
  /\ pc = "yield"
  /\ yielded' = Append(yielded, item)
  /\ stopped' \in BOOLEAN
  /\ pc' = IF IsError(item) THEN "return" ELSE "next"
  /\ UNCHANGED <<decoded, item, body, ctxDone, service, read>>

\* The loop goes on after an event only, and only if the consumer asks for more.
Consume ==
  /\ pc = "yield"
  /\ yielded' = Append(yielded, item)
  /\ stopped' \in BOOLEAN
  /\ pc' = IF IsError(item) \/ stopped' THEN "return" ELSE "next"
  /\ UNCHANGED <<decoded, item, body, ctxDone, service, read>>

Return_Unclosed ==
  /\ pc = "return"
  /\ pc' = "done"
  /\ UNCHANGED <<decoded, item, body, ctxDone, service, read, yielded, stopped>>

\* The deferred Close.
Return ==
  /\ pc = "return"
  /\ pc' = "done"
  /\ body' = IF body = "open" THEN "closed" ELSE body
  /\ UNCHANGED <<decoded, item, ctxDone, service, read, yielded, stopped>>

-----------------------------------------------------------------------------
(* The service, the connection and the caller's context. *)

Streaming == body = "open" /\ pc \in {"next", "yield"} /\ end = "open"

SendLine ==
  /\ Streaming /\ Len(sent) < MaxLines
  /\ \E line \in Line : sent' = Append(sent, line)
  /\ UNCHANGED <<pc, decoded, item, body, ctxDone, read, end, yielded, stopped>>

EndBody ==
  /\ Streaming
  /\ end' \in {"eof", "cut"}
  /\ UNCHANGED <<pc, decoded, item, body, ctxDone, sent, read, yielded, stopped>>

ContextEnds ==
  /\ pc # "done" /\ ~ctxDone
  /\ ctxDone' = TRUE
  /\ UNCHANGED <<pc, decoded, item, body, service, read, yielded, stopped>>

Returned == pc = "done" /\ UNCHANGED vars

Loop == RequestFails \/ SendRequest \/ ReadLine \/ EndOfBody \/ ReadFails \/ Return
Network == NoAnswer \/ Refused \/ Answered \/ ReadStatus
Service == SendLine \/ EndBody

Next == Loop \/ Network \/ Consume \/ Service \/ ContextEnds \/ Returned

\* The iterator's goroutine runs, the consumer comes back from its loop body, and
\* a request or a read whose context has ended is given up by the HTTP client.
Fairness == WF_vars(Loop) /\ WF_vars(Consume) /\ WF_vars(ctxDone /\ Network)

Spec == Init /\ [][Next]_vars /\ Fairness

-----------------------------------------------------------------------------
(* Properties. *)

\* The type invariant.  A call that has returned leaves no body open.
TypeOK ==
  /\ pc \in {"request", "flight", "status", "next", "yield", "return", "done"}
  /\ decoded \in Seq(Values)
  /\ \/ item \in [event : Seq(Values)]
     \/ item \in [error : Causes]
  /\ body \in IF pc = "done" THEN {"none", "closed"} ELSE {"none", "open"}
  /\ ctxDone \in BOOLEAN /\ stopped \in BOOLEAN
  /\ sent \in Seq(Line) /\ read \in 0 .. Len(sent) /\ end \in {"open", "eof", "cut"}

\* What server-sent events mean: a blank line ends an event, made of the data
\* since the blank line before, if there is any.
DataBefore(lines, blank) ==
  {d \in 1 .. (blank - 1) : /\ lines[d] \in Data
                            /\ \A i \in d .. (blank - 1) : lines[i] # Blank}
EventEnds(lines) ==
  {e \in DOMAIN lines : lines[e] = Blank /\ DataBefore(lines, e) # {}}

\* at lists the elements of S, each once and in order.
Lists(at, S) ==
  /\ {at[k] : k \in DOMAIN at} = S
  /\ \A j, k \in DOMAIN at : j < k => at[j] < at[k]

\* The values are those of the data at S.
Carries(values, lines, S) ==
  \E at \in [DOMAIN values -> S] :
    Lists(at, S) /\ \A k \in DOMAIN at : values[k] = lines[at[k]].value

\* Some items of given are events, and these are those of lines.
AreTheEvents(given, lines) ==
  LET events == {k \in DOMAIN given : ~IsError(given[k])} IN
  \E at \in [events -> EventEnds(lines)] :
    /\ Lists(at, EventEnds(lines))
    /\ \A k \in events : Carries(given[k].event, lines, DataBefore(lines, at[k]))

Failed == \E k \in DOMAIN yielded : IsError(yielded[k])

\* The consumer has been given exactly the events of what the decoder has read,
\* each whole and in order; and when the iterator ends without a word, exactly
\* those of all that the service sent, over a body that ended cleanly.
EventsAreWhole ==
  /\ pc \in {"next", "return", "done"} => AreTheEvents(yielded, SubSeq(sent, 1, read))
  /\ pc = "done" /\ ~stopped /\ ~Failed => end = "eof" /\ read = Len(sent)

\* What the comment on Stream promises: a single error is the last thing the
\* consumer is given, and nothing is given to a consumer that has stopped; and
\* the iterator returns once its context has ended, and without that once the
\* body has ended.
EndsOnce == [][yielded' # yielded => ~stopped /\ ~Failed]_vars
EndsOnceAndInTime ==
  /\ EndsOnce
  /\ ctxDone ~> (pc = "done")
  /\ (end # "open") ~> (pc = "done")
=============================================================================

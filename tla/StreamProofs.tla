----------------------------- MODULE StreamProofs -----------------------------
(***************************************************************************)
(* The events of a stream, for every content of its data fields and every  *)
(* length of its body.  The invariant says at each step of the decoder     *)
(* what it has gathered and what it has passed on of the lines it has read *)
(* so far; that the two together lose nothing and invent nothing rests on  *)
(* lemmas about one more line.                                             *)
(***************************************************************************)
EXTENDS Stream, TLAPS

-----------------------------------------------------------------------------
(* Lines and items. *)

LEMMA Lines ==
  /\ Blank \in Line /\ Blank \notin Data
  /\ \A line \in Data : line.value \in Values
BY DEF Line, Data, Blank

LEMMA Events ==
  /\ \A i \in [event : Seq(Values)] : ~IsError(i)
  /\ \A i \in [error : Causes] : IsError(i)
  /\ \A values : ~IsError(Event(values)) /\ Event(values).event = values
  /\ \A values \in Seq(Values) : Event(values) \in [event : Seq(Values)]
  /\ \A cause \in Causes : Error(cause) \in [error : Causes]
BY DEF IsError, Event, Error

\* What one more line changes in the data before a place.
LEMMA DataBeforeGrows ==
  ASSUME NEW lines \in Seq(Line), NEW line \in Line, NEW e \in 1 .. (Len(lines) + 1)
  PROVE  DataBefore(Append(lines, line), e) = DataBefore(lines, e)
BY DEF DataBefore

LEMMA DataBeforeNext ==
  ASSUME NEW lines \in Seq(Line), NEW line \in Line
  PROVE  LET more == Append(lines, line)
             n == Len(lines) + 1
         IN  /\ line = Blank => DataBefore(more, n + 1) = {}
             /\ line \in Data => DataBefore(more, n + 1) = DataBefore(lines, n) \cup {n}
             /\ line # Blank /\ line \notin Data =>
                  DataBefore(more, n + 1) = DataBefore(lines, n)
<1> DEFINE more == Append(lines, line)
           n == Len(lines) + 1
<1>1. /\ n \in Nat \ {0} /\ more[n] = line /\ more \in Seq(Line) /\ Len(more) = n
      /\ \A i \in 1 .. (n - 1) : more[i] = lines[i]
  OBVIOUS
<1>2. DataBefore(more, n + 1) =
        {d \in 1 .. n : more[d] \in Data /\ \A i \in d .. n : more[i] # Blank}
  BY <1>1 DEF DataBefore
<1>3. DataBefore(lines, n) =
        {d \in 1 .. (n - 1) : lines[d] \in Data /\ \A i \in d .. (n - 1) : lines[i] # Blank}
  BY <1>1 DEF DataBefore
<1> HIDE DEF more, n
<1>4. line = Blank => DataBefore(more, n + 1) = {}
  BY <1>1, <1>2
<1>5. ASSUME line # Blank, NEW d \in 1 .. (n - 1)
      PROVE  d \in DataBefore(more, n + 1) <=> d \in DataBefore(lines, n)
  <2>1. (\A i \in d .. n : more[i] # Blank) <=> \A i \in d .. (n - 1) : lines[i] # Blank
    BY <1>1, <1>5
  <2> QED BY <2>1, <1>1, <1>2, <1>3
<1>6. /\ DataBefore(more, n + 1) \subseteq 1 .. n /\ DataBefore(lines, n) \subseteq 1 .. (n - 1)
      /\ line # Blank => (n \in DataBefore(more, n + 1) <=> line \in Data)
  BY <1>1, <1>2, <1>3
<1>7. (line \in Data => line # Blank) /\ 1 .. n = 1 .. (n - 1) \cup {n}
  BY <1>1, Lines
<1>8. line \in Data => DataBefore(more, n + 1) = DataBefore(lines, n) \cup {n}
  BY <1>5, <1>6, <1>7
<1>9. line # Blank /\ line \notin Data => DataBefore(more, n + 1) = DataBefore(lines, n)
  BY <1>5, <1>6, <1>7
<1> QED BY <1>4, <1>8, <1>9 DEF more, n

\* A blank line ends an event when there is data before it, and no other does.
LEMMA EventEndsGrow ==
  ASSUME NEW lines \in Seq(Line), NEW line \in Line
  PROVE  LET n == Len(lines) + 1 IN
         EventEnds(Append(lines, line)) =
           IF line = Blank /\ DataBefore(lines, n) # {} THEN EventEnds(lines) \cup {n}
                                                        ELSE EventEnds(lines)
<1> DEFINE more == Append(lines, line)
           n == Len(lines) + 1
<1>1. /\ n \in Nat \ {0} /\ more[n] = line /\ DOMAIN more = 1 .. n
      /\ DOMAIN lines = 1 .. (n - 1)
      /\ \A i \in 1 .. (n - 1) : more[i] = lines[i]
  OBVIOUS
<1>2. \A e \in 1 .. n : DataBefore(more, e) = DataBefore(lines, e)
  BY DataBeforeGrows
<1> HIDE DEF more, n
<1>3. EventEnds(more) = {e \in 1 .. n : more[e] = Blank /\ DataBefore(more, e) # {}}
  BY <1>1 DEF EventEnds
<1>4. EventEnds(lines) = {e \in 1 .. (n - 1) : lines[e] = Blank /\ DataBefore(lines, e) # {}}
  BY <1>1 DEF EventEnds
<1>5. \A e \in 1 .. (n - 1) : e \in EventEnds(more) <=> e \in EventEnds(lines)
  BY <1>1, <1>2, <1>3, <1>4
<1>6. n \in EventEnds(more) <=> line = Blank /\ DataBefore(lines, n) # {}
  BY <1>1, <1>2, <1>3
<1>7. EventEnds(more) \subseteq 1 .. n /\ EventEnds(lines) \subseteq 1 .. (n - 1)
  BY <1>3, <1>4
<1>8. 1 .. n = 1 .. (n - 1) \cup {n} /\ n \notin 1 .. (n - 1)
  BY <1>1
<1>9. EventEnds(more) = IF line = Blank /\ DataBefore(lines, n) # {}
                          THEN EventEnds(lines) \cup {n} ELSE EventEnds(lines)
  <2>1. CASE line = Blank /\ DataBefore(lines, n) # {}
    <3>1. EventEnds(more) = EventEnds(lines) \cup {n}
      BY <2>1, <1>5, <1>6, <1>7, <1>8
    <3> QED BY <2>1, <3>1
  <2>2. CASE ~(line = Blank /\ DataBefore(lines, n) # {})
    <3>1. EventEnds(more) = EventEnds(lines)
      BY <2>2, <1>5, <1>6, <1>7, <1>8
    <3> QED BY <2>2, <3>1
  <2> QED BY <2>1, <2>2
<1> QED BY <1>9 DEF more, n

-----------------------------------------------------------------------------
(* What a sequence of values carries. *)

LEMMA NothingCarried ==
  ASSUME NEW lines
  PROVE  /\ Carries(<<>>, lines, {})
         /\ \A S : Carries(<<>>, lines, S) => S = {}
         /\ \A S, values : Carries(values, lines, S) /\ values \in Seq(Values) \ {<<>>} =>
              S # {}
<1>1. Carries(<<>>, lines, {})
  <2> DEFINE at == [k \in {} |-> k]
  <2>1. at \in [DOMAIN <<>> -> {}] /\ DOMAIN at = {}
    OBVIOUS
  <2>2. Lists(at, {}) /\ \A k \in DOMAIN at : <<>>[k] = lines[at[k]].value
    BY <2>1 DEF Lists
  <2> QED BY <2>1, <2>2 DEF Carries
<1>2. ASSUME NEW S, Carries(<<>>, lines, S) PROVE S = {}
  BY <1>2 DEF Carries, Lists
<1>3. ASSUME NEW S, NEW values \in Seq(Values) \ {<<>>}, Carries(values, lines, S)
      PROVE  S # {}
  <2>1. 1 \in DOMAIN values
    OBVIOUS
  <2> QED BY <1>3, <2>1 DEF Carries
<1> QED BY <1>1, <1>2, <1>3

\* They carry it as well in what has the same lines at these places.
LEMMA CarriesOn ==
  ASSUME NEW values, NEW lines, NEW more, NEW S, Carries(values, lines, S),
         \A s \in S : more[s] = lines[s]
  PROVE  Carries(values, more, S)
<1>1. PICK at \in [DOMAIN values -> S] :
        Lists(at, S) /\ \A k \in DOMAIN at : values[k] = lines[at[k]].value
  BY DEF Carries
<1>2. \A k \in DOMAIN at : values[k] = more[at[k]].value
  BY <1>1
<1> QED BY <1>1, <1>2 DEF Carries

\* The value of a line behind those places joins them.
LEMMA CarriesMore ==
  ASSUME NEW values \in Seq(Values), NEW lines, NEW n \in Nat, NEW S \in SUBSET (1 .. (n - 1)),
         NEW value \in Values, lines[n].value = value, Carries(values, lines, S)
  PROVE  Carries(Append(values, value), lines, S \cup {n})
<1>1. PICK at \in [DOMAIN values -> S] :
        Lists(at, S) /\ \A k \in DOMAIN at : values[k] = lines[at[k]].value
  BY DEF Carries
<1> DEFINE m == Len(values) + 1
           more == [k \in 1 .. m |-> IF k = m THEN n ELSE at[k]]
<1>2. /\ m \in Nat \ {0} /\ DOMAIN values = 1 .. (m - 1)
      /\ DOMAIN Append(values, value) = 1 .. m /\ Append(values, value)[m] = value
      /\ \A k \in 1 .. (m - 1) : Append(values, value)[k] = values[k]
  OBVIOUS
<1> HIDE DEF m
<1>3. /\ DOMAIN more = 1 .. m /\ more[m] = n /\ \A k \in 1 .. (m - 1) : more[k] = at[k]
      /\ 1 .. m = 1 .. (m - 1) \cup {m} /\ m \notin 1 .. (m - 1)
      /\ \A k \in 1 .. (m - 1) : at[k] \in S
  BY <1>1, <1>2
<1>4. more \in [DOMAIN Append(values, value) -> S \cup {n}]
  BY <1>2, <1>3
<1> HIDE DEF more
<1>5. {more[k] : k \in DOMAIN more} = S \cup {n}
  <2>1. {at[k] : k \in 1 .. (m - 1)} = S
    BY <1>1, <1>2 DEF Lists
  <2> QED BY <1>3, <2>1
<1>6. ASSUME NEW j \in DOMAIN more, NEW k \in DOMAIN more, j < k PROVE more[j] < more[k]
  <2>1. j \in 1 .. (m - 1)
    BY <1>2, <1>3, <1>6
  <2>2. CASE k = m
    <3>1. more[j] \in 1 .. (n - 1) /\ more[k] = n
      BY <1>3, <2>1, <2>2
    <3> QED BY <3>1
  <2>3. CASE k # m
    BY <1>1, <1>2, <1>3, <1>6, <2>1, <2>3 DEF Lists
  <2> QED BY <2>2, <2>3
<1>7. \A k \in DOMAIN more : Append(values, value)[k] = lines[more[k]].value
  BY <1>1, <1>2, <1>3
<1> QED BY <1>4, <1>5, <1>6, <1>7 DEF Carries, Lists

-----------------------------------------------------------------------------
(* The items given are the events of the lines read. *)

Places(given) == {k \in DOMAIN given : ~IsError(given[k])}

LEMMA NothingGiven == AreTheEvents(<<>>, <<>>)
<1> DEFINE at == [k \in {} |-> k]
<1>1. Places(<<>>) = {} /\ EventEnds(<<>>) = {}
  BY DEF Places, EventEnds
<1>2. at \in [{} -> {}] /\ Lists(at, {})
  BY DEF Lists
<1> QED BY <1>1, <1>2 DEF AreTheEvents, Places

\* An error is no event.
LEMMA ErrorGiven ==
  ASSUME NEW Items, NEW given \in Seq(Items), NEW item_ \in Items, IsError(item_), NEW lines,
         AreTheEvents(given, lines)
  PROVE  AreTheEvents(Append(given, item_), lines)
<1>1. Places(Append(given, item_)) = Places(given)
  BY DEF Places
<1>2. \A k \in Places(given) : Append(given, item_)[k] = given[k]
  BY DEF Places
<1> QED BY <1>1, <1>2 DEF AreTheEvents, Places

\* One more line that ends no event.
LEMMA EventsOn ==
  ASSUME NEW given, NEW lines \in Seq(Line), NEW line \in Line, AreTheEvents(given, lines),
         line # Blank \/ DataBefore(lines, Len(lines) + 1) = {}
  PROVE  AreTheEvents(given, Append(lines, line))
<1> DEFINE more == Append(lines, line)
<1>1. PICK at \in [Places(given) -> EventEnds(lines)] :
        /\ Lists(at, EventEnds(lines))
        /\ \A k \in Places(given) : Carries(given[k].event, lines, DataBefore(lines, at[k]))
  BY DEF AreTheEvents, Places
<1>2. EventEnds(more) = EventEnds(lines)
  BY EventEndsGrow
<1>3. ASSUME NEW k \in Places(given)
      PROVE  Carries(given[k].event, more, DataBefore(more, at[k]))
  <2>1. at[k] \in 1 .. Len(lines)
    BY <1>1 DEF EventEnds
  <2>2. /\ DataBefore(more, at[k]) = DataBefore(lines, at[k])
        /\ DataBefore(lines, at[k]) \subseteq 1 .. Len(lines)
    BY <2>1, DataBeforeGrows DEF DataBefore
  <2>3. \A s \in 1 .. Len(lines) : more[s] = lines[s]
    OBVIOUS
  <2> HIDE DEF more
  <2> QED BY <1>1, <2>2, <2>3, CarriesOn
<1> HIDE DEF more
<1>4. AreTheEvents(given, more)
  BY <1>1, <1>2, <1>3 DEF AreTheEvents, Places
<1> QED BY <1>4 DEF more

\* The blank line that ends an event.
LEMMA EventGiven ==
  ASSUME NEW Items, NEW given \in Seq(Items), NEW lines \in Seq(Line), AreTheEvents(given, lines),
         NEW values, Event(values) \in Items,
         Carries(values, lines, DataBefore(lines, Len(lines) + 1)),
         DataBefore(lines, Len(lines) + 1) # {}
  PROVE  AreTheEvents(Append(given, Event(values)), Append(lines, Blank))
<1> DEFINE more == Append(lines, Blank)
           n == Len(lines) + 1
           m == Len(given) + 1
           all == Append(given, Event(values))
<1>1. PICK at \in [Places(given) -> EventEnds(lines)] :
        /\ Lists(at, EventEnds(lines))
        /\ \A k \in Places(given) : Carries(given[k].event, lines, DataBefore(lines, at[k]))
  BY DEF AreTheEvents, Places
<1>2. /\ n \in Nat \ {0} /\ m \in Nat \ {0} /\ Len(lines) = n - 1
      /\ DOMAIN given = 1 .. (m - 1) /\ DOMAIN all = 1 .. m /\ all[m] = Event(values)
      /\ \A k \in 1 .. (m - 1) : all[k] = given[k]
      /\ \A i \in 1 .. (n - 1) : more[i] = lines[i]
  OBVIOUS
<1>3. EventEnds(more) = EventEnds(lines) \cup {n} /\ EventEnds(lines) \subseteq 1 .. (n - 1)
  <2>1. EventEnds(more) = EventEnds(lines) \cup {n}
    BY EventEndsGrow, Lines
  <2>2. EventEnds(lines) \subseteq 1 .. Len(lines)
    BY DEF EventEnds
  <2> QED BY <1>2, <2>1, <2>2
<1>4. \A e \in 1 .. n : DataBefore(more, e) = DataBefore(lines, e)
                        /\ DataBefore(lines, e) \subseteq 1 .. (n - 1)
  BY DataBeforeGrows, Lines DEF DataBefore
<1>5. Carries(values, lines, DataBefore(lines, n))
  OBVIOUS
<1> HIDE DEF more, n, m, all
<1>6. Places(all) = Places(given) \cup {m} /\ m \notin Places(given)
      /\ Places(given) \subseteq 1 .. (m - 1)
  <2>1. 1 .. m = 1 .. (m - 1) \cup {m} /\ m \notin 1 .. (m - 1)
    BY <1>2
  <2>2. ~IsError(all[m])
    BY <1>2, Events
  <2> QED BY <1>2, <2>1, <2>2 DEF Places
<1> DEFINE both == [k \in Places(all) |-> IF k = m THEN n ELSE at[k]]
<1>7. /\ DOMAIN both = Places(given) \cup {m} /\ both[m] = n
      /\ \A k \in Places(given) : both[k] = at[k] /\ at[k] \in EventEnds(lines)
      /\ both \in [Places(all) -> EventEnds(more)]
  BY <1>1, <1>3, <1>6
<1> HIDE DEF both
<1>8. Lists(both, EventEnds(more))
  <2>1. {both[k] : k \in DOMAIN both} = EventEnds(more)
    <3>1. {at[k] : k \in Places(given)} = EventEnds(lines)
      BY <1>1 DEF Lists
    <3> QED BY <1>3, <1>7, <3>1
  <2>2. ASSUME NEW j \in DOMAIN both, NEW k \in DOMAIN both, j < k PROVE both[j] < both[k]
    <3>1. j \in Places(given)
      BY <1>2, <1>6, <1>7, <2>2
    <3>2. CASE k = m
      <4>1. both[j] \in 1 .. (n - 1) /\ both[k] = n
        BY <1>3, <1>7, <3>1, <3>2
      <4> QED BY <1>2, <4>1
    <3>3. CASE k # m
      BY <1>1, <1>7, <2>2, <3>1, <3>3 DEF Lists
    <3> QED BY <3>2, <3>3
  <2> QED BY <2>1, <2>2 DEF Lists
<1>9. ASSUME NEW k \in Places(all)
      PROVE  Carries(all[k].event, more, DataBefore(more, both[k]))
  <2>1. Carries(all[k].event, lines, DataBefore(lines, both[k])) /\ both[k] \in 1 .. n
    <3>1. CASE k = m
      BY <1>2, <1>5, <1>7, <3>1, Events
    <3>2. CASE k # m
      BY <1>1, <1>2, <1>3, <1>6, <1>7, <3>2
    <3> QED BY <3>1, <3>2
  <2> QED BY <1>2, <1>4, <2>1, CarriesOn
<1>10. AreTheEvents(all, more)
  BY <1>7, <1>8, <1>9 DEF AreTheEvents, Places
<1> QED BY <1>10 DEF all, more

-----------------------------------------------------------------------------
(* The invariant. *)

Items == [event : Seq(Values)] \cup [error : Causes]

\* The lines the decoder has read, and what it has passed on of them, the item
\* in the hands of the iterator included.
Heard == SubSeq(sent, 1, read)
Given == IF pc = "yield" THEN Append(yielded, item) ELSE yielded

BeforeBody ==
  pc \in {"request", "flight", "status"} =>
    yielded = <<>> /\ decoded = <<>> /\ sent = <<>> /\ read = 0

\* While it reads on, the decoder holds the data of the event that is under way.
Gathered ==
  pc = "next" \/ (pc = "yield" /\ ~IsError(item)) =>
    Carries(decoded, Heard, DataBefore(Heard, read + 1))

\* The iterator goes on until an error, the consumer or the end of a body that
\* has been read whole stops it.
Ending ==
  /\ stopped \/ Failed => pc \in {"return", "done"}
  /\ pc \in {"return", "done"} /\ ~stopped /\ ~Failed => end = "eof" /\ read = Len(sent)

Decoding ==
  /\ yielded \in Seq(Items)
  /\ BeforeBody /\ Gathered
  /\ AreTheEvents(Given, Heard)

IInv == TypeOK /\ Decoding /\ Ending

LEMMA HeardTyped ==
  ASSUME TypeOK
  PROVE  Heard \in Seq(Line) /\ Len(Heard) = read /\ item \in Items
BY DEF TypeOK, Heard, Items

LEMMA InitInv == Init => IInv
<1> SUFFICES ASSUME Init PROVE IInv
  OBVIOUS
<1>1. TypeOK
  <2>1. decoded \in Seq(Values) /\ sent \in Seq(Line) /\ read \in 0 .. Len(sent)
    BY DEF Init
  <2>2. item \in [event : Seq(Values)]
    <3>1. <<>> \in Seq(Values)
      OBVIOUS
    <3> QED BY <3>1, Events DEF Init
  <2>3. pc = "request" /\ body = "none" /\ end = "open"
        /\ ctxDone \in BOOLEAN /\ stopped \in BOOLEAN
    BY DEF Init
  <2> QED BY <2>1, <2>2, <2>3 DEF TypeOK
<1>2. Given = <<>> /\ Heard = <<>> /\ yielded \in Seq(Items)
  BY DEF Init, Given, Heard
<1>3. Decoding
  BY <1>2, NothingGiven DEF Init, Decoding, BeforeBody, Gathered
<1>4. Ending
  BY DEF Init, Ending, Failed
<1> QED BY <1>1, <1>3, <1>4 DEF IInv

-----------------------------------------------------------------------------
(* The steps. *)

LEMMA TypeStep == ASSUME TypeOK, [Next]_vars PROVE TypeOK'
<1> USE DEF TypeOK
<1>1. CASE RequestFails \/ SendRequest \/ NoAnswer \/ Refused \/ ReadStatus \/ Answered
  BY <1>1, Events DEF RequestFails, SendRequest, NoAnswer, Refused, ReadStatus, Answered, Fail,
     Yield, service, Causes
<1>2. CASE ReadLine
  <2>1. sent[read + 1] \in Line /\ read + 1 \in 0 .. Len(sent)
    BY <1>2 DEF ReadLine
  <2>2. decoded' \in Seq(Values)
    BY <1>2, <2>1, Lines DEF ReadLine, gathers
  <2>3. /\ pc' \in {"next", "yield"}
        /\ item' \in [event : Seq(Values)] \/ item' \in [error : Causes]
    BY <1>2, Events DEF ReadLine, Yield
  <2> QED BY <1>2, <2>1, <2>2, <2>3 DEF ReadLine, service
<1>3. CASE EndOfBody \/ ReadFails
  <2>1. /\ pc' \in {"yield", "return"}
        /\ item' \in [event : Seq(Values)] \/ item' \in [error : Causes]
    <3>1. item' = item \/ \E cause \in Causes : item' = Error(cause)
      BY <1>3 DEF EndOfBody, ReadFails, Fail, Yield, Causes
    <3>2. pc' \in {"yield", "return"}
      BY <1>3 DEF EndOfBody, ReadFails, Fail, Yield
    <3> QED BY <3>1, <3>2, Events
  <2>2. /\ pc = "next" /\ decoded' = <<>> /\ <<>> \in Seq(Values)
        /\ UNCHANGED <<body, ctxDone, service, read, stopped>>
    BY <1>3 DEF EndOfBody, ReadFails
  <2> QED BY <2>1, <2>2 DEF service
<1>4. CASE Consume \/ Return
  BY <1>4 DEF Consume, Return, service
<1>5. CASE SendLine
  <2>1. sent' \in Seq(Line) /\ Len(sent') = Len(sent) + 1
    BY <1>5 DEF SendLine
  <2> QED BY <1>5, <2>1 DEF SendLine
<1>6. CASE EndBody \/ ContextEnds \/ Returned \/ UNCHANGED vars
  BY <1>6 DEF EndBody, ContextEnds, Returned, vars, service
<1> QED BY <1>1, <1>2, <1>3, <1>4, <1>5, <1>6 DEF Next, Loop, Network, Service

\* What has been heard changes only as the decoder reads.
LEMMA HeardKept ==
  ASSUME TypeOK, read' = read,
         sent' = sent \/ \E line \in Line : sent' = Append(sent, line)
  PROVE  Heard' = Heard
<1>1. ASSUME NEW line \in Line PROVE SubSeq(Append(sent, line), 1, read) = SubSeq(sent, 1, read)
  BY DEF TypeOK
<1> QED BY <1>1 DEF Heard

LEMMA HeardGrows ==
  ASSUME TypeOK, ReadLine
  PROVE  Heard' = Append(Heard, sent[read + 1]) /\ sent[read + 1] \in Line
BY DEF TypeOK, ReadLine, Heard, service

\* An error ends what is given without a change of its events.
LEMMA FailStep ==
  ASSUME IInv, pc # "yield", NEW cause \in Causes, Fail(cause),
         UNCHANGED <<sent, read, yielded>>
  PROVE  Decoding'
<1>1. item' \in Items /\ IsError(item') /\ pc' = "yield"
  BY Events DEF Fail, Yield, Items
<1>2. Heard' = Heard /\ Given' = Append(Given, item') /\ Given \in Seq(Items)
  BY <1>1 DEF Heard, Given, IInv, Decoding
<1>3. AreTheEvents(Given', Heard')
  BY <1>1, <1>2, ErrorGiven DEF IInv, Decoding
<1> QED BY <1>1, <1>3 DEF Decoding, BeforeBody, Gathered, IInv

LEMMA ReadLineStep == ASSUME IInv, ReadLine PROVE Decoding'
<1> DEFINE line == sent[read + 1]
           n == Len(Heard) + 1
<1>1. /\ pc = "next" /\ read' = read + 1 /\ yielded' = yielded /\ yielded \in Seq(Items)
      /\ gathers(line)
      /\ IF dispatches(line) THEN Yield(Event(decoded)) ELSE UNCHANGED <<pc, item>>
  BY DEF ReadLine, IInv, Decoding
<1>2. /\ Heard' = Append(Heard, line) /\ line \in Line /\ Heard \in Seq(Line) /\ read = n - 1
      /\ n \in Nat /\ decoded \in Seq(Values)
  BY HeardGrows, HeardTyped DEF IInv, TypeOK
<1>3. AreTheEvents(yielded, Heard) /\ Carries(decoded, Heard, DataBefore(Heard, n))
  BY <1>1, <1>2 DEF IInv, Decoding, Gathered, Given
<1> HIDE DEF line
<1>4. Carries(decoded', Heard', DataBefore(Heard', n + 1))
  <2>1. DataBefore(Heard, n) \subseteq 1 .. (n - 1)
        /\ \A s \in 1 .. (n - 1) : Append(Heard, line)[s] = Heard[s]
        /\ Append(Heard, line)[n] = line
    BY <1>2 DEF DataBefore
  <2>2. Carries(decoded, Heard', DataBefore(Heard, n))
    BY <1>2, <1>3, <2>1, CarriesOn
  <2>3. CASE line \in Data
    <3>1. decoded' = Append(decoded, line.value) /\ line.value \in Values
      BY <1>1, <2>3, Lines DEF gathers
    <3>2. DataBefore(Heard', n + 1) = DataBefore(Heard, n) \cup {n}
      BY <1>2, <2>3, DataBeforeNext
    <3>3. Heard'[n].value = line.value
      BY <1>2, <2>1
    <3>4. DataBefore(Heard, n) \in SUBSET (1 .. (n - 1)) /\ decoded \in Seq(Values)
      BY <1>2, <2>1
    <3> HIDE DEF n
    <3>5. Carries(Append(decoded, line.value), Heard', DataBefore(Heard, n) \cup {n})
      BY <1>2, <2>2, <3>1, <3>3, <3>4, CarriesMore
    <3> QED BY <3>1, <3>2, <3>5
  <2>4. CASE line = Blank
    <3>1. decoded' = <<>>
      BY <1>1, <2>4, Lines DEF gathers
    <3>2. DataBefore(Heard', n + 1) = {}
      BY <1>2, <2>4, DataBeforeNext
    <3> QED BY <3>1, <3>2, NothingCarried
  <2>5. CASE line \notin Data /\ line # Blank
    <3>1. decoded' = decoded
      BY <1>1, <2>5 DEF gathers
    <3>2. DataBefore(Heard', n + 1) = DataBefore(Heard, n)
      BY <1>2, <2>5, DataBeforeNext
    <3> QED BY <2>2, <3>1, <3>2
  <2> QED BY <2>3, <2>4, <2>5
<1>5. AreTheEvents(Given', Heard')
  <2>1. CASE dispatches(line)
    <3>1. line = Blank /\ decoded # <<>> /\ Given' = Append(yielded, Event(decoded))
      BY <1>1, <2>1 DEF dispatches, Yield, Given
    <3>2. DataBefore(Heard, n) # {} /\ Event(decoded) \in Items
      BY <1>2, <1>3, <3>1, NothingCarried, Events DEF Items
    <3> QED BY <1>1, <1>2, <1>3, <3>1, <3>2, EventGiven
  <2>2. CASE ~dispatches(line)
    <3>1. Given' = yielded
      BY <1>1, <2>2 DEF Given
    <3>2. line # Blank \/ DataBefore(Heard, n) = {}
      BY <1>3, <2>2, NothingCarried DEF dispatches
    <3> QED BY <1>2, <1>3, <3>1, <3>2, EventsOn
  <2> QED BY <2>1, <2>2
<1>6. pc' \in {"next", "yield"} /\ read' + 1 = n + 1
  BY <1>1, <1>2 DEF Yield
<1> QED BY <1>1, <1>4, <1>5, <1>6 DEF Decoding, BeforeBody, Gathered

\* The steps that read nothing of the body and end no call.
LEMMA QuietStep ==
  ASSUME IInv, UNCHANGED <<yielded, decoded, item, read>>,
         sent' = sent \/ \E line \in Line : sent' = Append(sent, line),
         \/ pc' = pc
         \/ pc \in {"request", "flight"} /\ pc' \in {"flight", "status", "next"}
         \/ pc = "return" /\ pc' = "done",
         sent' # sent => pc \in {"next", "yield"}
  PROVE  Decoding'
<1>1. Heard' = Heard /\ Heard \in Seq(Line) /\ Len(Heard) = read /\ read' = read
  BY HeardKept, HeardTyped DEF IInv
<1>2. Given' = Given
  BY DEF Given
<1>3. BeforeBody'
  BY DEF IInv, Decoding, BeforeBody
<1>4. Gathered'
  <2>1. CASE pc \in {"request", "flight", "status"}
    <3>1. decoded = <<>> /\ read = 0
      BY <2>1 DEF IInv, Decoding, BeforeBody
    <3>2. DataBefore(Heard, read + 1) = {}
      BY <3>1 DEF DataBefore
    <3> QED BY <1>1, <3>1, <3>2, NothingCarried DEF Gathered
  <2>2. CASE pc \notin {"request", "flight", "status"}
    BY <1>1, <2>2 DEF IInv, Decoding, Gathered
  <2> QED BY <2>1, <2>2
<1> QED BY <1>1, <1>2, <1>3, <1>4 DEF IInv, Decoding

LEMMA ConsumeStep == ASSUME IInv, Consume PROVE Decoding'
<1>1. /\ pc = "yield" /\ pc' \in {"return", "next"} /\ yielded' = Append(yielded, item)
      /\ pc' = "next" => ~IsError(item)
      /\ UNCHANGED <<decoded, item, sent, read>> /\ item \in Items
  BY HeardTyped DEF Consume, service, IInv
<1>2. Given' = Given /\ Heard' = Heard
  BY <1>1 DEF Given, Heard
<1>3. yielded' \in Seq(Items)
  BY <1>1 DEF IInv, Decoding
<1> QED BY <1>1, <1>2, <1>3 DEF IInv, Decoding, BeforeBody, Gathered

LEMMA DecodingStep == ASSUME IInv, [Next]_vars PROVE Decoding'
<1>1. CASE RequestFails \/ NoAnswer \/ ReadStatus \/ ReadFails \/ (EndOfBody /\ ctxDone)
  <2>1. PICK cause \in Causes : Fail(cause)
    BY <1>1 DEF RequestFails, NoAnswer, ReadStatus, ReadFails, EndOfBody, Causes
  <2>2. pc # "yield" /\ UNCHANGED <<sent, read, yielded>>
    BY <1>1 DEF RequestFails, NoAnswer, ReadStatus, ReadFails, EndOfBody, service
  <2> QED BY <2>1, <2>2, FailStep
<1>2. CASE EndOfBody /\ ~ctxDone
  <2>1. /\ pc = "next" /\ pc' = "return" /\ UNCHANGED <<item, sent, read, yielded>>
    BY <1>2 DEF EndOfBody, service
  <2>2. Given' = Given /\ Heard' = Heard
    BY <2>1 DEF Given, Heard
  <2> QED BY <2>1, <2>2 DEF IInv, Decoding, BeforeBody, Gathered
<1>3. CASE ReadLine
  BY <1>3, ReadLineStep
<1>4. CASE Consume
  BY <1>4, ConsumeStep
<1>5. CASE SendRequest \/ Refused \/ Answered \/ Return \/ SendLine \/ EndBody \/ ContextEnds
           \/ Returned \/ UNCHANGED vars
  <2>1. /\ UNCHANGED <<yielded, decoded, item, read>>
        /\ sent' = sent \/ \E line \in Line : sent' = Append(sent, line)
        /\ sent' # sent => pc \in {"next", "yield"}
    BY <1>5 DEF SendRequest, Refused, Answered, Return, SendLine, Streaming, EndBody,
       ContextEnds, Returned, vars, service
  <2>2. \/ pc' = pc
        \/ pc \in {"request", "flight"} /\ pc' \in {"flight", "status", "next"}
        \/ pc = "return" /\ pc' = "done"
    BY <1>5 DEF SendRequest, Refused, Answered, Return, SendLine, EndBody, ContextEnds,
       Returned, vars
  <2> QED BY <2>1, <2>2, QuietStep
<1> QED BY <1>1, <1>2, <1>3, <1>4, <1>5 DEF Next, Loop, Network, Service

\* An item is an error only where the iterator goes on to return.
LEMMA EndingStep == ASSUME IInv, [Next]_vars PROVE Ending'
<1> USE DEF Ending
<1>1. CASE Consume
  <2>1. pc = "yield" /\ ~stopped /\ ~Failed
    BY <1>1 DEF Consume, IInv
  <2>2. /\ DOMAIN yielded' = 1 .. (Len(yielded) + 1)
        /\ yielded'[Len(yielded) + 1] = item
        /\ \A k \in DOMAIN yielded : yielded'[k] = yielded[k]
        /\ DOMAIN yielded' = DOMAIN yielded \cup {Len(yielded) + 1}
    BY <1>1 DEF Consume, IInv, Decoding
  <2>3. Failed' <=> IsError(item)
    BY <2>1, <2>2 DEF Failed
  <2> QED BY <1>1, <2>3 DEF Consume
<1>2. CASE EndOfBody \/ Return
  BY <1>2 DEF EndOfBody, Return, service, Failed, IInv, Fail, Yield
<1>3. CASE ~Consume /\ ~EndOfBody /\ ~Return
  <2>1. /\ UNCHANGED <<stopped, yielded>>
        /\ pc' \in {"return", "done"} <=> pc \in {"return", "done"}
        /\ pc \in {"return", "done"} => UNCHANGED <<end, read, sent>>
    BY <1>3 DEF Next, Loop, Network, Service, RequestFails, SendRequest, NoAnswer, Refused,
       ReadStatus, Answered, ReadLine, ReadFails, SendLine, Streaming, EndBody, ContextEnds,
       Returned, vars, service, Fail, Yield
  <2> QED BY <2>1 DEF IInv, Failed
<1> QED BY <1>1, <1>2, <1>3

LEMMA Inductive == Spec => []IInv
<1>1. IInv /\ [Next]_vars => IInv'
  BY TypeStep, DecodingStep, EndingStep DEF IInv
<1> QED BY InitInv, <1>1, PTL DEF Spec

-----------------------------------------------------------------------------
\* The variables keep their types, whatever the data and however long the body;
\* the body of an answer is closed when the iterator returns.
THEOREM TypeCorrect == Spec => []TypeOK
<1>1. IInv => TypeOK
  BY DEF IInv
<1> QED BY Inductive, <1>1, PTL

\* next and Stream hand the consumer exactly the events of the lines read, each
\* with all its data, once and in order, and an end without an error means that
\* the service ended its body and all of it was read.
THEOREM EventsWhole == Spec => []EventsAreWhole
<1>1. IInv => EventsAreWhole
  BY DEF IInv, Decoding, Ending, Given, Heard, EventsAreWhole
<1> QED BY Inductive, <1>1, PTL

\* An error is the last thing a consumer is given, and one that has left its loop
\* is given nothing more.
THEOREM ErrorIsLast == Spec => EndsOnce
<1>1. IInv /\ [Next]_vars => [yielded' # yielded => ~stopped /\ ~Failed]_vars
  <2> SUFFICES ASSUME IInv, [Next]_vars, yielded' # yielded PROVE ~stopped /\ ~Failed
    OBVIOUS
  <2>1. pc = "yield"
    BY DEF Next, Loop, Network, Service, RequestFails, SendRequest, NoAnswer, Refused,
       ReadStatus, Answered, ReadLine, EndOfBody, ReadFails, Consume, Return, SendLine, EndBody,
       ContextEnds, Returned, vars
  <2> QED BY <2>1 DEF IInv, Ending
<1> QED BY Inductive, <1>1, PTL DEF Spec, EndsOnce
=============================================================================

----------------------------- MODULE UploadProofs -----------------------------
(***************************************************************************)
(* The safety properties of module Upload, for fallback lists of any       *)
(* length.                                                                 *)
(***************************************************************************)
EXTENDS Upload, FiniteSetTheorems, TLAPS

-----------------------------------------------------------------------------
(* The chain of backends. *)

\* Without repeats, a list of backends is its first one, and perhaps the other.
LEMMA DedupShape ==
  ASSUME NEW s \in Seq(Repositories), s # <<>>
  PROVE  \E a \in Repositories :
           \/ dedup(s) = <<a>>
           \/ \E b \in Repositories \ {a} : dedup(s) = <<a, b>>
<1> DEFINE firsts == {i \in DOMAIN s : \A j \in 1 .. i - 1 : s[j] # s[i]}
           rank(i) == Cardinality({j \in firsts : j <= i})
           at(k) == CHOOSE i \in firsts : rank(i) = k
<1>1. dedup(s) = [k \in 1 .. Cardinality(firsts) |-> s[at(k)]]
  BY DEF dedup
<1>2. 1 \in firsts /\ firsts \subseteq Nat \ {0} /\ \A i \in firsts : s[i] \in Repositories
  OBVIOUS
<1>3. \A i, j \in firsts : i < j => s[i] # s[j]
  OBVIOUS
<1> HIDE DEF firsts
<1>4. CASE firsts = {1}
  <2>1. Cardinality(firsts) = 1
    BY <1>4, FS_Singleton
  <2>2. {j \in firsts : j <= 1} = firsts
    BY <1>4
  <2>3. at(1) = 1
    BY <1>4, <2>1, <2>2
  <2> HIDE DEF at
  <2>4. dedup(s) = [k \in 1 .. 1 |-> s[at(k)]]
    BY <1>1, <2>1
  <2>5. dedup(s) = <<s[1]>>
    BY <2>3, <2>4
  <2> QED BY <1>2, <2>5
<1>5. ASSUME NEW m \in firsts, m # 1
      PROVE  \E b \in Repositories \ {s[1]} : dedup(s) = <<s[1], b>>
  <2>1. m > 1 /\ s[m] \in Repositories /\ s[m] # s[1]
    BY <1>2, <1>3, <1>5
  <2>2. firsts = {1, m}
    <3>1. ASSUME NEW n \in firsts, n # 1, n # m PROVE FALSE
      <4>1. s[n] # s[1] /\ s[n] # s[m] /\ s[n] \in Repositories
        BY <1>2, <1>3, <1>5, <3>1
      <4> QED BY <2>1, <4>1, <1>2 DEF Repositories
    <3> QED BY <1>2, <1>5, <3>1
  <2>3. Cardinality({1}) = 1 /\ Cardinality(firsts) = 2
    <3>1. IsFiniteSet({1}) /\ Cardinality({1}) = 1
      BY FS_Singleton
    <3>2. m \notin {1}
      BY <1>5
    <3>3. Cardinality({1} \cup {m}) = Cardinality({1}) + 1
      BY <3>1, <3>2, FS_AddElement, Zenon
    <3>4. firsts = {1} \cup {m}
      BY <2>2
    <3>5. Cardinality(firsts) = 1 + 1
      BY <3>1, <3>3, <3>4, Zenon
    <3> QED BY <3>1, <3>5
  <2>4. {j \in firsts : j <= 1} = {1} /\ {j \in firsts : j <= m} = firsts
    BY <1>2, <2>1, <2>2
  <2>5. rank(1) = 1 /\ rank(m) = 2
    BY <2>3, <2>4
  <2> HIDE DEF rank
  <2>6. at(1) = 1 /\ at(2) = m
    BY <2>2, <2>5
  <2> HIDE DEF at
  <2>7. dedup(s) = [k \in 1 .. 2 |-> s[at(k)]]
    BY <1>1, <2>3
  <2>8. dedup(s) = <<s[1], s[m]>>
    BY <2>6, <2>7
  <2> QED BY <2>1, <2>8
<1> QED BY <1>2, <1>4, <1>5

\* Of any list it is a sequence, of which nothing is the empty prefix.
LEMMA DedupPrefix ==
  ASSUME NEW S, NEW s \in Seq(S)
  PROVE  IsPrefix(<<>>, dedup(s))
<1> DEFINE firsts == {i \in DOMAIN s : \A j \in 1 .. i - 1 : s[j] # s[i]}
           rank(i) == Cardinality({j \in firsts : j <= i})
           value(k) == s[CHOOSE i \in firsts : rank(i) = k]
           n == Cardinality(firsts)
<1>1. dedup(s) = [k \in 1 .. n |-> value(k)]
  BY DEF dedup
<1>2. n \in Nat
  <2>1. firsts \subseteq 1 .. Len(s) /\ Len(s) \in Nat
    OBVIOUS
  <2>2. IsFiniteSet(1 .. Len(s))
    BY <2>1, FS_Interval
  <2> HIDE DEF firsts
  <2> QED BY <2>1, <2>2, FS_Subset, FS_CardinalityType
<1> HIDE DEF n, value
<1>3. dedup(s) \in Seq({value(k) : k \in 1 .. n})
  BY <1>1, <1>2
<1> HIDE DEF value
<1> QED BY <1>3 DEF IsPrefix

-----------------------------------------------------------------------------
(* The invariant. *)

repos == dedup(resolved)

Arguments ==
  /\ primary \in Repositories \cup {Unset, "other"} /\ fallbackSet \in BOOLEAN
  /\ fallback \in Seq(Repositories \cup {"other"})

\* Where the call is in its list: before it, at the first backend, or at the
\* second.
AtStart == tried = <<>> /\ chain = <<>>
AtOnly == \E a \in Repositories : repos = <<a>> /\ tried = <<a>> /\ chain = <<a>>
AtFirst ==
  \E a \in Repositories : \E b \in Repositories \ {a} :
    repos = <<a, b>> /\ tried = <<a>> /\ chain = <<a, b>>
AtSecond ==
  \E a \in Repositories : \E b \in Repositories \ {a} :
    repos = <<a, b>> /\ tried = <<a, b>> /\ chain = <<b>>

V3Requests == {"token", "single", "multipart"}

Walking ==
  /\ AtStart \/ AtOnly \/ AtFirst \/ AtSecond
  /\ outcome = "running" <=> pc \notin {"return", "done"}
  /\ pc \in {"open", "resolve"} => AtStart /\ ~flight /\ stored = {} /\ file # "closed"
  /\ AtStart => lastErr = NoError /\ readBy = <<>> /\ outcome # "url" /\ pc \notin Requests
  /\ pc \in Requests => chain[1] = (IF pc \in V3Requests THEN "v3" ELSE "legacy")
  /\ pc \in Requests \/ outcome = "url" => lastErr.backend # chain[1]
  /\ outcome = "url" => chain[1] \in stored
  /\ outcome = "error" /\ ~AtStart => ~AtFirst /\ lastErr.backend = chain[1]

\* A closed file, other than by the request in flight, was closed by the backend
\* before, and not by a multipart upload.
Content ==
  /\ file # "none" \/ pc = "open" => kind = "file"
  /\ pc = "single" => ~toMultipart
  /\ pc \in Requests /\ file = "closed" /\ ~(flight /\ wholeBody) => AtSecond /\ ~toMultipart
  /\ lastErr.cause = "closed" => kind = "file" /\ AtSecond /\ ~toMultipart

\* Whoever has read the file as a whole has closed it, and is the backend that
\* is handing it to do, or that has returned a URL for it.
Reading ==
  /\ readBy = <<>> \/ (file = "closed" /\ \E a \in Repositories : readBy = <<a>>)
  /\ allowMultipart /\ big => readBy \in {<<>>, <<"legacy">>}
  /\ pc = "multipart" => toMultipart
  /\ pc \in Requests /\ flight /\ wholeBody => readBy \in {<<>>, <<chain[1]>>}
  /\ outcome = "url" => readBy \in {<<>>, <<chain[1]>>}

\* An object is created with its settings, which rules out settings that cannot
\* be sent, before it is stored.
Created == pc = "put" \/ (flight /\ pc \in {"single", "multipart", "initiate"})
Refusing ==
  /\ stored \subseteq withSettings
  /\ badLifecycle => withSettings = {}
  /\ Created => chain[1] \in withSettings

Inv == TypeOK /\ Arguments /\ Walking /\ Content /\ Reading /\ Refusing

-----------------------------------------------------------------------------
\* What depends on the arguments only stays as it is.
LEMMA SameArguments ==
  ASSUME UNCHANGED arguments
  PROVE  /\ resolved' = resolved /\ repos' = repos
         /\ allowMultipart' = allowMultipart /\ toMultipart' = toMultipart
BY DEF arguments, resolved, repos, allowMultipart, toMultipart

\* The resolved list is a sequence, and not an empty one.
LEMMA ResolvedType ==
  ASSUME Arguments
  PROVE  /\ resolved \in Seq(Repositories \cup {"other"}) /\ resolved # <<>>
         /\ resolved[1] \in Repositories \cup {"other"}
<1> DEFINE head == IF primary = Unset THEN "v3" ELSE primary
           rest == IF fallbackSet THEN fallback ELSE <<"legacy">>
<1>1. head \in Repositories \cup {"other"}
  BY DEF Arguments, Unset, Repositories
<1>2. rest \in Seq(Repositories \cup {"other"})
  <2>1. <<"legacy">> \in Seq(Repositories \cup {"other"})
    BY DEF Repositories
  <2> QED BY <2>1 DEF Arguments
<1>3. resolved = <<head>> \o rest
  BY DEF resolved
<1> HIDE DEF head, rest
<1> QED BY <1>1, <1>2, <1>3

\* The initial state satisfies the invariant.
LEMMA InitInv == Init => Inv
<1> SUFFICES ASSUME Init PROVE Inv
  OBVIOUS
<1>1. TypeOK
  <2>1. lastErr \in [backend : Repositories \cup {"none"}, cause : Causes]
    BY DEF Init, NoError, Causes
  <2>2. pc \in {"open", "resolve"} /\ file = "none"
    BY DEF Init
  <2>3. chain \in Seq(Repositories) /\ tried \in Seq(Repositories) /\ stored \subseteq Repositories
    BY DEF Init
  <2>4. outcome = "running" /\ flight \in BOOLEAN /\ tokenBusy \in BOOLEAN
    BY DEF Init
  <2>5. readBy \in Seq(Repositories) /\ withSettings \subseteq Repositories
    BY DEF Init
  <2> QED BY <2>1, <2>2, <2>3, <2>4, <2>5 DEF Init, TypeOK
<1>2. Arguments
  <2>1. ASSUME NEW n \in 0 .. MaxFallback
        PROVE  [1 .. n -> Repositories \cup {"other"}] \subseteq Seq(Repositories \cup {"other"})
    BY MaxFallbackAssumption
  <2>2. CASE fallbackSet
    <3>1. PICK n \in 0 .. MaxFallback : fallback \in [1 .. n -> Repositories \cup {"other"}]
      BY <2>2 DEF Init
    <3> QED BY <2>1, <3>1 DEF Init, Arguments
  <2>3. CASE ~fallbackSet
    BY <2>3 DEF Init, Arguments
  <2> QED BY <2>2, <2>3
<1>3. Walking
  BY DEF Init, Walking, AtStart, Requests, NoError
<1>4. Content /\ Reading /\ Refusing
  BY DEF Init, Content, Reading, Refusing, Created, Requests, NoError
<1> QED BY <1>1, <1>2, <1>3, <1>4 DEF Inv

\* The content is handed to do as a whole only where it is no multipart upload:
\* by a backend after the first one, or if there is none at all.
LEMMA WholeBodyFact ==
  ASSUME Inv, wholeBody, ~AtSecond
  PROVE  ~toMultipart
<1>1. CASE pc = "single"
  BY <1>1 DEF Inv, Content
<1>2. CASE pc = "put"
  <2>1. chain[1] = "legacy" /\ (AtOnly \/ AtFirst)
    BY <1>2 DEF Inv, Walking, Requests, V3Requests
  <2>2. repos[1] = "legacy"
    BY <2>1 DEF AtOnly, AtFirst
  <2> QED BY <2>2 DEF repos, toMultipart, allowMultipart
<1> QED BY <1>1, <1>2 DEF wholeBody

\* What a request does to the file keeps to Reading: only an open file, which no
\* one has read, is read, and a large one only by legacy if v3 is the primary.
LEMMA ReadingFact ==
  ASSUME Inv, pc \in Requests, UNCHANGED arguments,
         \/ UNCHANGED <<file, readBy>>
         \/ /\ ReplaysFile /\ file' = "closed"
            /\ readBy' \in {readBy, Append(readBy, chain[1])}
  PROVE  /\ readBy' \in Seq(Repositories)
         /\ readBy' = <<>> \/ (file' = "closed" /\ \E a \in Repositories : readBy' = <<a>>)
         /\ allowMultipart /\ big => readBy' \in {<<>>, <<"legacy">>}
<1> USE DEF Inv
<1>1. CASE UNCHANGED <<file, readBy>>
  BY <1>1 DEF Reading, TypeOK
<1>2. CASE ReplaysFile /\ file' = "closed" /\ readBy' \in {readBy, Append(readBy, chain[1])}
  <2>1. readBy = <<>>
    BY <1>2 DEF Reading, ReplaysFile
  <2>2. chain[1] \in Repositories
    BY DEF Walking, Repositories
  <2>3. readBy' \in {<<>>, <<chain[1]>>}
    BY <1>2, <2>1
  <2>4. allowMultipart /\ big => chain[1] = "legacy"
    BY <1>2 DEF ReplaysFile, wholeBody, Content, Walking, V3Requests, toMultipart
  <2>5. readBy' = <<>> \/ \E a \in Repositories : readBy' = <<a>>
    BY <2>2, <2>3
  <2>6. readBy' \in Seq(Repositories)
    <3>1. <<>> \in Seq(Repositories) /\ \A a \in Repositories : <<a>> \in Seq(Repositories)
      OBVIOUS
    <3> QED BY <2>5, <3>1
  <2>7. allowMultipart /\ big => readBy' \in {<<>>, <<"legacy">>}
    BY <2>3, <2>4
  <2> QED BY <1>2, <2>5, <2>6, <2>7
<1> QED BY <1>1, <1>2

\* A backend fails: the next one is tried, or the call returns the error.
LEMMA FailsInv ==
  ASSUME Inv, pc \in Requests, NEW cause \in Causes \ {"none"}, BackendFails(cause),
         UNCHANGED <<arguments, outside>>,
         \/ UNCHANGED <<file, readBy>>
         \/ /\ ReplaysFile /\ file' = "closed"
            /\ readBy' \in {readBy, Append(readBy, chain[1])},
         UNCHANGED withSettings,
         \/ UNCHANGED stored
         \/ chain[1] \in withSettings /\ stored' = stored \cup {chain[1]},
         cause = "closed" => wholeBody /\ file = "closed" /\ ~flight
  PROVE  Inv'
<1> USE DEF Inv
<1>1. /\ lastErr' = [backend |-> chain[1], cause |-> cause] /\ flight' = FALSE
      /\ UNCHANGED <<resolved, repos, allowMultipart, toMultipart, kind, big, badLifecycle>>
  BY SameArguments DEF BackendFails, Return, arguments
<1>2. Arguments'
  BY DEF Arguments, arguments
<1>3. (AtOnly \/ AtFirst \/ AtSecond) /\ outcome = "running"
  BY DEF Walking, Requests
<1>4. /\ file' \in {"none", "open", "closed"} /\ ctxDone' \in BOOLEAN /\ tokenBusy' \in BOOLEAN
      /\ file' # "none" => kind = "file"
  BY DEF TypeOK, Content, Requests, outside, ReplaysFile
<1>5. chain[1] \in Repositories /\ stored' \subseteq Repositories
  BY <1>3 DEF AtOnly, AtFirst, AtSecond, TypeOK
<1>6. file' = "closed" /\ ~AtSecond => ~toMultipart
  BY WholeBodyFact DEF Content, ReplaysFile
<1>7. /\ readBy' \in Seq(Repositories)
      /\ readBy' = <<>> \/ (file' = "closed" /\ \E a \in Repositories : readBy' = <<a>>)
      /\ allowMultipart /\ big => readBy' \in {<<>>, <<"legacy">>}
      /\ withSettings' \subseteq Repositories
  BY ReadingFact DEF TypeOK
<1>a. stored' \subseteq withSettings' /\ (badLifecycle => withSettings' = {})
  BY DEF Refusing
<1>8. cause = "closed" => kind = "file" /\ AtSecond /\ ~toMultipart
  BY DEF Content
<1>9. lastErr' \in [backend : Repositories \cup {"none"}, cause : Causes]
  BY <1>1, <1>5
<1>10. CASE AtFirst
  <2>1. PICK a \in Repositories, b \in Repositories :
          a # b /\ repos = <<a, b>> /\ tried = <<a>> /\ chain = <<a, b>>
    BY <1>10 DEF AtFirst
  <2>2. chain' = <<b>> /\ tried' = <<a, b>> /\ pc' = First(b) /\ outcome' = "running"
    BY <1>3, <2>1 DEF BackendFails
  <2>3. AtSecond' /\ ~AtStart' /\ ~AtSecond
    BY <1>1, <2>1, <2>2 DEF AtSecond, AtStart
  <2>4. pc' \in {"token", "initiate"} /\ (pc' = "token" <=> b = "v3")
    BY <2>2 DEF First
  <2>5. chain' \in Seq(Repositories) /\ tried' \in Seq(Repositories)
    BY <2>1, <2>2
  <2>6. TypeOK'
    BY <1>1, <1>4, <1>5, <1>7, <1>9, <2>2, <2>4, <2>5 DEF TypeOK, Requests
  <2>7. Walking'
    BY <1>1, <2>1, <2>2, <2>3, <2>4 DEF Walking, Requests, V3Requests, Repositories
  <2>8. Content'
    BY <1>1, <1>4, <1>6, <1>8, <2>3, <2>4 DEF Content
  <2>9. Reading' /\ Refusing'
    BY <1>1, <1>7, <1>a, <2>2, <2>4 DEF Reading, Refusing, Created
  <2> QED BY <1>2, <2>6, <2>7, <2>8, <2>9
<1>11. CASE AtOnly \/ AtSecond
  <2>0. Len(chain) = 1
    BY <1>11 DEF AtOnly, AtSecond
  <2>1. ~AtFirst /\ Len(chain) = 1
    BY <2>0 DEF AtFirst
  <2>2. chain' = chain /\ tried' = tried /\ pc' = "return" /\ outcome' = "error"
    BY <2>1 DEF BackendFails, Return
  <2>3. (AtOnly' <=> AtOnly) /\ ~AtFirst' /\ (AtSecond' <=> AtSecond) /\ ~AtStart'
    BY <1>1, <1>11, <2>1, <2>2 DEF AtOnly, AtFirst, AtSecond, AtStart
  <2>4. TypeOK'
    BY <1>1, <1>4, <1>5, <1>7, <1>9, <2>2 DEF TypeOK
  <2>5. Walking'
    BY <1>1, <1>11, <2>2, <2>3 DEF Walking, Requests
  <2>6. Content'
    BY <1>1, <1>4, <1>8, <2>2, <2>3 DEF Content, Requests
  <2>7. Reading' /\ Refusing'
    BY <1>1, <1>7, <1>a, <2>2 DEF Reading, Refusing, Created, Requests
  <2> QED BY <1>2, <2>4, <2>5, <2>6, <2>7
<1> QED BY <1>3, <1>10, <1>11

\* The ways in which a backend fails before its request is in flight.
LEMMA NotBegunInv ==
  ASSUME Inv, NewReaderFails \/ NewRequestFails \/ LifecycleFails \/ BufferingFails
  PROVE  Inv'
<1>1. pc \in Requests /\ ~flight /\ UNCHANGED <<arguments, outside, objects, readBy>>
  BY DEF NewReaderFails, NewRequestFails, LifecycleFails, BufferingFails, Beginning
<1> USE DEF objects
<1>2. CASE NewReaderFails
  BY <1>1, <1>2, FailsInv DEF NewReaderFails, Causes
<1>3. CASE NewRequestFails
  BY <1>1, <1>3, FailsInv DEF NewRequestFails, Causes
<1>4. CASE LifecycleFails
  BY <1>1, <1>4, FailsInv DEF LifecycleFails, Causes
<1>5. CASE BufferingFails
  BY <1>1, <1>5, FailsInv DEF BufferingFails, Causes
<1> QED BY <1>2, <1>3, <1>4, <1>5

\* Its failure in flight, after which the object may be stored all the same.
LEMMA RequestFailsInv == ASSUME Inv, RequestFails PROVE Inv'
<1>1. /\ pc \in Requests /\ flight /\ UNCHANGED <<arguments, file, outside, withSettings, readBy>>
      /\ BackendFails("request") \/ BackendFails("ctx")
  BY DEF RequestFails
<1>2. \/ UNCHANGED stored
      \/ chain[1] \in withSettings /\ stored' = stored \cup {chain[1]}
  BY DEF RequestFails, Inv, Refusing, Created
<1> QED BY <1>1, <1>2, FailsInv DEF Causes

-----------------------------------------------------------------------------
(* The steps between the failures. *)

\* The place in the list depends on the list and on what was tried.
LEMMA SamePlace ==
  ASSUME UNCHANGED <<arguments, chain, tried>>
  PROVE  /\ (AtStart' <=> AtStart) /\ (AtOnly' <=> AtOnly)
         /\ (AtFirst' <=> AtFirst) /\ (AtSecond' <=> AtSecond)
BY SameArguments DEF AtStart, AtOnly, AtFirst, AtSecond

\* The file is opened, or the call is over.
LEMMA OpenFileInv == ASSUME Inv, OpenFile PROVE Inv'
<1> USE DEF Inv, objects
<1>1. /\ UNCHANGED <<arguments, chain, tried, lastErr, outside, objects, readBy>>
      /\ pc = "open" /\ flight' = FALSE
      /\ \/ pc' = "return" /\ outcome' = "error" /\ file' = file
         \/ pc' = "resolve" /\ outcome' = "running" /\ file' = "open"
  BY DEF OpenFile, Return, Goto, Walking
<1>2. AtStart /\ AtStart'
  BY <1>1, SamePlace DEF Walking
<1>3. TypeOK' /\ Arguments'
  BY <1>1 DEF TypeOK, Arguments, arguments, outside
<1>4. Walking'
  BY <1>1, <1>2 DEF Walking, Requests
<1>5. Content' /\ Reading' /\ Refusing'
  BY <1>1, <1>2, SameArguments, SamePlace
  DEF Content, Reading, Refusing, Created, Walking, NoError, Requests, arguments
<1> QED BY <1>3, <1>4, <1>5

\* A list of known backends has one or two of them, and the first is tried.
LEMMA ResolveChainInv == ASSUME Inv, ResolveChain PROVE Inv'
<1> USE DEF Inv, objects
<1>1. /\ pc = "resolve" /\ AtStart /\ ~flight /\ file # "closed" /\ outcome = "running"
      /\ lastErr = NoError /\ readBy = <<>> /\ stored = {}
      /\ UNCHANGED <<arguments, file, outside, objects, readBy, lastErr>>
  BY DEF ResolveChain, Walking
<1>2. /\ UNCHANGED <<resolved, repos, allowMultipart, toMultipart, kind, badLifecycle>>
      /\ Arguments'
  BY <1>1, SameArguments DEF Arguments, arguments
<1>3. CASE ToSet(resolved) \subseteq Repositories
  <2>1. /\ chain' = repos /\ pc' = First(repos[1]) /\ tried' = <<repos[1]>>
        /\ UNCHANGED <<flight, lastErr, outcome>>
    BY <1>3 DEF ResolveChain, repos
  <2>2. resolved \in Seq(Repositories) /\ resolved # <<>>
    BY <1>3, ResolvedType DEF ToSet
  <2>3. \E a \in Repositories :
          \/ repos = <<a>>
          \/ \E b \in Repositories \ {a} : repos = <<a, b>>
    BY <2>2, DedupShape DEF repos
  <2>4. AtOnly' \/ AtFirst'
    BY <1>2, <2>1, <2>3 DEF AtOnly, AtFirst
  <2>5. /\ repos[1] \in Repositories /\ chain' \in Seq(Repositories)
        /\ tried' \in Seq(Repositories) /\ tried' # <<>>
    <3>1. PICK a \in Repositories :
            \/ repos = <<a>>
            \/ \E b \in Repositories \ {a} : repos = <<a, b>>
      BY <2>3
    <3>2. <<a>> \in Seq(Repositories) /\ \A b \in Repositories : <<a, b>> \in Seq(Repositories)
      OBVIOUS
    <3>3. repos[1] = a
      BY <3>1
    <3> QED BY <2>1, <3>1, <3>2, <3>3
  <2>6. pc' \in {"token", "initiate"} /\ (pc' = "token" <=> repos[1] = "v3")
    BY <2>1, <2>5 DEF First, Repositories
  <2>7. TypeOK'
    BY <1>1, <2>1, <2>5, <2>6 DEF TypeOK, Requests, arguments, outside
  <2>8. Walking'
    <3>1. ~AtStart'
      BY <2>5 DEF AtStart
    <3>2. lastErr'.backend = "none"
      BY <1>1 DEF NoError
    <3> QED BY <1>1, <2>1, <2>4, <2>5, <2>6, <3>1, <3>2
            DEF Walking, Requests, V3Requests, Repositories
  <2>9. Content' /\ Reading' /\ Refusing'
    BY <1>1, <1>2, <2>1, <2>6 DEF Content, Reading, Refusing, Created, NoError
  <2> QED BY <1>2, <2>7, <2>8, <2>9
<1>4. CASE ~(ToSet(resolved) \subseteq Repositories)
  <2>1. /\ pc' = "return" /\ flight' = FALSE /\ outcome' = "error"
        /\ UNCHANGED <<chain, tried>>
    BY <1>4 DEF ResolveChain, Return
  <2>2. AtStart'
    BY <1>1, <2>1, SamePlace
  <2>3. TypeOK' /\ Walking'
    BY <1>1, <2>1, <2>2 DEF TypeOK, Walking, Requests, arguments, outside
  <2>4. Content' /\ Reading' /\ Refusing'
    BY <1>1, <1>2, <2>1, <2>2 DEF Content, Reading, Refusing, Created, NoError, Requests
  <2> QED BY <1>2, <2>3, <2>4
<1> QED BY <1>3, <1>4

\* A request goes out, or the context has ended: in both cases what is handed to
\* do as a whole has been read and closed.
LEMMA BeginInv == ASSUME Inv, Begin PROVE Inv'
<1> USE DEF Inv, objects
<1>1. /\ pc \in Requests /\ ~flight /\ ~lifecycleFails /\ ~(wholeBody /\ file = "closed")
      /\ UNCHANGED <<arguments, outside, stored>>
      /\ \/ /\ ReplaysFile /\ file' = "closed"
            /\ readBy' = Append(readBy, chain[1])
         \/ ~ReplaysFile /\ UNCHANGED <<file, readBy>>
  BY DEF Begin, Beginning, TypeOK
<1>2. CASE ctxDone
  BY <1>1, <1>2, FailsInv DEF Begin, Causes
<1>3. CASE ~ctxDone
  <2>1. flight' = TRUE /\ UNCHANGED <<pc, chain, lastErr, outcome, tried>>
    BY <1>3 DEF Begin
  <2>2. UNCHANGED <<allowMultipart, toMultipart, wholeBody, kind, big, badLifecycle>>
    BY <1>1, <2>1, SameArguments DEF wholeBody, arguments
  <2>3. /\ (AtStart' <=> AtStart) /\ (AtOnly' <=> AtOnly)
        /\ (AtFirst' <=> AtFirst) /\ (AtSecond' <=> AtSecond)
    BY <1>1, <2>1, SamePlace
  <2>a. /\ readBy' \in Seq(Repositories)
        /\ readBy' = <<>> \/ (file' = "closed" /\ \E a \in Repositories : readBy' = <<a>>)
        /\ allowMultipart /\ big => readBy' \in {<<>>, <<"legacy">>}
        /\ withSettings' = withSettings \cup {b \in {chain[1]} : setsLifecycle}
        /\ chain[1] \in Repositories
    BY <1>1, <1>3, ReadingFact DEF Begin, Walking, Repositories
  <2>4. TypeOK' /\ Arguments'
    <3>1. pc' # "done" /\ file' \in {"none", "open", "closed"}
          /\ readBy' \in Seq(Repositories) /\ withSettings' \subseteq Repositories
      BY <1>1, <2>1, <2>a DEF TypeOK, Requests
    <3> QED BY <1>1, <2>1, <3>1 DEF TypeOK, Arguments, arguments, outside
  <2>5. Walking'
    BY <1>1, <2>1, <2>3 DEF Walking, Requests
  <2>6. Content'
    <3>2. file' = "closed" /\ ~wholeBody => AtSecond /\ ~toMultipart
      BY <1>1 DEF Content, ReplaysFile
    <3>3. file' # "none" => kind = "file"
      BY <1>1 DEF Content, ReplaysFile
    <3> QED BY <1>1, <2>1, <2>2, <2>3, <3>2, <3>3 DEF Content, Requests
  <2>7. Reading'
    <3>1. wholeBody => readBy = <<>>
      BY <1>1 DEF Reading
    <3>2. wholeBody => readBy' \in {<<>>, <<chain[1]>>}
      BY <1>1, <3>1
    <3> QED BY <1>1, <2>1, <2>2, <2>a, <3>2 DEF Reading, Walking
  <2>8. Refusing'
    BY <1>1, <2>1, <2>2, <2>a DEF Refusing, Created, lifecycleFails, setsLifecycle
  <2> QED BY <2>4, <2>5, <2>6, <2>7, <2>8
<1> QED BY <1>2, <1>3

\* The next request of the same backend, which only a backend whose settings
\* were accepted comes to.
LEMMA NextRequestInv ==
  ASSUME Inv, TokenCached \/ TokenFetched \/ Initiated
  PROVE  Inv'
<1> USE DEF Inv, objects
<1>1. /\ \/ pc = "token" /\ pc' = (IF toMultipart THEN "multipart" ELSE "single")
         \/ pc = "initiate" /\ flight /\ pc' = "put"
      /\ flight' = FALSE
      /\ UNCHANGED <<arguments, file, outside, objects, readBy, chain, lastErr, outcome, tried>>
  BY DEF TokenCached, TokenFetched, Initiated, AfterToken, Goto
<1>2. UNCHANGED <<allowMultipart, toMultipart, kind, big, badLifecycle>>
  BY <1>1, SameArguments DEF arguments
<1>3. /\ (AtStart' <=> AtStart) /\ (AtOnly' <=> AtOnly)
      /\ (AtFirst' <=> AtFirst) /\ (AtSecond' <=> AtSecond)
  BY <1>1, SamePlace
<1>4. TypeOK' /\ Arguments'
  <2>1. pc' \in Requests /\ pc' # "done" /\ pc # "done"
    BY <1>1 DEF Requests
  <2>2. /\ flight' \in BOOLEAN
        /\ UNCHANGED <<arguments, file, outside, objects, readBy, chain, lastErr, outcome, tried>>
    BY <1>1
  <2> QED BY <2>1, <2>2 DEF TypeOK, Arguments, arguments, outside
<1>5. Walking'
  BY <1>1, <1>3 DEF Walking, Requests, V3Requests
<1>6. Content' /\ Reading' /\ Refusing'
  BY <1>1, <1>2, <1>3 DEF Content, Reading, Refusing, Created, Requests, wholeBody
<1> QED BY <1>4, <1>5, <1>6

\* The request with the content succeeds.
LEMMA UploadedInv == ASSUME Inv, Uploaded PROVE Inv'
<1> USE DEF Inv, objects
<1>1. /\ pc \in {"single", "multipart", "put"} /\ flight /\ stored' = stored \cup {chain[1]}
      /\ pc' = "return" /\ flight' = FALSE /\ outcome' = "url"
      /\ UNCHANGED <<arguments, file, outside, withSettings, readBy, chain, lastErr, tried>>
  BY DEF Uploaded, Return
<1>2. UNCHANGED <<allowMultipart, toMultipart, kind, big, badLifecycle>>
  BY <1>1, SameArguments DEF arguments
<1>3. /\ (AtStart' <=> AtStart) /\ (AtOnly' <=> AtOnly)
      /\ (AtFirst' <=> AtFirst) /\ (AtSecond' <=> AtSecond)
  BY <1>1, SamePlace
<1>4. ~AtStart /\ chain[1] \in Repositories
  BY <1>1 DEF Walking, Requests, V3Requests, Repositories
<1>5. TypeOK' /\ Arguments'
  <2>1. pc # "done" /\ pc' # "done" /\ stored' \subseteq Repositories
        /\ UNCHANGED withSettings
    BY <1>1, <1>4 DEF TypeOK
  <2> QED BY <1>1, <2>1 DEF TypeOK, Arguments, arguments, outside
<1>6. Walking'
  <2>1. /\ pc' \notin Requests \cup {"open", "resolve"} /\ pc \in Requests
        /\ chain'[1] \in stored' /\ lastErr'.backend # chain'[1]
    BY <1>1 DEF Walking, Requests
  <2> QED BY <1>1, <1>3, <1>4, <2>1 DEF Walking
<1>7. Content'
  BY <1>1, <1>2, <1>3 DEF Content, Requests
<1>8. Reading'
  <2>1. readBy \in {<<>>, <<chain[1]>>}
    BY <1>1 DEF Reading, Content, Requests, wholeBody
  <2> QED BY <1>1, <1>2, <2>1 DEF Reading, Requests
<1>9. Refusing'
  BY <1>1, <1>2 DEF Refusing, Created
<1> QED BY <1>5, <1>6, <1>7, <1>8, <1>9

\* The end of the call, with the deferred Close.
LEMMA CloseFileInv == ASSUME Inv, CloseFile PROVE Inv'
<1> USE DEF Inv, objects
<1>1. /\ pc = "return" /\ pc' = "done" /\ file' = (IF file = "open" THEN "closed" ELSE file)
      /\ UNCHANGED <<arguments, flight, chain, lastErr, outcome, tried, outside, objects, readBy>>
  BY DEF CloseFile
<1>2. UNCHANGED <<allowMultipart, toMultipart, kind, big, badLifecycle>>
  BY <1>1, SameArguments DEF arguments
<1>3. /\ (AtStart' <=> AtStart) /\ (AtOnly' <=> AtOnly)
      /\ (AtFirst' <=> AtFirst) /\ (AtSecond' <=> AtSecond)
  BY <1>1, SamePlace
<1>4. TypeOK' /\ Arguments'
  BY <1>1 DEF TypeOK, Arguments, arguments, outside
<1>5. Walking'
  <2>1. pc \notin Requests /\ pc' \notin Requests \cup {"open", "resolve"}
    BY <1>1 DEF Requests
  <2> QED BY <1>1, <1>3, <2>1 DEF Walking
<1>6. Content' /\ Reading' /\ Refusing'
  BY <1>1, <1>2, <1>3 DEF Content, Reading, Refusing, Created, Requests
<1> QED BY <1>4, <1>5, <1>6

\* What happens around the call.
LEMMA OutsideInv ==
  ASSUME Inv, UNCHANGED <<arguments, control, file, objects, readBy>>,
         ctxDone' \in BOOLEAN, tokenBusy' \in BOOLEAN
  PROVE  Inv'
<1> USE DEF Inv, objects
<1>1. UNCHANGED <<pc, flight, chain, lastErr, outcome, tried, file, objects, readBy>>
  BY DEF control
<1>2. UNCHANGED <<allowMultipart, toMultipart, wholeBody, kind, big, badLifecycle>>
  BY <1>1, SameArguments DEF arguments, wholeBody
<1>3. /\ (AtStart' <=> AtStart) /\ (AtOnly' <=> AtOnly)
      /\ (AtFirst' <=> AtFirst) /\ (AtSecond' <=> AtSecond)
  BY <1>1, SamePlace
<1>4. TypeOK' /\ Arguments'
  BY <1>1 DEF TypeOK, Arguments, arguments
<1>5. Walking'
  BY <1>1, <1>3 DEF Walking
<1>6. Content' /\ Reading' /\ Refusing'
  BY <1>1, <1>2, <1>3 DEF Content, Reading, Refusing, Created
<1> QED BY <1>4, <1>5, <1>6

\* Every step keeps the invariant.
LEMMA NextInv == Inv /\ [Next]_vars => Inv'
<1> SUFFICES ASSUME Inv, [Next]_vars PROVE Inv'
  OBVIOUS
<1>1. CASE Caller
  BY <1>1, OpenFileInv, ResolveChainInv, NotBegunInv, BeginInv, NextRequestInv, CloseFileInv
  DEF Caller
<1>2. CASE Network
  BY <1>2, NextRequestInv, UploadedInv, RequestFailsInv DEF Network
<1>3. CASE ContextEnds \/ OtherUpload
  BY <1>3, OutsideInv DEF ContextEnds, OtherUpload, Inv, TypeOK
<1>4. CASE UNCHANGED vars
  BY <1>4, OutsideInv DEF vars, outside, Inv, TypeOK
<1> QED BY <1>1, <1>2, <1>3, <1>4 DEF Next, Returned

\* Every reachable state satisfies the invariant.
LEMMA Invariance == Spec => []Inv
<1> QED BY InitInv, NextInv, PTL DEF Spec

-----------------------------------------------------------------------------
\* The state of an upload has its type for fallback lists of any length, and a
\* call that has returned leaves no file open.
THEOREM TypeCorrect == Spec => []TypeOK
<1>1. Inv => TypeOK
  BY DEF Inv
<1> QED BY <1>1, Invariance, PTL

\* However long the fallback list and whatever it repeats, the backends are tried
\* in order and once, and a URL or an error is that of the last one.
THEOREM ChainWalked == Spec => []ChainIsWalked
<1>1. Inv => ChainIsWalked
  <2> SUFFICES ASSUME Inv PROVE ChainIsWalked
    OBVIOUS
  <2> USE DEF Inv
  <2>1. IsPrefix(tried, repos)
    <3>1. CASE AtStart
      BY <3>1, ResolvedType, DedupPrefix DEF AtStart, repos
    <3>2. CASE AtOnly \/ AtSecond
      BY <3>2 DEF AtOnly, AtSecond, IsPrefix
    <3>3. CASE AtFirst
      BY <3>3 DEF AtFirst, IsPrefix
    <3> QED BY <3>1, <3>2, <3>3 DEF Walking
  <2>2. \A i, j \in DOMAIN tried : i # j => tried[i] # tried[j]
    BY DEF Walking, AtStart, AtOnly, AtFirst, AtSecond
  <2>3. ~AtStart => Last(tried) = chain[1]
    BY DEF Walking, AtOnly, AtFirst, AtSecond, Last
  <2>4. tried # <<>> => ~AtStart
    BY DEF AtStart
  <2>5. ~AtStart /\ ~AtFirst => tried = repos
    BY DEF Walking, AtOnly, AtSecond
  <2> QED BY <2>1, <2>2, <2>3, <2>4, <2>5 DEF ChainIsWalked, Walking, repos
<1> QED BY <1>1, Invariance, PTL

\* Of all the backends of a chain at most one reads the file as a whole, which no
\* primary v3 does with a large one; a URL is then that backend's, because no
\* other one finds the content any more.
THEOREM FileReadWholeOnce == Spec => []FileIsReadWholeOnce
<1>1. Inv => FileIsReadWholeOnce
  <2> SUFFICES ASSUME Inv PROVE FileIsReadWholeOnce
    OBVIOUS
  <2>1. Len(readBy) <= 1
    <3>1. readBy = <<>> \/ \E a \in Repositories : readBy = <<a>>
      BY DEF Inv, Reading
    <3>2. CASE readBy = <<>>
      BY <3>2
    <3>3. ASSUME NEW a \in Repositories, readBy = <<a>> PROVE Len(readBy) <= 1
      BY <3>3
    <3> QED BY <3>1, <3>2, <3>3
  <2>2. outcome = "url" => Last(tried) = chain[1]
    <3>1. outcome = "url" => AtOnly \/ AtFirst \/ AtSecond
      BY DEF Inv, Walking
    <3>2. AtOnly \/ AtFirst => Last(tried) = chain[1]
      BY DEF AtOnly, AtFirst, Last
    <3>3. AtSecond => Last(tried) = chain[1]
      BY DEF AtSecond, Last
    <3> QED BY <3>1, <3>2, <3>3
  <2>3. outcome = "url" /\ readBy # <<>> => readBy = <<Last(tried)>>
    BY <2>2 DEF Inv, Reading
  <2>4. allowMultipart /\ big => "v3" \notin ToSet(readBy)
    BY DEF Inv, Reading, ToSet
  <2>5. AtSecond => Len(tried) > 1
    BY DEF AtSecond
  <2> QED BY <2>1, <2>3, <2>4, <2>5 DEF Inv, Content, FileIsReadWholeOnce
<1> QED BY <1>1, Invariance, PTL

\* Every object a chain stores, the unreported ones included, was created with
\* the settings of the call, and settings that cannot be sent store none.
THEOREM NeverWithoutLifecycle == Spec => []NeverStoredWithoutLifecycle
<1>1. Inv => NeverStoredWithoutLifecycle
  BY DEF Inv, Refusing, NeverStoredWithoutLifecycle
<1> QED BY <1>1, Invariance, PTL
=============================================================================

--------------------------- MODULE TokenFileProofs ---------------------------
(***************************************************************************)
(* The login is kept and found, for any number of callers and processes.   *)
(* As long as there has been no mishap at most one caller refreshes: those *)
(* of its process wait for the mutex, and one of another process that were *)
(* to read the file meanwhile would be a mishap.  That caller holds the    *)
(* token Auth0 honours, even while the file does not.                      *)
(***************************************************************************)
EXTENDS TokenFile, TLAPS

USE ProcessOfAssumption, NobodyAssumption

Exclusive ==
  mishaps = {} =>
    \A c, d \in Callers : pc[c] \in Refreshing /\ pc[d] \in Refreshing => c = d

Kept ==
  login /\ mishaps = {} =>
    \A c \in Callers :
      /\ pc[c] \in Refreshing => token[c] = current
      /\ pc[c] = "flight" => file.refresh = current

IInv == TypeOK /\ Exclusive /\ Kept /\ LoginKept /\ LoginFound

States == {"start", "lock", "read", "done"} \cup Refreshing

LEMMA InitInv == Init => IInv
<1> SUFFICES ASSUME Init PROVE IInv
  OBVIOUS
<1>1. file \in [refresh : Nat, access : {"none", "fresh", "stale"}]
      /\ (login => file.refresh = 1)
  BY DEF Init, Empty, None, Tokens
<1>2. TypeOK
  BY <1>1 DEF Init, TypeOK, Refreshing, Results, None
<1>3. Exclusive /\ Kept /\ LoginFound
  BY DEF Init, Exclusive, Kept, LoginFound, Refreshing
<1>4. LoginKept
  BY <1>1 DEF Init, LoginKept
<1>5. QED
  BY <1>2, <1>3, <1>4 DEF IInv

-----------------------------------------------------------------------------
\* One caller moves on and the mutex stays where it is.
LEMMA MovedOn ==
  ASSUME TypeOK, NEW c \in Callers, NEW s \in States, Goto(c, s),
         pc[c] \in Refreshing \cup {"read"} <=> s \in Refreshing \cup {"read"},
         UNCHANGED fileMu
  PROVE  /\ pc' \in [Callers -> States] /\ pc'[c] = s
         /\ \A d \in Callers : d # c => pc'[d] = pc[d]
         /\ fileMu' \in [Processes -> Callers \cup {Nobody}]
         /\ \A d \in Callers : pc'[d] \in Refreshing \cup {"read"} <=>
                                 fileMu'[ProcessOf[d]] = d
BY DEF TypeOK, Goto, States

\* A call returns: the mutex it held is free, any other is where it was.
LEMMA GivenBack ==
  ASSUME TypeOK, NEW c \in Callers, NEW r \in Results, Return(c, r)
  PROVE  /\ pc' \in [Callers -> States] /\ pc'[c] = "done"
         /\ \A d \in Callers : d # c => pc'[d] = pc[d]
         /\ result' \in [Callers -> Results] /\ result'[c] = r
         /\ \A d \in Callers : d # c => result'[d] = result[d]
         /\ fileMu' \in [Processes -> Callers \cup {Nobody}]
         /\ \A d \in Callers : pc'[d] \in Refreshing \cup {"read"} <=>
                                 fileMu'[ProcessOf[d]] = d
<1>1. /\ pc \in [Callers -> States] /\ result \in [Callers -> Results]
      /\ fileMu \in [Processes -> Callers \cup {Nobody}]
      /\ \A d \in Callers : pc[d] \in Refreshing \cup {"read"} <=>
                              fileMu[ProcessOf[d]] = d
  BY DEF TypeOK, States
<1>2. /\ pc' = [pc EXCEPT ![c] = "done"] /\ result' = [result EXCEPT ![c] = r]
      /\ fileMu' = [p \in Processes |-> IF fileMu[p] = c THEN Nobody ELSE fileMu[p]]
  BY DEF Return, Goto, Unlock
<1>3. pc' \in [Callers -> States] /\ pc'[c] = "done"
      /\ \A d \in Callers : d # c => pc'[d] = pc[d]
  BY <1>1, <1>2 DEF States
<1>4. result' \in [Callers -> Results] /\ result'[c] = r
      /\ \A d \in Callers : d # c => result'[d] = result[d]
  BY <1>1, <1>2
<1>5. fileMu' \in [Processes -> Callers \cup {Nobody}]
  BY <1>1, <1>2
<1>6. ASSUME NEW d \in Callers
      PROVE  pc'[d] \in Refreshing \cup {"read"} <=> fileMu'[ProcessOf[d]] = d
  <2>1. ProcessOf[d] \in Processes
    OBVIOUS
  <2>2. CASE d = c
    BY <2>1, <2>2, <1>2, <1>3 DEF Refreshing
  <2>3. CASE d # c
    BY <2>1, <2>3, <1>1, <1>2, <1>3
  <2>4. QED
    BY <2>2, <2>3
<1>7. QED
  BY <1>3, <1>4, <1>5, <1>6

\* Within one process only the holder of the mutex is past Lock.
LEMMA Alone ==
  ASSUME TypeOK, NEW c \in Callers, NEW d \in Callers,
         ProcessOf[c] = ProcessOf[d],
         pc[c] \in Refreshing \cup {"read"}, pc[d] \in Refreshing \cup {"read"}
  PROVE  c = d
BY DEF TypeOK

\* What a caller reads when there has been no mishap, its reading included:
\* nobody refreshes, and the file is as the last refresh left it.
LEMMA QuietRead ==
  ASSUME IInv, NEW c \in Callers, pc[c] = "read",
         Mishap("overlap", OthersRefresh(c)), mishaps' = {}
  PROVE  /\ mishaps = {}
         /\ \A d \in Callers : pc[d] \notin Refreshing
         /\ login => file.refresh = current
<1>1. mishaps = {} /\ ~OthersRefresh(c)
  BY DEF Mishap
<1>2. ASSUME NEW d \in Callers, pc[d] \in Refreshing PROVE FALSE
  <2>1. ProcessOf[d] = ProcessOf[c]
    BY <1>1, <1>2 DEF OthersRefresh
  <2>2. d = c
    BY <2>1, <1>2, Alone DEF IInv
  <2>3. QED
    BY <2>2, <1>2 DEF Refreshing
<1>3. QED
  BY <1>1, <1>2 DEF IInv, LoginKept

-----------------------------------------------------------------------------
(* The steps of one call. *)

LEMMA CheckEnvironmentInv ==
  ASSUME IInv, NEW c \in Callers, CheckEnvironment(c) PROVE IInv'
<1>1. /\ pc[c] = "start"
      /\ Return(c, "env") \/ (Goto(c, "lock") /\ UNCHANGED <<fileMu, result>>)
      /\ UNCHANGED <<system, file, current, token, crashed, mishaps>>
  BY DEF CheckEnvironment
<1>2. TypeOK
  BY DEF IInv
<1>3. /\ pc' \in [Callers -> States] /\ pc'[c] \in {"lock", "done"}
      /\ \A d \in Callers : d # c => pc'[d] = pc[d]
      /\ result' \in [Callers -> Results] /\ result'[c] \in {result[c], "env"}
      /\ \A d \in Callers : d # c => result'[d] = result[d]
      /\ fileMu' \in [Processes -> Callers \cup {Nobody}]
      /\ \A d \in Callers : pc'[d] \in Refreshing \cup {"read"} <=>
                              fileMu'[ProcessOf[d]] = d
  <2>1. CASE Return(c, "env")
    BY <2>1, <1>2, GivenBack DEF Results
  <2>2. CASE Goto(c, "lock") /\ UNCHANGED <<fileMu, result>>
    <3>1. result' \in [Callers -> Results]
      BY <2>2, <1>2 DEF TypeOK
    <3>2. /\ pc' \in [Callers -> States] /\ pc'[c] = "lock"
          /\ \A d \in Callers : d # c => pc'[d] = pc[d]
          /\ fileMu' \in [Processes -> Callers \cup {Nobody}]
          /\ \A d \in Callers : pc'[d] \in Refreshing \cup {"read"} <=>
                                  fileMu'[ProcessOf[d]] = d
      BY <2>2, <1>1, <1>2, MovedOn DEF States, Refreshing
    <3>3. QED
      BY <2>2, <3>1, <3>2
  <2>3. QED
    BY <1>1, <2>1, <2>2
<1>4. TypeOK'
  BY <1>1, <1>3 DEF IInv, TypeOK, States, system
<1>5. \A d \in Callers : pc'[d] \in Refreshing => pc'[d] = pc[d]
  BY <1>3 DEF Refreshing
<1>6. \A d \in Callers : pc[d] \in Refreshing => pc'[d] = pc[d]
  BY <1>1, <1>3 DEF Refreshing
<1>7. Exclusive' /\ Kept' /\ LoginKept'
  <2>1. Exclusive'
    BY <1>1, <1>5 DEF IInv, Exclusive
  <2>2. Kept'
    BY <1>1, <1>5 DEF IInv, Kept, Refreshing, system
  <2>3. LoginKept'
    BY <1>1, <1>5, <1>6 DEF IInv, LoginKept, system
  <2>4. QED
    BY <2>1, <2>2, <2>3
<1>8. LoginFound'
  BY <1>1, <1>3 DEF IInv, LoginFound, system
<1>9. QED
  BY <1>4, <1>7, <1>8 DEF IInv

LEMMA LockInv == ASSUME IInv, NEW c \in Callers, Lock(c) PROVE IInv'
<1>1. /\ pc[c] = "lock" /\ fileMu[ProcessOf[c]] = Nobody
      /\ fileMu' = [fileMu EXCEPT ![ProcessOf[c]] = c]
      /\ Goto(c, "read")
      /\ UNCHANGED <<system, file, current, token, result, crashed, mishaps>>
  BY DEF Lock, lockFree
<1>2. TypeOK /\ ProcessOf[c] \in Processes
  BY DEF IInv
<1>3. /\ pc' \in [Callers -> States] /\ pc'[c] = "read"
      /\ \A d \in Callers : d # c => pc'[d] = pc[d]
  BY <1>1, <1>2 DEF TypeOK, Goto, States
<1>4. /\ fileMu' \in [Processes -> Callers \cup {Nobody}]
      /\ \A d \in Callers : pc'[d] \in Refreshing \cup {"read"} <=>
                              fileMu'[ProcessOf[d]] = d
  <2>1. fileMu' \in [Processes -> Callers \cup {Nobody}]
    BY <1>1, <1>2 DEF TypeOK
  <2>2. ASSUME NEW d \in Callers
        PROVE  pc'[d] \in Refreshing \cup {"read"} <=> fileMu'[ProcessOf[d]] = d
    <3>1. ProcessOf[d] \in Processes /\ (pc[d] \in Refreshing \cup {"read"} <=>
                                           fileMu[ProcessOf[d]] = d)
      BY <1>2 DEF TypeOK
    <3>2. CASE d = c
      BY <3>2, <1>1, <1>2, <1>3 DEF TypeOK
    <3>3. CASE d # c
      BY <3>1, <3>3, <1>1, <1>2, <1>3 DEF TypeOK
    <3>4. QED
      BY <3>2, <3>3
  <2>3. QED
    BY <2>1, <2>2
<1>5. TypeOK'
  BY <1>1, <1>3, <1>4 DEF IInv, TypeOK, States, system
<1>6. Exclusive' /\ Kept' /\ LoginKept'
  BY <1>1, <1>3 DEF IInv, Exclusive, Kept, LoginKept, Refreshing, system
<1>7. LoginFound'
  BY <1>1 DEF IInv, LoginFound, system
<1>8. QED
  BY <1>5, <1>6, <1>7 DEF IInv

LEMMA ReadFileInv == ASSUME IInv, NEW c \in Callers, ReadFile(c) PROVE IInv'
<1>1. /\ pc[c] = "read" /\ Mishap("overlap", OthersRefresh(c))
      /\ UNCHANGED <<system, file, current, crashed>>
  BY DEF ReadFile
<1>2. TypeOK /\ mishaps' \subseteq {"overlap", "lostReply", "failedWrite", "crash"}
      /\ (mishaps' = {} => mishaps = {})
  BY <1>1 DEF IInv, TypeOK, Mishap
<1>3. CASE \E r \in {"missing", "token", "error"} :
             Return(c, r) /\ UNCHANGED token /\ (r = "missing" => file.refresh = None)
  <2>1. PICK r \in {"missing", "token", "error"} :
             Return(c, r) /\ UNCHANGED token /\ (r = "missing" => file.refresh = None)
    BY <1>3
  <2>2. /\ pc' \in [Callers -> States] /\ pc'[c] = "done"
        /\ \A d \in Callers : d # c => pc'[d] = pc[d]
        /\ result' \in [Callers -> Results] /\ result'[c] = r
        /\ \A d \in Callers : d # c => result'[d] = result[d]
        /\ fileMu' \in [Processes -> Callers \cup {Nobody}]
        /\ \A d \in Callers : pc'[d] \in Refreshing \cup {"read"} <=>
                                fileMu'[ProcessOf[d]] = d
    BY <2>1, <1>2, GivenBack DEF Results
  <2>3. TypeOK'
    BY <1>1, <1>2, <2>1, <2>2 DEF TypeOK, States, system
  <2>4. Exclusive' /\ Kept' /\ LoginKept'
    BY <1>1, <1>2, <2>1, <2>2 DEF IInv, Exclusive, Kept, LoginKept, Refreshing, system
  <2>5. LoginFound'
    <3>1. login /\ mishaps' = {} => file.refresh # None
      BY <1>1, <1>2, QuietRead DEF TypeOK, None
    <3>2. QED
      BY <3>1, <1>1, <1>2, <2>1, <2>2 DEF IInv, LoginFound, system
  <2>6. QED
    BY <2>3, <2>4, <2>5 DEF IInv
<1>4. CASE /\ Goto(c, "flight") /\ token' = [token EXCEPT ![c] = file.refresh]
           /\ UNCHANGED <<fileMu, result>>
  <2>1. /\ pc' \in [Callers -> States] /\ pc'[c] = "flight"
        /\ \A d \in Callers : d # c => pc'[d] = pc[d]
        /\ fileMu' \in [Processes -> Callers \cup {Nobody}]
        /\ \A d \in Callers : pc'[d] \in Refreshing \cup {"read"} <=>
                                fileMu'[ProcessOf[d]] = d
    BY <1>1, <1>2, <1>4, MovedOn DEF States, Refreshing
  <2>2. /\ token' \in [Callers -> Nat] /\ token'[c] = file.refresh
        /\ \A d \in Callers : d # c => token'[d] = token[d]
    BY <1>2, <1>4 DEF TypeOK
  <2>3. TypeOK'
    BY <1>1, <1>2, <1>4, <2>1, <2>2 DEF TypeOK, States, system
  <2>4. mishaps' = {} => \A d \in Callers : d # c => pc'[d] \notin Refreshing
    BY <1>1, <2>1, QuietRead
  <2>5. Exclusive'
    BY <2>4 DEF Exclusive
  <2>6. Kept'
    <3> SUFFICES ASSUME login, mishaps' = {}
                 PROVE  \A d \in Callers :
                          /\ pc'[d] \in Refreshing => token'[d] = current
                          /\ pc'[d] = "flight" => file.refresh = current
      BY <1>1 DEF Kept, system
    <3>1. file.refresh = current
      BY <1>1, QuietRead
    <3>2. QED
      BY <3>1, <2>2, <2>4
  <2>7. LoginKept'
    BY <2>1 DEF LoginKept, Refreshing
  <2>8. LoginFound'
    BY <1>1, <1>2, <1>4 DEF IInv, LoginFound, system
  <2>9. QED
    BY <2>3, <2>5, <2>6, <2>7, <2>8 DEF IInv
<1>5. QED
  BY <1>3, <1>4 DEF ReadFile

LEMMA ExchangedInv == ASSUME IInv, NEW c \in Callers, Exchanged(c) PROVE IInv'
<1>1. /\ pc[c] = "flight" /\ token[c] = current /\ Goto(c, "write")
      /\ UNCHANGED <<system, file, fileMu, result, crashed, mishaps>>
  BY DEF Exchanged
<1>2. TypeOK
  BY DEF IInv
<1>3. /\ pc' \in [Callers -> States] /\ pc'[c] = "write"
      /\ \A d \in Callers : d # c => pc'[d] = pc[d]
      /\ fileMu' \in [Processes -> Callers \cup {Nobody}]
      /\ \A d \in Callers : pc'[d] \in Refreshing \cup {"read"} <=>
                              fileMu'[ProcessOf[d]] = d
  BY <1>1, <1>2, MovedOn DEF States, Refreshing
\* Whether it was rotated or kept, the caller holds what Auth0 honours.
<1>4. /\ current' \in Nat \ {0} /\ token' \in [Callers -> Nat]
      /\ token'[c] = current'
  <2>1. current \in Nat \ {0} /\ token \in [Callers -> Nat]
    BY <1>2 DEF TypeOK
  <2>2. PICK named \in {None, current + 1} :
          /\ current' = IF named = None THEN current ELSE named
          /\ token' = [token EXCEPT ![c] = keptRefresh(c, named)]
    BY DEF Exchanged
  <2>3. keptRefresh(c, named) = current' /\ current' \in Nat \ {0}
    BY <2>1, <2>2, <1>1 DEF keptRefresh, None
  <2>4. QED
    BY <2>1, <2>2, <2>3
<1>5. TypeOK'
  BY <1>1, <1>2, <1>3, <1>4 DEF TypeOK, States, system
<1>6. mishaps = {} => \A d \in Callers : d # c => pc'[d] \notin Refreshing
  BY <1>1, <1>3 DEF IInv, Exclusive, Refreshing
<1>7. Exclusive' /\ Kept'
  <2>1. Exclusive'
    BY <1>1, <1>6 DEF Exclusive
  <2>2. Kept'
    BY <1>1, <1>3, <1>4, <1>6 DEF Kept, Refreshing, system
  <2>3. QED
    BY <2>1, <2>2
<1>8. LoginKept' /\ LoginFound'
  BY <1>1, <1>3 DEF IInv, LoginKept, LoginFound, Refreshing, system
<1>9. QED
  BY <1>5, <1>7, <1>8 DEF IInv

-----------------------------------------------------------------------------
\* A call that returns after the exchange: what it leaves must be the login.
LEMMA ReturnInv ==
  ASSUME IInv, NEW c \in Callers, NEW r \in Results, Return(c, r),
         pc[c] \in Refreshing,
         UNCHANGED <<system, token, crashed>>,
         file' \in [refresh : Nat, access : {"none", "fresh", "stale"}],
         current' \in Nat \ {0},
         mishaps' \subseteq {"overlap", "lostReply", "failedWrite", "crash"},
         mishaps' = {} => mishaps = {},
         login /\ mishaps' = {} => file'.refresh = current',
         login /\ mishaps' = {} => r \notin {"missing", "refused"}
  PROVE  IInv'
<1>1. TypeOK /\ UNCHANGED <<login, env, token, crashed>>
  BY DEF IInv, system
<1>2. /\ pc' \in [Callers -> States] /\ pc'[c] = "done"
      /\ \A d \in Callers : d # c => pc'[d] = pc[d]
      /\ result' \in [Callers -> Results] /\ result'[c] = r
      /\ \A d \in Callers : d # c => result'[d] = result[d]
      /\ fileMu' \in [Processes -> Callers \cup {Nobody}]
      /\ \A d \in Callers : pc'[d] \in Refreshing \cup {"read"} <=>
                              fileMu'[ProcessOf[d]] = d
  BY <1>1, GivenBack
<1>3. TypeOK'
  BY <1>1, <1>2 DEF TypeOK, States
<1>4. mishaps' = {} => \A d \in Callers : pc'[d] \notin Refreshing
  BY <1>2 DEF IInv, Exclusive, Refreshing
<1>5. Exclusive'
  BY <1>4 DEF Exclusive
<1>6. Kept'
  BY <1>4 DEF Kept, Refreshing
<1>7. LoginKept'
  BY <1>1 DEF LoginKept
<1>8. LoginFound'
  BY <1>1, <1>2 DEF IInv, LoginFound
<1>9. QED
  BY <1>3, <1>5, <1>6, <1>7, <1>8 DEF IInv

LEMMA RefusedInv == ASSUME IInv, NEW c \in Callers, Refused(c) PROVE IInv'
<1>1. /\ pc[c] = "flight" /\ token[c] # current /\ Return(c, "refused")
      /\ UNCHANGED <<system, file, current, token, crashed, mishaps>>
  BY DEF Refused
\* A caller holds a token Auth0 does not honour only after a mishap.
<1>2. ~(login /\ mishaps = {})
  BY <1>1 DEF IInv, Kept, Refreshing
<1>3. /\ file' \in [refresh : Nat, access : {"none", "fresh", "stale"}]
      /\ current' \in Nat \ {0}
      /\ mishaps' \subseteq {"overlap", "lostReply", "failedWrite", "crash"}
  BY <1>1 DEF IInv, TypeOK
<1>4. pc[c] \in Refreshing /\ "refused" \in Results
  BY <1>1 DEF Refreshing, Results
<1>5. QED
  BY <1>1, <1>2, <1>3, <1>4, ReturnInv

LEMMA ExchangeLostInv ==
  ASSUME IInv, NEW c \in Callers, ExchangeLost(c) PROVE IInv'
<1>1. /\ pc[c] = "flight" /\ Return(c, "error")
      /\ UNCHANGED <<system, file, token, crashed>>
  BY DEF ExchangeLost
<1>2. /\ current' \in Nat \ {0}
      /\ mishaps' \subseteq {"overlap", "lostReply", "failedWrite", "crash"}
      /\ mishaps' = {} => mishaps = {} /\ current' = current
  <2>1. current \in Nat \ {0}
        /\ mishaps \subseteq {"overlap", "lostReply", "failedWrite", "crash"}
    BY DEF IInv, TypeOK
  <2>2. CASE current' = current /\ mishaps' = mishaps
    BY <2>1, <2>2
  <2>3. CASE current' = current + 1 /\ Mishap("lostReply", TRUE)
    <3>1. mishaps' = mishaps \cup {"lostReply"}
      BY <2>3 DEF Mishap
    <3>2. QED
      BY <2>1, <2>3, <3>1
  <2>4. QED
    BY <2>2, <2>3 DEF ExchangeLost
<1>3. file' \in [refresh : Nat, access : {"none", "fresh", "stale"}]
  BY <1>1 DEF IInv, TypeOK
<1>4. login /\ mishaps' = {} => file'.refresh = current'
  BY <1>1, <1>2 DEF IInv, Kept
<1>5. /\ pc[c] \in Refreshing
      /\ "error" \in Results /\ "error" \notin {"missing", "refused"}
  BY <1>1 DEF Refreshing, Results
<1>6. QED
  BY <1>1, <1>2, <1>3, <1>4, <1>5, ReturnInv

LEMMA TruncateInv == ASSUME IInv, NEW c \in Callers, Truncate(c) PROVE IInv'
<1>1. /\ pc[c] = "write" /\ file' = Empty /\ Goto(c, "writing")
      /\ UNCHANGED <<system, current, fileMu, token, result, crashed, mishaps>>
  BY DEF Truncate
<1>2. TypeOK /\ file' \in [refresh : Nat, access : {"none", "fresh", "stale"}]
  BY <1>1 DEF IInv, Empty, None
<1>3. /\ pc' \in [Callers -> States] /\ pc'[c] = "writing"
      /\ \A d \in Callers : d # c => pc'[d] = pc[d]
      /\ fileMu' \in [Processes -> Callers \cup {Nobody}]
      /\ \A d \in Callers : pc'[d] \in Refreshing \cup {"read"} <=>
                              fileMu'[ProcessOf[d]] = d
  BY <1>1, <1>2, MovedOn DEF States, Refreshing
<1>4. TypeOK'
  BY <1>1, <1>2, <1>3 DEF TypeOK, States, system
<1>5. mishaps = {} => \A d \in Callers : d # c => pc'[d] \notin Refreshing
  BY <1>1, <1>3 DEF IInv, Exclusive, Refreshing
<1>6. Exclusive'
  BY <1>1, <1>5 DEF Exclusive
<1>7. Kept'
  BY <1>1, <1>3, <1>5 DEF IInv, Kept, Refreshing, system
<1>8. LoginKept' /\ LoginFound'
  BY <1>1, <1>3 DEF IInv, LoginKept, LoginFound, Refreshing, system
<1>9. QED
  BY <1>4, <1>6, <1>7, <1>8 DEF IInv

LEMMA WriteFileInv == ASSUME IInv, NEW c \in Callers, WriteFile(c) PROVE IInv'
<1>1. /\ pc[c] = "writing" /\ Return(c, "token")
      /\ file' = [refresh |-> token[c], access |-> "fresh"]
      /\ UNCHANGED <<system, current, token, crashed, mishaps>>
  BY DEF WriteFile, Tokens
<1>2. /\ file' \in [refresh : Nat, access : {"none", "fresh", "stale"}]
      /\ current' \in Nat \ {0}
      /\ mishaps' \subseteq {"overlap", "lostReply", "failedWrite", "crash"}
  BY <1>1 DEF IInv, TypeOK
<1>3. login /\ mishaps' = {} => file'.refresh = current'
  BY <1>1 DEF IInv, Kept, Refreshing
<1>4. /\ pc[c] \in Refreshing
      /\ "token" \in Results /\ "token" \notin {"missing", "refused"}
  BY <1>1 DEF Refreshing, Results
<1>5. QED
  BY <1>1, <1>2, <1>3, <1>4, ReturnInv

LEMMA WriteFailsInv == ASSUME IInv, NEW c \in Callers, WriteFails(c) PROVE IInv'
<1>1. /\ pc[c] \in Refreshing /\ Return(c, "error")
      /\ UNCHANGED <<system, file, current, token, crashed>>
  BY DEF WriteFails, Refreshing
<1>2. /\ mishaps' \subseteq {"overlap", "lostReply", "failedWrite", "crash"}
      /\ mishaps' = {} => mishaps = {} /\ file.refresh = token[c]
  BY DEF WriteFails, Mishap, IInv, TypeOK
<1>3. /\ file' \in [refresh : Nat, access : {"none", "fresh", "stale"}]
      /\ current' \in Nat \ {0}
  BY <1>1 DEF IInv, TypeOK
<1>4. login /\ mishaps' = {} => file'.refresh = current'
  BY <1>1, <1>2 DEF IInv, Kept
<1>5. "error" \in Results /\ "error" \notin {"missing", "refused"}
  BY DEF Results
<1>6. QED
  BY <1>1, <1>2, <1>3, <1>4, <1>5, ReturnInv

-----------------------------------------------------------------------------
(* The steps that are no call's. *)

LEMMA AccessExpiresInv == ASSUME IInv, AccessExpires PROVE IInv'
<1>1. /\ file' = [file EXCEPT !.access = "stale"]
      /\ UNCHANGED <<system, current, fileMu, pc, token, result, crashed, mishaps>>
  BY DEF AccessExpires
<1>2. /\ file' \in [refresh : Nat, access : {"none", "fresh", "stale"}]
      /\ file'.refresh = file.refresh
  BY <1>1 DEF IInv, TypeOK
<1>3. TypeOK'
  BY <1>1, <1>2 DEF IInv, TypeOK, system
<1>4. Exclusive' /\ LoginFound'
  BY <1>1 DEF IInv, Exclusive, LoginFound, system
<1>5. Kept' /\ LoginKept'
  BY <1>1, <1>2 DEF IInv, Kept, LoginKept, system
<1>6. QED
  BY <1>3, <1>4, <1>5 DEF IInv

LEMMA CrashInv == ASSUME IInv, NEW p \in Processes, Crash(p) PROVE IInv'
<1> DEFINE hit == {c \in Callers : ProcessOf[c] = p /\ pc[c] # "done"}
<1>1. /\ crashed' = crashed \cup {p}
      /\ Mishap("crash", \E c \in hit : pc[c] \in Refreshing)
      /\ current' \in {current} \cup
           {current + 1 : c \in {d \in hit : pc[d] = "flight" /\ token[d] = current}}
      /\ fileMu' = [fileMu EXCEPT ![p] = Nobody]
      /\ pc' = [c \in Callers |-> IF c \in hit THEN "start" ELSE pc[c]]
      /\ token' = [c \in Callers |-> IF c \in hit THEN None ELSE token[c]]
      /\ UNCHANGED <<system, file, result>>
  BY DEF Crash
<1>2. TypeOK
  BY DEF IInv
<1> HIDE DEF hit
<1>3. /\ pc' \in [Callers -> States] /\ token' \in [Callers -> Nat]
      /\ \A d \in Callers : pc'[d] = IF d \in hit THEN "start" ELSE pc[d]
      /\ \A d \in Callers : d \notin hit => token'[d] = token[d]
  BY <1>1, <1>2 DEF TypeOK, States, None
<1>4. ASSUME NEW d \in Callers
      PROVE  pc'[d] \in Refreshing \cup {"read"} <=> fileMu'[ProcessOf[d]] = d
  <2>1. /\ ProcessOf[d] \in Processes
        /\ pc[d] \in Refreshing \cup {"read"} <=> fileMu[ProcessOf[d]] = d
    BY <1>2 DEF TypeOK
  <2>2. CASE ProcessOf[d] = p
    <3>1. pc'[d] \in {"start", "done"}
      BY <2>2, <1>3 DEF hit
    <3>2. fileMu'[ProcessOf[d]] # d
      BY <2>2, <1>1, <1>2 DEF TypeOK
    <3>3. QED
      BY <3>1, <3>2 DEF Refreshing
  <2>3. CASE ProcessOf[d] # p
    <3>1. pc'[d] = pc[d]
      BY <2>3, <1>3 DEF hit
    <3>2. fileMu'[ProcessOf[d]] = fileMu[ProcessOf[d]]
      BY <2>1, <2>3, <1>1, <1>2 DEF TypeOK
    <3>3. QED
      BY <2>1, <3>1, <3>2
  <2>4. QED
    BY <2>2, <2>3
<1>5. /\ mishaps' \subseteq {"overlap", "lostReply", "failedWrite", "crash"}
      /\ mishaps' = {} => mishaps = {} /\ \A d \in hit : pc[d] \notin Refreshing
  BY <1>1, <1>2 DEF Mishap, TypeOK
<1>6. current' \in Nat \ {0}
  BY <1>1, <1>2 DEF TypeOK
<1>7. mishaps' = {} => current' = current
  BY <1>1, <1>5 DEF Refreshing
<1>8. TypeOK'
  <2>1. fileMu' \in [Processes -> Callers \cup {Nobody}]
    BY <1>1, <1>2 DEF TypeOK
  <2>2. QED
    BY <1>1, <1>2, <1>3, <1>4, <1>5, <1>6, <2>1 DEF TypeOK, States, system
\* Without a mishap the process was not refreshing, and nothing is lost.
<1>9. \A d \in Callers : pc'[d] \in Refreshing => d \notin hit /\ pc'[d] = pc[d]
  BY <1>3 DEF Refreshing
<1>10. Exclusive'
  BY <1>5, <1>9 DEF IInv, Exclusive
<1>11. Kept'
  BY <1>1, <1>3, <1>5, <1>7, <1>9 DEF IInv, Kept, Refreshing, system
<1>12. LoginKept'
  BY <1>1, <1>3, <1>5, <1>7 DEF IInv, LoginKept, system
<1>13. LoginFound'
  BY <1>1, <1>5 DEF IInv, LoginFound, system
<1>14. QED
  BY <1>8, <1>10, <1>11, <1>12, <1>13 DEF IInv

LEMMA StutterInv == ASSUME IInv, UNCHANGED vars PROVE IInv'
BY DEF IInv, TypeOK, Exclusive, Kept, LoginKept, LoginFound, vars, system

LEMMA StepInv == IInv /\ [Next]_vars => IInv'
<1> SUFFICES ASSUME IInv, [Next]_vars PROVE IInv'
  OBVIOUS
<1>1. ASSUME NEW c \in Callers, Call(c) PROVE IInv'
  BY <1>1, CheckEnvironmentInv, LockInv, ReadFileInv, ExchangedInv, RefusedInv,
     ExchangeLostInv, TruncateInv, WriteFileInv, WriteFailsInv DEF Call
<1>2. ASSUME NEW p \in Processes, Crash(p) PROVE IInv'
  BY <1>2, CrashInv
<1>3. CASE AccessExpires
  BY <1>3, AccessExpiresInv
<1>4. CASE Returned \/ UNCHANGED vars
  BY <1>4, StutterInv DEF Returned
<1>5. QED
  BY <1>1, <1>2, <1>3, <1>4 DEF Next

LEMMA Inductive == Spec => []IInv
BY InitInv, StepInv, PTL DEF Spec

-----------------------------------------------------------------------------
\* The type invariant, which says that the mutex of a process is held by the
\* one caller that is between the reading of the file and its return.
THEOREM TypeCorrect == Spec => []TypeOK
<1>1. IInv => TypeOK
  BY DEF IInv
<1>2. QED
  BY Inductive, <1>1, PTL

\* loadBearerToken never loses the login by itself: the token file holds the
\* refresh token Auth0 honours whenever no refresh is under way.
THEOREM LoginIsKept == Spec => []LoginKept
<1>1. IInv => LoginKept
  BY DEF IInv
<1>2. QED
  BY Inductive, <1>1, PTL

\* Nor does a caller miss a login that is there: fileMu keeps the callers of a
\* process from a file that is being rewritten.
THEOREM LoginIsFound == Spec => []LoginFound
<1>1. IInv => LoginFound
  BY DEF IInv
<1>2. QED
  BY Inductive, <1>1, PTL

-----------------------------------------------------------------------------
(* A refresh is shared by the callers of a process. *)

\* No two callers refresh at once, and the one that does has found no fresh
\* token, unless a second process has read the file in between.
AloneInFlight ==
  "overlap" \notin mishaps =>
    /\ \A c, d \in Callers : pc[c] \in Refreshing /\ pc[d] \in Refreshing => c = d
    /\ \A c \in Callers : pc[c] = "flight" => file.access # "fresh"

\* A step by which nobody begins to refresh, and which stores no fresh token.
LEMMA NothingStored ==
  ASSUME AloneInFlight,
         "overlap" \notin mishaps' => "overlap" \notin mishaps,
         \A d \in Callers : pc'[d] \in Refreshing => pc[d] \in Refreshing,
         \A d \in Callers : pc'[d] = "flight" => pc[d] = "flight",
         file'.access = "fresh" => file.access = "fresh"
  PROVE  AloneInFlight'
BY DEF AloneInFlight

LEMMA AloneInFlightStep == ASSUME TypeOK, AloneInFlight, [Next]_vars PROVE AloneInFlight'
<1> USE DEF Refreshing
<1>1. ASSUME NEW c \in Callers, ReadFile(c) PROVE AloneInFlight'
  <2>1. pc[c] = "read" /\ UNCHANGED file
        /\ Mishap("overlap", OthersRefresh(c))
    BY <1>1 DEF ReadFile
  <2>2. \A d \in Callers : d # c => pc'[d] = pc[d]
    BY <1>1 DEF ReadFile, Return, Goto, TypeOK
  <2>3. CASE pc'[c] = "done"
    BY <2>1, <2>2, <2>3, NothingStored DEF Mishap
  <2>4. CASE pc'[c] # "done"
    <3>1. pc'[c] = "flight" /\ file.access # "fresh"
      BY <1>1, <2>4 DEF ReadFile, Return, Goto, TypeOK, accessTokenUsable
    <3>2. SUFFICES ASSUME "overlap" \notin mishaps' PROVE AloneInFlight'
      BY DEF AloneInFlight
    <3>3. "overlap" \notin mishaps /\ ~OthersRefresh(c)
      BY <2>1, <3>2 DEF Mishap
    <3>4. ASSUME NEW d \in Callers, d # c PROVE pc'[d] \notin Refreshing
      <4>1. CASE ProcessOf[d] = ProcessOf[c]
        BY <2>1, <2>2, <3>4, <4>1, Alone
      <4>2. CASE ProcessOf[d] # ProcessOf[c]
        BY <2>2, <3>3, <3>4, <4>2 DEF OthersRefresh
      <4> QED BY <4>1, <4>2
    <3> QED BY <2>1, <3>1, <3>4 DEF AloneInFlight
  <2> QED BY <2>3, <2>4
<1>2. ASSUME NEW c \in Callers, WriteFile(c) PROVE AloneInFlight'
  <2>1. pc[c] = "writing" /\ pc'[c] = "done" /\ UNCHANGED mishaps
        /\ \A d \in Callers : d # c => pc'[d] = pc[d]
    BY <1>2 DEF WriteFile, Return, Goto, TypeOK
  <2> QED BY <2>1 DEF AloneInFlight
<1>3. ASSUME NEW c \in Callers,
             CheckEnvironment(c) \/ Lock(c) \/ Exchanged(c) \/ Refused(c) \/ ExchangeLost(c)
               \/ Truncate(c) \/ WriteFails(c)
      PROVE  AloneInFlight'
  <2>1. /\ \A d \in Callers : d # c => pc'[d] = pc[d]
        /\ pc'[c] \in Refreshing => pc[c] \in Refreshing
        /\ pc'[c] # "flight"
    <3>1. PICK s \in States \ {"flight"} : /\ pc' = [pc EXCEPT ![c] = s]
                                           /\ s \in Refreshing => pc[c] \in Refreshing
      BY <1>3 DEF CheckEnvironment, Lock, Exchanged, Refused, ExchangeLost, Truncate,
         WriteFails, Return, Goto, States
    <3> QED BY <3>1 DEF TypeOK, States
  <2>2. file' = file \/ file' = Empty
    BY <1>3 DEF CheckEnvironment, Lock, Exchanged, Refused, ExchangeLost, Truncate,
       WriteFails
  <2>3. "overlap" \notin mishaps' => "overlap" \notin mishaps
    BY <1>3 DEF CheckEnvironment, Lock, Exchanged, Refused, ExchangeLost, Truncate,
       WriteFails, Mishap
  <2> QED BY <2>1, <2>2, <2>3, NothingStored DEF Empty
<1>4. ASSUME NEW p \in Processes, Crash(p) PROVE AloneInFlight'
  <2>1. \A d \in Callers : pc'[d] = "start" \/ pc'[d] = pc[d]
    BY <1>4 DEF Crash
  <2> QED BY <1>4, <2>1, NothingStored DEF Crash, Mishap
<1>5. CASE AccessExpires
  BY <1>5, NothingStored DEF AccessExpires, TypeOK
<1>6. CASE Returned \/ UNCHANGED vars
  BY <1>6, NothingStored DEF Returned, vars
<1> QED BY <1>1, <1>2, <1>3, <1>4, <1>5, <1>6 DEF Next, Call

\* loadBearerToken looks at the file again once it has the mutex: no caller asks
\* Auth0 for a token while the file holds a fresh one which another caller of
\* its process has stored.
THEOREM RefreshIsShared == Spec => RefreshShared
<1>1. Init => AloneInFlight
  BY DEF Init, AloneInFlight, Refreshing
<1>2. TypeOK /\ AloneInFlight /\ [Next]_vars => AloneInFlight'
  BY AloneInFlightStep
<1>3. AloneInFlight =>
        [\A c \in Callers :
           pc[c] = "flight" /\ pc'[c] # "flight" /\ "overlap" \notin mishaps =>
             file.access # "fresh"]_vars
  BY DEF AloneInFlight
<1>4. QED
  BY TypeCorrect, <1>1, <1>2, <1>3, PTL DEF Spec, RefreshShared
=============================================================================

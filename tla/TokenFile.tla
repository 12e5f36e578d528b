------------------------------ MODULE TokenFile ------------------------------
(***************************************************************************)
(* Credentials of the default provider (auth.go): the environment, then    *)
(* the token file of the fal CLI, whose access token is refreshed at Auth0 *)
(* when it is close to expiry.  Callers of one process share a mutex; the  *)
(* file is also shared with other processes, which do not.                 *)
(*                                                                         *)
(* A refresh token is a number: Auth0 honours the one it issued last.  It  *)
(* may rotate it in an exchange, or keep it and name none.  Of an access   *)
(* token only its freshness is kept.  A process may crash and start its    *)
(* calls again, once.                                                      *)
(***************************************************************************)
EXTENDS Naturals

CONSTANTS
  Callers,      \* goroutines calling Credentials
  Processes,
  ProcessOf     \* ProcessOf[c]: the process of caller c

ASSUME ProcessOfAssumption == ProcessOf \in [Callers -> Processes]

Nobody == "nobody"
ASSUME NobodyAssumption == Nobody \notin Callers

VARIABLES
  login,     \* the CLI has logged in: the file existed from the start
  env,       \* env[p]: a key in the environment of process p
  file,      \* the token file: its refresh token (0: none) and access token
  current,   \* the refresh token Auth0 honours
  fileMu,    \* fileMu[p]: the caller that holds the mutex
  pc,        \* pc[c]
  token,     \* token[c]: the refresh token c has read or been given
  result,    \* result[c]: what the call has returned
  crashed,   \* the processes that have crashed
  mishaps    \* history: what happened that no mutex of a process prevents

system == <<login, env>>
vars == <<system, file, current, fileMu, pc, token, result, crashed, mishaps>>

None == 0
Empty == [refresh |-> None, access |-> "none"]
Tokens(refresh, access) == [refresh |-> refresh, access |-> access]

\* Between the reading of the file and its rewriting.
Refreshing == {"flight", "write", "writing"}
Results == {"none", "env", "token", "missing", "refused", "error"}

Init ==
  /\ login \in BOOLEAN
  /\ env \in [Processes -> BOOLEAN]
  /\ file \in IF login THEN {Tokens(1, a) : a \in {"none", "fresh", "stale"}}
                       ELSE {Empty}
  /\ current = 1
  /\ fileMu = [p \in Processes |-> Nobody]
  /\ pc = [c \in Callers |-> "start"]
  /\ token = [c \in Callers |-> None]
  /\ result = [c \in Callers |-> "none"]
  /\ crashed = {} /\ mishaps = {}

Goto(c, state) == pc' = [pc EXCEPT ![c] = state]

\* A call returns and, where it holds it, gives the mutex back.
Unlock(c) ==
  fileMu' = [p \in Processes |-> IF fileMu[p] = c THEN Nobody ELSE fileMu[p]]
Return(c, r) ==
  Goto(c, "done") /\ result' = [result EXCEPT ![c] = r] /\ Unlock(c)

-----------------------------------------------------------------------------
\* cachedEnv or resolveEnvCredentials.
CheckEnvironment(c) ==
  /\ pc[c] = "start"
  /\ IF env[ProcessOf[c]] THEN Return(c, "env")
                          ELSE Goto(c, "lock") /\ UNCHANGED <<fileMu, result>>
  /\ UNCHANGED <<system, file, current, token, crashed, mishaps>>

lockFree_PerCall(p) == TRUE
lockFree(p) == fileMu[p] = Nobody

Lock(c) ==
  LET p == ProcessOf[c] IN
  /\ pc[c] = "lock" /\ lockFree(p)
  /\ fileMu' = [fileMu EXCEPT ![p] = c]
  /\ Goto(c, "read")
  /\ UNCHANGED <<system, file, current, token, result, crashed, mishaps>>

\* Another process may be about to rewrite the file, or be doing so.
OthersRefresh(c) ==
  \E d \in Callers : ProcessOf[d] # ProcessOf[c] /\ pc[d] \in Refreshing
Mishap(m, happens) == mishaps' = IF happens THEN mishaps \cup {m} ELSE mishaps

accessTokenUsable_NeverCached(access) == FALSE
\* accessToken # "" && !accessTokenExpired(accessToken): the expiry leeway
\* counts as expired.
accessTokenUsable(access) == access = "fresh"

ReadFile_KeepsLock(c) ==
  /\ pc[c] = "read"
  /\ Mishap("overlap", OthersRefresh(c))
  /\ \/ /\ file.refresh = None
        /\ Goto(c, "done") /\ result' = [result EXCEPT ![c] = "missing"]
        /\ UNCHANGED <<fileMu, token>>
     \/ /\ file.refresh # None
        /\ Goto(c, "flight") /\ token' = [token EXCEPT ![c] = file.refresh]
        /\ UNCHANGED <<fileMu, result>>
  /\ UNCHANGED <<system, file, current, crashed>>

\* readTokenFile and what follows from it; or the file cannot be read.
ReadFile(c) ==
  /\ pc[c] = "read"
  /\ Mishap("overlap", OthersRefresh(c))
  /\ \/ /\ file.refresh = None
        /\ Return(c, "missing") /\ UNCHANGED token
     \/ /\ file.refresh # None /\ accessTokenUsable(file.access)
        /\ Return(c, "token") /\ UNCHANGED token
     \/ /\ file.refresh # None /\ ~accessTokenUsable(file.access)
        /\ Goto(c, "flight") /\ token' = [token EXCEPT ![c] = file.refresh]
        /\ UNCHANGED <<fileMu, result>>
     \/ Return(c, "error") /\ UNCHANGED token
  /\ UNCHANGED <<system, file, current, crashed>>

-----------------------------------------------------------------------------
(* refreshAccessToken: one request, never repeated. *)

keptRefresh_NamedOnly(c, named) == named
\* An answer that names no refresh token leaves the old one in use.
keptRefresh(c, named) == IF named = None THEN token[c] ELSE named

\* Auth0 exchanges the token it honours, and keeps or rotates it (external).
Exchanged(c) ==
  /\ pc[c] = "flight" /\ token[c] = current
  /\ \E named \in {None, current + 1} :
       /\ current' = IF named = None THEN current ELSE named
       /\ token' = [token EXCEPT ![c] = keptRefresh(c, named)]
  /\ Goto(c, "write")
  /\ UNCHANGED <<system, file, fileMu, result, crashed, mishaps>>

\* Auth0 does not honour the token any more: "log in again".
Refused(c) ==
  /\ pc[c] = "flight" /\ token[c] # current
  /\ Return(c, "refused")
  /\ UNCHANGED <<system, file, current, token, crashed, mishaps>>

\* An error status, no answer within thirty seconds, or the context ends; Auth0
\* may have rotated the token all the same.
ExchangeLost(c) ==
  /\ pc[c] = "flight"
  /\ \/ UNCHANGED <<current, mishaps>>
     \/ token[c] = current /\ current' = current + 1 /\ Mishap("lostReply", TRUE)
  /\ Return(c, "error")
  /\ UNCHANGED <<system, file, token, crashed>>

-----------------------------------------------------------------------------
(* writeTokenFile: os.WriteFile truncates the file, then writes it. *)

Truncate(c) ==
  /\ pc[c] = "write"
  /\ file' = Empty
  /\ Goto(c, "writing")
  /\ UNCHANGED <<system, current, fileMu, token, result, crashed, mishaps>>

WriteFile(c) ==
  /\ pc[c] = "writing"
  /\ file' = Tokens(token[c], "fresh")
  /\ Return(c, "token")
  /\ UNCHANGED <<system, current, token, crashed, mishaps>>

\* The directory, the file, or the space for it cannot be had.
WriteFails(c) ==
  /\ pc[c] \in {"write", "writing"}
  /\ Mishap("failedWrite", file.refresh # token[c])
  /\ Return(c, "error")
  /\ UNCHANGED <<system, file, current, token, crashed>>

-----------------------------------------------------------------------------
\* Time passes: the access token comes within its expiry leeway.
AccessExpires ==
  /\ file.access = "fresh"
  /\ file' = [file EXCEPT !.access = "stale"]
  /\ UNCHANGED <<system, current, fileMu, pc, token, result, crashed, mishaps>>

\* A process dies and comes back with its calls still to make.  An exchange in
\* flight may yet be carried out.
Crash(p) ==
  LET hit == {c \in Callers : ProcessOf[c] = p /\ pc[c] # "done"} IN
  /\ p \notin crashed /\ hit # {}
  /\ crashed' = crashed \cup {p}
  /\ Mishap("crash", \E c \in hit : pc[c] \in Refreshing)
  /\ current' \in {current} \cup
       {current + 1 : c \in {d \in hit : pc[d] = "flight" /\ token[d] = current}}
  /\ fileMu' = [fileMu EXCEPT ![p] = Nobody]
  /\ pc' = [c \in Callers |-> IF c \in hit THEN "start" ELSE pc[c]]
  /\ token' = [c \in Callers |-> IF c \in hit THEN None ELSE token[c]]
  /\ UNCHANGED <<system, file, result>>

Returned == (\A c \in Callers : pc[c] = "done") /\ UNCHANGED vars

Call(c) ==
  \/ CheckEnvironment(c) \/ Lock(c) \/ ReadFile(c)
  \/ Exchanged(c) \/ Refused(c) \/ ExchangeLost(c)
  \/ Truncate(c) \/ WriteFile(c) \/ WriteFails(c)

Next == \/ \E c \in Callers : Call(c)
        \/ \E p \in Processes : Crash(p)
        \/ AccessExpires \/ Returned

\* Every goroutine runs, and an exchange is over after auth0RefreshTimeout; a
\* mutex is handed on to a waiting goroutine.
Fairness == \A c \in Callers : WF_vars(Call(c))

Spec == Init /\ [][Next]_vars /\ Fairness

-----------------------------------------------------------------------------
(* Properties. *)

\* The type invariant.  The mutex is held by a caller of its process, from the
\* reading of the file to the return.
TypeOK ==
  /\ login \in BOOLEAN /\ env \in [Processes -> BOOLEAN]
  /\ file \in [refresh : Nat, access : {"none", "fresh", "stale"}]
  /\ current \in Nat \ {0}
  /\ pc \in [Callers -> {"start", "lock", "read", "done"} \cup Refreshing]
  /\ fileMu \in [Processes -> Callers \cup {Nobody}]
  /\ \A c \in Callers : pc[c] \in Refreshing \cup {"read"} <=>
                          fileMu[ProcessOf[c]] = c
  /\ token \in [Callers -> Nat] /\ result \in [Callers -> Results]
  /\ crashed \subseteq Processes
  /\ mishaps \subseteq {"overlap", "lostReply", "failedWrite", "crash"}

\* The login is kept: whenever no refresh is under way the file holds the
\* refresh token Auth0 honours, through any number of rotations, as long as no
\* answer was lost, no write failed, no process crashed in a refresh and no two
\* processes refreshed at once.
LoginKept ==
  login /\ mishaps = {} /\ (\A c \in Callers : pc[c] \notin Refreshing) =>
    file.refresh = current

\* A user who has logged in is told that credentials are missing, or to log in
\* again, only after such a mishap: the callers of one process never see a file
\* that another of them is rewriting, nor use a token that another has rotated.
LoginFound ==
  \A c \in Callers : login /\ result[c] \in {"missing", "refused"} => mishaps # {}

\* Callers of one process share a refresh: none asks Auth0 for a new token while
\* the file holds a fresh one that another of them has stored.
RefreshShared ==
  [][\A c \in Callers :
       pc[c] = "flight" /\ pc'[c] # "flight" /\ "overlap" \notin mishaps =>
         file.access # "fresh"]_vars

\* Every call returns, whatever the others and Auth0 do.
CallReturns == \A c \in Callers : <>(pc[c] = "done")
=============================================================================

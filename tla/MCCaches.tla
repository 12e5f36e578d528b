------------------------------- MODULE MCCaches -------------------------------
(***************************************************************************)
(* The two caches that goroutines share under a mutex held while they are  *)
(* filled, for TLC.  They live in different programs, the library and the  *)
(* web demo, and have no state in common, so that what either may do does  *)
(* not depend on the other: a behaviour here is one of the token cache     *)
(* while the demo has not begun, or one of the demo while no upload has.   *)
(***************************************************************************)
EXTENDS TokenCache, WebDemo

VARIABLE
  program  \* the one that runs

cachesVars == <<program, vars, demoVars>>

CachesInit == program \in {"library", "demo"} /\ Init /\ DemoInit

Library == program = "library" /\ Next /\ UNCHANGED <<program, demoVars>>
Demo == program = "demo" /\ DemoNext /\ UNCHANGED <<program, vars>>

\* The fairness of the library: where no upload has begun it asks for nothing.
CachesSpec == CachesInit /\ [][Library \/ Demo]_cachesVars /\ Fairness
=============================================================================

---------------------------- MODULE AtomicUpload ----------------------------
(***************************************************************************)
(* What an upload promises its caller: the object is stored whole or not   *)
(* at all, a URL is returned only for a stored object, and a call returns  *)
(* once.  An object may be stored although the call fails: its last answer *)
(* can be lost.                                                            *)
(***************************************************************************)
VARIABLES
  object,   \* "absent" or "whole", at the storage service
  outcome   \* "running", "url" or "error", at the caller

vars == <<object, outcome>>

Init == object = "absent" /\ outcome = "running"

Store ==
  /\ outcome = "running" /\ object = "absent"
  /\ object' = "whole"
  /\ UNCHANGED outcome

ReturnURL ==
  /\ outcome = "running" /\ object = "whole"
  /\ outcome' = "url"
  /\ UNCHANGED object

\* The last request may store the object and report its success at once.
StoreAndReturn ==
  /\ outcome = "running"
  /\ object' = "whole" /\ outcome' = "url"

ReturnError ==
  /\ outcome = "running"
  /\ outcome' = "error"
  /\ object' \in {object, "whole"}

Next == Store \/ ReturnURL \/ StoreAndReturn \/ ReturnError

Spec == Init /\ [][Next]_vars

-----------------------------------------------------------------------------
(* What follows for the caller, of every upload that implements this one. *)

\* A URL is one of a whole object.
UrlOfWhole == object \in {"absent", "whole"} /\ (outcome = "url" => object = "whole")

\* What a call has returned is final: nothing of it is stored afterwards.
Settled == [][outcome = "running"]_vars
=============================================================================

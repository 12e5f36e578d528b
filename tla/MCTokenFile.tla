----------------------------- MODULE MCTokenFile -----------------------------
(* TokenFile for TLC: two goroutines of one process, which contend for its    *)
(* mutex, and one of another process, which does not.                         *)
EXTENDS TokenFile

CONSTANTS g1, g2, other, sdk, cli

MCProcessOf == [c \in {g1, g2, other} |-> IF c = other THEN cli ELSE sdk]
=============================================================================

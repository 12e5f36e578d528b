----------------------------- MODULE PartRanges -----------------------------
(***************************************************************************)
(* The arithmetic of a multipart upload (multipartUploadParts): how many   *)
(* parts an object of size bytes is cut into, and which bytes part p       *)
(* carries.  Parts are numbered from 1, as on the wire; the code's index   *)
(* idx is p - 1.                                                           *)
(***************************************************************************)
EXTENDS Integers, FiniteSets

numParts_RoundsDown(size, partSize) ==
  IF size \div partSize = 0 THEN 1 ELSE size \div partSize

\* A zero-length object is uploaded as one empty part.
numParts(size, partSize) ==
  LET n == (size + partSize - 1) \div partSize IN IF n = 0 THEN 1 ELSE n

offset(p, partSize) == (p - 1) * partSize

\* n: a whole part, cut at the end of the object, never negative.
length(p, size, partSize) ==
  LET left == size - offset(p, partSize) IN
  IF left >= partSize THEN partSize ELSE IF left < 0 THEN 0 ELSE left

\* The bytes part p carries.
PartBytes(p, size, partSize) ==
  offset(p, partSize) .. (offset(p, partSize) + length(p, size, partSize) - 1)

\* Every byte of the object lies in exactly one part, and no part holds a byte
\* beyond its end.
Tiles(size, partSize) ==
  LET parts == 1 .. numParts(size, partSize) IN
  /\ \A b \in 0 .. (size - 1) : \E p \in parts :
       /\ b \in PartBytes(p, size, partSize)
       /\ \A q \in parts : b \in PartBytes(q, size, partSize) => q = p
  /\ \A p \in parts : PartBytes(p, size, partSize) \subseteq 0 .. (size - 1)
=============================================================================

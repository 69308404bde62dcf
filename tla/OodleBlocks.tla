----------------------------- MODULE OodleBlocks -----------------------------
(***************************************************************************)
(* Oodle streams (codecs/oodle.rs): neither their decompressed size nor     *)
(* their end is recorded, so the size comes from outside and the end from   *)
(* following the headers of the blocks, one for BlockSize bytes of output.  *)
(*                                                                         *)
(* A block header is one byte here: reset 1, stored 2, checksums 4, a       *)
(* decoder outside the Kraken family 8, and 16 or more is none.  A quantum  *)
(* header is one byte, the compressed size less one, or Filled.  The user's *)
(* library is external and decodes any size that it is asked for.           *)
(***************************************************************************)
EXTENDS Decoding

CONSTANTS BlockSize, Filled

ASSUME BlocksAssumption == BlockSize \in Nat \ {0}

IsHeader(data, p) == Has(data, p, 1) /\ Byte(data, p) < 16
Says(data, p, f) == (Byte(data, p) \div f) % 2 = 1

Least(a, b) == IF a < b THEN a ELSE b

(* Where the block at pos ends if it makes chunk bytes, and how many of its *)
(* bytes are entropy-coded.                                                 *)
Block(data, pos, chunk, rawLen) ==
  LET p == pos + 1
      q == Byte(data, p)
      size == q + 1
      checksum == IF Says(data, pos, 4) THEN 1 ELSE 0
  IN  IF Says(data, pos, 2)
      THEN [error |-> "none", evidence |-> 0,
            end |-> p + IF rawLen # Unknown THEN chunk ELSE Least(chunk, Len(data) - p)]
      ELSE IF ~ Has(data, p, 1) THEN Fail("Truncated")
      ELSE IF q = Filled THEN [error |-> "none", evidence |-> 0, end |-> p + 2]
      ELSE IF size > chunk THEN Fail("InvalidData")
      ELSE [error |-> "none", evidence |-> IF size < chunk THEN size ELSE 0, end |-> p + 1 + checksum + size]

(* A walk is behind used bytes, which give size bytes of output.            *)
Walks == [error : Errors, used : Nat, size : Nat, evidence : Nat]

WalkStart == [error |-> "going", used |-> 0, size |-> 0, evidence |-> 0]

EndWalk(w, error) == [w EXCEPT !.error = error]

(* One block; without rawLen until the data ends.                           *)
WalkStep(data, rawLen, w) ==
  LET chunk == IF rawLen = Unknown THEN BlockSize ELSE Least(rawLen - w.size, BlockSize)
      block == Block(data, w.used, chunk, rawLen)
      over == IF rawLen = Unknown THEN w.used >= Len(data) ELSE w.size >= rawLen
  IN  IF over THEN EndWalk(w, "none")
      ELSE IF ~ IsHeader(data, w.used) THEN EndWalk(w, "InvalidData")
      ELSE IF w.used = 0 /\ ~ Says(data, 0, 1) THEN EndWalk(w, "BadHeader")
      ELSE IF Says(data, w.used, 8) THEN EndWalk(w, "SizeRequired")
      ELSE IF ~ Ok(block) THEN EndWalk(w, block.error)
      ELSE IF block.end > Len(data) THEN EndWalk(w, "Truncated")
      ELSE [error |-> "going", used |-> block.end, size |-> w.size + chunk,
            evidence |-> w.evidence + block.evidence]

Walk(data, rawLen) == Loop(Walks, LAMBDA w : WalkStep(data, rawLen, w))[WalkStart]

OodleProbe(data) == IsHeader(data, 0) /\ Says(data, 0, 1)

OodleDecode(data, compressed, decompressed, max) ==
  LET walk == Walk(data, decompressed) IN
  CASE decompressed = Unknown -> Fail("SizeRequired")
    [] decompressed = 0 -> Fail("BadHeader")
    [] decompressed > 0 ->
         IF ~ OodleProbe(data) THEN Fail("BadHeader")
         ELSE IF decompressed > max THEN Fail("TooLarge")
         ELSE IF compressed # Unknown
         THEN IF compressed > Len(data) THEN Fail("Truncated") ELSE Done(compressed, decompressed)
         ELSE IF ~ Ok(walk) THEN Fail(walk.error) ELSE Done(walk.used, decompressed)

(* Mutant: a stored block of a full block's size only.                      *)
EvidenceOfFullBlocks(stream) ==
  LET walk == Walk(stream, (Len(stream) \div BlockSize + 1) * BlockSize) IN
  IF Ok(walk) THEN walk.evidence ELSE Len(stream)

(* A stream that cannot be walked counts whole.                             *)
OodleEvidence(stream) ==
  LET walk == Walk(stream, Unknown) IN IF Ok(walk) THEN walk.evidence ELSE Len(stream)
=============================================================================

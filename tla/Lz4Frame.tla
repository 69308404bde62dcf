------------------------------ MODULE Lz4Frame ------------------------------
(***************************************************************************)
(* LZ4 frames (codecs/lz4.rs): a descriptor with its own check, blocks that *)
(* may each have a checksum, an end mark, and a checksum of the content.    *)
(*                                                                         *)
(* The four bytes of the magic, of a size and of a checksum are one each    *)
(* here, and the flags one without the version: content size 1, block       *)
(* checksums 2, content checksum 4.  The word of a block is its length, and *)
(* 4 more if the block is stored.  lz4_flex and xxh32 are external: a block *)
(* decompresses to two bytes for each of its own, and a checksum is a sum.  *)
(***************************************************************************)
EXTENDS Decoding, SequencesExt

CONSTANTS Lz4Magic, BlockMax, Sums

Flag(flags, f) == (flags \div f) % 2 = 1

SumOf(data, from, to) == FoldLeft(+, 0, SubSeq(data, from + 1, to)) % Sums

ContentCheck(size) == size % Sums

(* parse_header: where the blocks begin, and what the flags say.            *)
Lz4Header(data) ==
  LET flags == Byte(data, 1)
      len == IF Flag(flags, 1) THEN 3 ELSE 2
  IN  CASE ~ Has(data, 0, 1) \/ Byte(data, 0) # Lz4Magic -> Fail("BadHeader")
        [] OTHER ->
             CASE ~ Has(data, 0, 2) -> Fail("Truncated")
               [] Has(data, 0, 2) /\ ~ Has(data, 0, len + 1) -> Fail("Truncated")
               [] OTHER -> IF SumOf(data, 1, len) # Byte(data, len) THEN Fail("BadHeader")
                           ELSE [error |-> "none", len |-> len + 1, flags |-> flags,
                                 content |-> IF Flag(flags, 1) THEN Byte(data, 2) ELSE Unknown]

(* What follows the end mark at pos, after size bytes of output.            *)
EndsWith(h, size, end) ==
  IF h.content # Unknown /\ h.content # size THEN Fail("InvalidData") ELSE Done(end, size)

(* Mutant: a checksum that is not there yet is not asked for.               *)
TrailerIfThere(data, h, pos, size) ==
  IF Flag(h.flags, 4) /\ Has(data, pos, 1)
  THEN IF Byte(data, pos) # ContentCheck(size) THEN Fail("ChecksumMismatch") ELSE EndsWith(h, size, pos + 1)
  ELSE EndsWith(h, size, pos)

Trailer(data, h, pos, size) ==
  IF ~ Flag(h.flags, 4) THEN EndsWith(h, size, pos)
  ELSE IF ~ Has(data, pos, 1) THEN Fail("Truncated")
  ELSE IF Byte(data, pos) # ContentCheck(size) THEN Fail("ChecksumMismatch")
  ELSE EndsWith(h, size, pos + 1)

(* The word of a block that is not the end mark.                            *)
LengthOf(word) == word % 4
IsStored(word) == word \div 4 = 1

(* The end mark, or the block at a.used, after a.size bytes of output.       *)
BlockStep(data, h, a, max) ==
  LET pos == a.used
      len == LengthOf(Byte(data, pos))
      end == pos + 1 + len
      checked == Flag(h.flags, 2)
      more == a.size + IF IsStored(Byte(data, pos)) THEN len ELSE 2 * len
  IN  IF ~ Has(data, pos, 1) THEN Fail("Truncated")
      ELSE IF Byte(data, pos) = 0 THEN Trailer(data, h, pos + 1, a.size)
      ELSE IF len > BlockMax THEN Fail("InvalidData")
      ELSE IF ~ Has(data, pos + 1, len) THEN Fail("Truncated")
      ELSE IF checked /\ ~ Has(data, end, 1) THEN Fail("Truncated")
      ELSE IF checked /\ SumOf(data, pos + 1, end) # Byte(data, end) THEN Fail("ChecksumMismatch")
      ELSE IF more > max THEN Fail("TooLarge")
      ELSE Going(IF checked THEN end + 1 ELSE end, more)

Blocks(data, h, max) == Loop(Answers, LAMBDA a : BlockStep(data, h, a, max))

Lz4Decode(data, max) ==
  LET h == Lz4Header(data) IN
  IF ~ Ok(h) THEN h
  ELSE IF h.content > max THEN Fail("TooLarge")
  ELSE Blocks(data, h, max)[Going(h.len, 0)]

(* Mutant: room for a content checksum, which is optional.                  *)
ProbeChecked(data) == Len(data) >= 5 /\ Ok(Lz4Header(data))

(* At least a header without a content size, and an end mark.               *)
Lz4Probe(data) == Len(data) >= 4 /\ Ok(Lz4Header(data))
=============================================================================

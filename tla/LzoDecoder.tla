----------------------------- MODULE LzoDecoder -----------------------------
(***************************************************************************)
(* Raw LZO1X (codecs/lzo.rs): no header, no size, no checksum; a stream     *)
(* ends with the marker 11 00 00.  A decoder is at pos, has made out bytes, *)
(* literals of them copied verbatim; state is how many literals the last    *)
(* instruction copied.                                                      *)
(***************************************************************************)
EXTENDS Decoding

LzoStates == [error : Errors, pos : Nat, out : Nat, literals : Nat, state : Nat]

LzoStart == [error |-> "going", pos |-> 0, out |-> 0, literals |-> 0, state |-> 0]

Stop(s, why) == [s EXCEPT !.error = why]

(* copy_literals of n bytes.                                                *)
Literals(data, s, n, state, max) ==
  CASE ~ Has(data, s.pos, n) -> Stop(s, "Truncated")
    [] Has(data, s.pos, n) /\ s.out + n > max -> Stop(s, "TooLarge")
    [] OTHER -> [s EXCEPT !.pos = @ + n, !.out = @ + n, !.literals = @ + n, !.state = state]

(* A match of len bytes, distance back, whose instruction ends at p.        *)
Copied(s, p, len) == [s EXCEPT !.pos = p, !.out = @ + len]

Match(data, s, p, distance, len, trailing, max) ==
  IF distance > s.out THEN Stop(s, "InvalidData")
  ELSE IF s.out + len > max THEN Stop(s, "TooLarge")
  ELSE Literals(data, Copied(s, p, len), trailing, trailing, max)

(* A length that did not fit its instruction: zero bytes add 255 each.      *)
Lengths == [error : Errors, pos : Nat, n : Nat]

ExtendStep(data, l, max) ==
  CASE ~ Has(data, l.pos, 1) -> [l EXCEPT !.error = "Truncated"]
    [] Has(data, l.pos, 1) /\ Byte(data, l.pos) # 0 ->
         [error |-> "none", pos |-> l.pos + 1, n |-> l.n + Byte(data, l.pos)]
    [] OTHER -> IF l.n > max THEN [l EXCEPT !.error = "TooLarge"]
                ELSE [error |-> "going", pos |-> l.pos + 1, n |-> l.n + 255]

Extended(data, p, n, max) ==
  Loop(Lengths, LAMBDA l : ExtendStep(data, l, max))[[error |-> "going", pos |-> p, n |-> n]]

Length(data, p, n, base, max) ==
  IF n = 0 THEN Extended(data, p, base, max) ELSE [error |-> "none", pos |-> p, n |-> n]

Word(data, p) == Byte(data, p) + 256 * Byte(data, p + 1)

(* The instructions, by their first byte t; p is just behind it.            *)

LiteralRun(data, s, t, p, max) ==
  LET l == Length(data, p, t, 15, max) IN
  IF ~ Ok(l) THEN Stop(s, l.error) ELSE Literals(data, [s EXCEPT !.pos = l.pos], l.n + 3, 4, max)

ShortMatch(data, s, t, p, max) ==
  IF ~ Has(data, p, 1) THEN Stop(s, "Truncated")
  ELSE LET d == t \div 4 + 4 * Byte(data, p) IN
       IF s.state = 4 THEN Match(data, s, p + 1, 2049 + d, 3, t % 4, max)
                      ELSE Match(data, s, p + 1, 1 + d, 2, t % 4, max)

(* 16 .. 31: a distant match, or at distance 0 the end marker, which has one *)
(* form; strict: no other is accepted.                                      *)
FarOrEnd(data, s, t, p, max, strict) ==
  LET l == Length(data, p, t % 8, 7, max) IN
  IF ~ Ok(l) THEN Stop(s, l.error)
  ELSE IF ~ Has(data, l.pos, 2) THEN Stop(s, "Truncated")
  ELSE LET d == Word(data, l.pos)
           far == 16384 * ((t \div 8) % 2) + d \div 4
       IN  IF far # 0 THEN Match(data, s, l.pos + 2, far + 16384, l.n + 2, d % 4, max)
           ELSE IF strict => t = 17 /\ d = 0 THEN [s EXCEPT !.pos = l.pos + 2, !.error = "none"]
           ELSE Stop(s, "InvalidData")

(* Mutant: the end marker in any form.                                      *)
AnyMarker(data, s, t, p, max) == FarOrEnd(data, s, t, p, max, FALSE)

FarMatch(data, s, t, p, max) == FarOrEnd(data, s, t, p, max, TRUE)

MiddleMatch(data, s, t, p, max) ==
  LET l == Length(data, p, t % 32, 31, max) IN
  IF ~ Ok(l) THEN Stop(s, l.error)
  ELSE IF ~ Has(data, l.pos, 2) THEN Stop(s, "Truncated")
  ELSE LET d == Word(data, l.pos) IN Match(data, s, l.pos + 2, 1 + d \div 4, l.n + 2, d % 4, max)

NearMatch(data, s, t, p, max) ==
  IF ~ Has(data, p, 1) THEN Stop(s, "Truncated")
  ELSE Match(data, s, p + 1, 1 + ((t \div 4) % 8) + 8 * Byte(data, p), t \div 32 + 1, t % 4, max)

Instruction(data, s, max) ==
  LET t == Byte(data, s.pos)
      p == s.pos + 1
  IN  IF ~ Has(data, s.pos, 1) THEN Stop(s, "Truncated")
      ELSE CASE t >= 64 -> NearMatch(data, s, t, p, max)
             [] t \in 32 .. 63 -> MiddleMatch(data, s, t, p, max)
             [] t \in 16 .. 31 -> FarMatch(data, s, t, p, max)
             [] t < 16 /\ s.state = 0 -> LiteralRun(data, s, t, p, max)
             [] OTHER -> ShortMatch(data, s, t, p, max)

Instructions(data, max) == Loop(LzoStates, LAMBDA s : Instruction(data, s, max))

(* A first byte above 17 is a run of literals.                              *)
Decompress(data, max) ==
  LET n == Byte(data, 0) - 17 IN
  Instructions(data, max)[
    IF Has(data, 0, 1) /\ Byte(data, 0) > 17
    THEN Literals(data, [LzoStart EXCEPT !.pos = 1], n, IF n < 4 THEN n ELSE 4, max)
    ELSE LzoStart]

LzoDecode(data, max) ==
  LET s == Decompress(data, max) IN IF Ok(s) THEN Done(s.pos, s.out) ELSE Fail(s.error)

(* decode_with_hint: a known size is checked against the end marker first.  *)
LzoDecodeWithHint(data, compressed, max) ==
  CASE compressed = Unknown -> LzoDecode(data, max)
    [] compressed > Len(data) -> Fail("Truncated")
    [] compressed \in 0 .. Len(data) ->
         IF compressed < 3 \/ SubSeq(data, compressed - 2, compressed) # <<17, 0, 0>> THEN Fail("InvalidData")
         ELSE LzoDecode(Cut(data, compressed), max)

LzoProbe(data) == Len(data) >= 3

(* Literals prove nothing.  The output has no limit here; a byte of the     *)
(* stream makes no more than 300 of it.                                     *)
LzoEvidence(stream) ==
  LET s == Decompress(stream, 300 * Len(stream)) IN IF Ok(s) THEN s.pos - s.literals ELSE 0
=============================================================================

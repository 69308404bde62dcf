------------------------------ MODULE Deflated ------------------------------
(***************************************************************************)
(* gzip members and zlib streams (codecs/gzip.rs, codecs/zlib.rs): a header *)
(* of which parts are optional, a raw deflate body, a check of the output.  *)
(*                                                                         *)
(* One byte stands for the three of gzip's magic, one for time and system,  *)
(* one for a two-byte length or check, one for the trailer, and one for the *)
(* two of zlib's header.  The flags of gzip: header check 2, extra 4, name  *)
(* 8, comment 16, reserved 32.  Inflating is external (DecodeCtx is modelled *)
(* by Inflater): in a body 0 is the end, 3 is invalid, and another byte     *)
(* gives as many bytes of output as it says.                                *)
(***************************************************************************)
EXTENDS Decoding

CONSTANTS GzipMagic, MaxCstr, Checks

ASSUME DeflatedAssumption == MaxCstr \in Nat \ {0}

FixedHeader == 3
HasFlag(flags, f) == (flags \div f) % 2 = 1

At(pos) == [error |-> "none", pos |-> pos]

(* read_cstr: past the NUL at or after pos, which is not searched for ever. *)
Cstr(data, pos) ==
  LET nuls == {p \in pos .. Len(data) - 1 : p < pos + MaxCstr /\ Byte(data, p) = 0} IN
  CASE pos > Len(data) -> Fail("Truncated")
    [] pos <= Len(data) /\ nuls # {} -> At((CHOOSE p \in nuls : \A q \in nuls : p <= q) + 1)
    [] OTHER -> IF Has(data, pos, MaxCstr) THEN Fail("BadHeader") ELSE Fail("Truncated")

(* The optional parts, in this order; each starts where the last one ended. *)
Extra(data, at) ==
  IF ~ Has(data, at.pos, 1) THEN Fail("Truncated") ELSE At(at.pos + 1 + Byte(data, at.pos))

HeaderCheck(data, at) ==
  IF ~ Has(data, at.pos, 1) THEN Fail("Truncated")
  ELSE IF Byte(data, at.pos) # at.pos % Checks THEN Fail("BadHeader") ELSE At(at.pos + 1)

Part(f, data, at) ==
  CASE f = 4 -> Extra(data, at)
    [] f \in {8, 16} -> Cstr(data, at.pos)
    [] f = 2 -> HeaderCheck(data, at)

IfFlagged(f, data, at) == IF Ok(at) /\ HasFlag(Byte(data, 1), f) THEN Part(f, data, at) ELSE at

Parts(data) ==
  IfFlagged(2, data, IfFlagged(16, data, IfFlagged(8, data, IfFlagged(4, data, At(FixedHeader)))))

GzipHeader(data) ==
  LET end == Parts(data) IN
  IF ~ Has(data, 0, 1) \/ Byte(data, 0) # GzipMagic THEN Fail("BadHeader")
  ELSE IF ~ Has(data, 0, 2) THEN Fail("Truncated")
  ELSE IF HasFlag(Byte(data, 1), 32) THEN Fail("BadHeader")
  ELSE IF ~ Has(data, 0, FixedHeader) THEN Fail("Truncated")
  ELSE IF Ok(end) /\ end.pos > Len(data) THEN Fail("Truncated")
  ELSE end

InflateStep(data, a, max) ==
  IF ~ Has(data, a.used, 1) THEN Fail("Truncated")
  ELSE LET b == Byte(data, a.used) IN
       CASE b = 0 -> Done(a.used + 1, a.size)
         [] b = 3 -> Fail("InvalidData")
         [] OTHER -> IF a.size + b > max THEN Fail("TooLarge") ELSE Going(a.used + 1, a.size + b)

Inflate(data, max) == Loop(Answers, LAMBDA a : InflateStep(data, a, max))

(* The body and what checks its output.                                     *)
BodyAndTrailer(data, header, max) ==
  LET body == Inflate(data, max)[Going(header, 0)] IN
  IF ~ Ok(body) THEN body
  ELSE IF ~ Has(data, body.used, 1) THEN Fail("Truncated")
  ELSE IF Byte(data, body.used) # body.size % Checks THEN Fail("ChecksumMismatch")
  ELSE Done(body.used + 1, body.size)

GzipDecode(data, max) ==
  LET h == GzipHeader(data) IN IF ~ Ok(h) THEN h ELSE BodyAndTrailer(data, h.pos, max)

GzipProbe(data) ==
  Len(data) >= FixedHeader /\ Byte(data, 0) = GzipMagic /\ ~ HasFlag(Byte(data, 1), 32)

(* A header that is valid gives its window bits, 8 to 15.                   *)
ZlibHeader(data) == Has(data, 0, 1) /\ Byte(data, 0) \in 8 .. 15

ZlibDecode(data, max) ==
  IF ~ ZlibHeader(data) THEN Fail("BadHeader") ELSE BodyAndTrailer(data, 1, max)

(* With probe_block_header: a block type that exists.                       *)
ZlibProbe(data) == ZlibHeader(data) /\ Has(data, 1, 1) /\ Byte(data, 1) # 3
=============================================================================

------------------------------- MODULE Codecs -------------------------------
(***************************************************************************)
(* What a scan makes of the bytes at one offset (scan.rs, try_at), whatever *)
(* the format, and what everything after it (matching parameters, extract,  *)
(* pack) makes of the stream that was found.                                *)
(*                                                                         *)
(* The bytes grow: data is what is in front of the window's end, and a      *)
(* longer window shows more of the same file.  Windows end where a gap or   *)
(* the file does, so an answer must not hang on what follows the stream.    *)
(***************************************************************************)
EXTENDS LzoDecoder, Lz4Frame, Deflated, OodleBlocks

CONSTANTS
  Starts,     (* format |-> how its streams begin                           *)
  Alphabet,   (* format |-> the bytes that may follow                       *)
  FieldsBefore, (* the values of the integers just before the offset          *)
  Limits,     (* max_output                                                 *)
  Filters,    (* the options of the scan that filter by size                *)
  MaxMore,    (* bound: format |-> bytes after its beginning                *)
  MaxTail     (* bound: bytes after an answer that no byte should change    *)

Formats == {"gzip", "zlib", "lz4", "lzo", "oodle"}

(* An offset that is tried is in front of the window's end; only a raw LZO  *)
(* stream has no byte that it must begin with.                              *)
ASSUME CodecsAssumption ==
  /\ FieldsBefore \subseteq Seq(Nat) /\ Limits \subseteq Nat
  /\ Filters \subseteq [minSize : Nat, rawMin : Nat]
  /\ \A f \in Formats : Starts[f] \subseteq Seq(Nat) /\ Alphabet[f] \subseteq Nat
  /\ \A f \in Formats \ {"lzo"} : <<>> \notin Starts[f]

VARIABLES
  codec,      (* the format tried, the fields before it, and the options;   *)
              (* and, for the bound, how many bytes data began with         *)
  data,       (* the bytes of the window                                    *)
  decided     (* how many there were when more could not change the answer  *)

codecVars == <<codec, data, decided>>

SelfVerifying(f) == f \in {"gzip", "zlib", "lz4"}
NeedsSize(f) == f = "oodle"
ScanNeedsSizeField(f) == NeedsSize(f) \/ f = "lzo"

Probe(f, d) ==
  CASE f = "gzip" -> GzipProbe(d)
    [] f = "zlib" -> ZlibProbe(d)
    [] f = "lz4" -> Lz4Probe(d)
    [] f = "lzo" -> LzoProbe(d)
    [] f = "oodle" -> OodleProbe(d)

(* decode_with_hint, which is decode for those that find their own end.     *)
Decode(f, d, compressed, decompressed, max) ==
  CASE f = "gzip" -> GzipDecode(d, max)
    [] f = "zlib" -> ZlibDecode(d, max)
    [] f = "lz4" -> Lz4Decode(d, max)
    [] f = "lzo" -> LzoDecodeWithHint(d, compressed, max)
    [] f = "oodle" -> OodleDecode(d, compressed, decompressed, max)

Evidence(f, stream) ==
  CASE f = "lzo" -> LzoEvidence(stream)
    [] f = "oodle" -> OodleEvidence(stream)
    [] OTHER -> Len(stream)

(* sizes_before: what the fields before the offset say, nearest first.      *)
SizesBefore(limit) ==
  [k \in {i \in DOMAIN codec.fields : codec.fields[i] \in 1 .. limit} |-> codec.fields[k]]

IsFirst(k, ks) == k \in ks /\ \A j \in ks : k <= j

FirstOk(answers) ==
  LET good == {k \in DOMAIN answers : Ok(answers[k])} IN
  IF good = {} THEN Fail("Rejected") ELSE answers[CHOOSE k \in good : IsFirst(k, good)]

(* decode_candidate: with each size that a field gives, or without.         *)
BySizes(d) ==
  LET sizes == SizesBefore(codec.max) IN
  FirstOk([k \in DOMAIN sizes |-> Decode(codec.format, d, Unknown, sizes[k], codec.max)])

ByLength(d) ==
  LET sizes == SizesBefore(Len(d))
      Answer(n) == Decode(codec.format, Cut(d, n), n, Unknown, codec.max)
  IN  FirstOk([k \in DOMAIN sizes |->
                 IF Answer(sizes[k]).used = sizes[k] THEN Answer(sizes[k]) ELSE Fail("Rejected")])

DecodeCandidate(d) ==
  CASE NeedsSize(codec.format) -> BySizes(d)
    [] ~ NeedsSize(codec.format) /\ ScanNeedsSizeField(codec.format) -> ByLength(d)
    [] OTHER -> Decode(codec.format, d, Unknown, Unknown, codec.max)

(* accept, entropy and ratios apart, and what try_at asks of the sizes      *)
(* where only a field tells a stream from noise.                            *)
Accepts(d, answer) ==
  /\ Ok(answer) /\ answer.size >= codec.minSize
  /\ ScanNeedsSizeField(codec.format) =>
       \E k \in DOMAIN codec.fields : codec.fields[k] \in {answer.used, answer.size} \ {0}
  /\ SelfVerifying(codec.format) \/ Evidence(codec.format, Cut(d, answer.used)) >= codec.rawMin

(* try_at, for one codec.                                                   *)
TryAt(d) ==
  LET answer == DecodeCandidate(d) IN
  IF Probe(codec.format, d) /\ Accepts(d, answer) THEN answer ELSE Fail("Rejected")

(* What the decoder says itself, with the first size that a field gives.    *)
FieldSize ==
  LET sizes == SizesBefore(codec.max) IN
  IF DOMAIN sizes = {} THEN Unknown ELSE sizes[CHOOSE k \in DOMAIN sizes : IsFirst(k, DOMAIN sizes)]
Answer(d) == Decode(codec.format, d, Unknown, IF NeedsSize(codec.format) THEN FieldSize ELSE Unknown, codec.max)

(* decode_at, which adds a stream by hand: what the user says of its sizes  *)
(* has to agree.                                                            *)
DecodeAt(d, compressed, decompressed) ==
  LET answer == Decode(codec.format, d, compressed, decompressed, codec.max) IN
  IF Ok(answer) /\ ~ (compressed \in {Unknown, answer.used} /\ decompressed \in {Unknown, answer.size})
  THEN Fail("SizeMismatch") ELSE answer

(* More bytes may still help: the data ends too soon.  Oodle's decoder says *)
(* InvalidData where the next block's header is not there yet.              *)
Waiting(d) ==
  \/ Answer(d).error = "Truncated"
  \/ /\ codec.format = "oodle" /\ Answer(d).error = "InvalidData"
     /\ Ok(Walk(d, Unknown)) /\ Walk(d, Unknown).used = Len(d)

CodecInit ==
  /\ \E f \in Formats, fields \in FieldsBefore, max \in Limits, options \in Filters :
       \E start \in Starts[f] :
         /\ ~ ScanNeedsSizeField(f) => fields = <<>>
         /\ codec = [format |-> f, fields |-> fields, max |-> max, begin |-> Len(start),
                     minSize |-> options.minSize, rawMin |-> options.rawMin]
         /\ data = start
  /\ decided = 0

Feed ==
  /\ Len(data) < codec.begin + MaxMore[codec.format]
  /\ decided # 0 => Len(data) < decided + MaxTail
  /\ \E b \in Alphabet[codec.format] : data' = Append(data, b)
  /\ decided' = IF decided = 0 /\ ~ Waiting(data) THEN Len(data) ELSE decided
  /\ UNCHANGED codec

CodecNext == Feed

CodecSpec == CodecInit /\ [][CodecNext]_codecVars

-----------------------------------------------------------------------------
(* Properties.                                                              *)

(* The scan gives a decoder all bytes up to the end of its gap and relies   *)
(* on it to find the end of the stream ("data may extend past the stream    *)
(* end", Codec::decode): bytes that follow never change an answer that did  *)
(* not run out of them, and what try_at accepted it accepts in any longer   *)
(* window.  Oodle tries several sizes: a nearer one may come to fit.        *)
AnswersAreFinal ==
  [][/\ ~ Waiting(data) => Answer(data') = Answer(data)
     /\ Ok(TryAt(data)) /\ NeedsSize(codec.format) => Ok(TryAt(data'))
     /\ Ok(TryAt(data)) /\ ~ NeedsSize(codec.format) => TryAt(data') = TryAt(data)]_codecVars

(* A stream that was found, or added by hand at this offset, is decoded     *)
(* again by match_params, extract and pack, from its recorded bytes alone   *)
(* and with both its sizes known: that gives the same sizes, for each codec *)
(* and however it came into the manifest.                                   *)
SameFromItsSizes ==
  \A found \in {TryAt(data)} \cup {DecodeAt(data, c, n) : c \in {Unknown, Len(data)}, n \in {Unknown, 2, 3}} :
   Ok(found) =>
    /\ found.used \in 1 .. Len(data) /\ found.size \in 0 .. codec.max
    /\ Decode(codec.format, Cut(data, found.used), found.used, found.size, codec.max) = found

(* probe "must never reject a stream that `decode` would accept": it sees   *)
(* the whole window, the shortest streams of each format included.          *)
ProbeNeverRejects == Ok(Answer(data)) => Probe(codec.format, data)

(* Raw streams count by their evidence, which is worked out from the stream *)
(* alone.  For Oodle that means without the size that led to its end: the   *)
(* walk must come to the same end, and find no less that is coded, and no   *)
(* more than the last block.                                                *)
EvidenceKnowsTheEnd ==
  \A found \in {TryAt(data)} : codec.format = "oodle" /\ Ok(found) =>
    LET stream == Cut(data, found.used)
        proved == Walk(stream, found.size).evidence
    IN  Ok(Walk(stream, Unknown)) /\ OodleEvidence(stream) \in proved .. proved + BlockSize
=============================================================================

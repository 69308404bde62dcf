------------------------------ MODULE Decoding ------------------------------
(***************************************************************************)
(* What the decoders of codecs/ share: reading from bytes that may end too  *)
(* soon (data.get(..).ok_or(Truncated)), and their answers, a Decoded or a  *)
(* DecodeError.  Of what comes out only the size is kept; bytes count from  *)
(* 0, sequences from 1.                                                     *)
(***************************************************************************)
EXTENDS Integers, Sequences

(* The size a caller does not know (None of SizeHint).                      *)
Unknown == -1

Byte(data, p) == data[p + 1]
Has(data, p, n) == p + n <= Len(data)
Cut(data, n) == SubSeq(data, 1, n)

(* used: bytes of the stream; size: bytes of its output.                    *)
Done(used, size) == [error |-> "none", used |-> used, size |-> size]
Fail(error) == [error |-> error, used |-> 0, size |-> 0]
Ok(answer) == answer.error = "none"

(* A decoder that is not at its end yet has no error and is not done.       *)
Going(used, size) == [error |-> "going", used |-> used, size |-> size]
Running(state) == state.error = "going"

Errors ==
  {"going", "none", "Truncated", "BadHeader", "InvalidData", "TooLarge", "ChecksumMismatch",
   "SizeRequired", "SizeMismatch", "Rejected"}

Answers == [error : Errors, used : Nat, size : Nat]

(* The loop of a decoder: where it ends, from each state.                   *)
Loop(States, Step(_)) ==
  LET run[s \in States] == IF Running(s) THEN run[Step(s)] ELSE s
  IN  run
=============================================================================

------------------------------ MODULE Inflater ------------------------------
(***************************************************************************)
(* DecodeCtx (codec.rs): the output buffer that one thread keeps for all    *)
(* its attempts to decode.  It grows and is never cut, so each attempt      *)
(* starts with what the attempts before have left.  miniz_oxide is external: *)
(* a body gives size bytes and then ends as it does.                        *)
(***************************************************************************)
EXTENDS Integers, Sequences

CONSTANTS
  InitialOutput,  (* the buffer's first length                              *)
  MaxOutputs,     (* the limits that a context is made with                 *)
  Sizes,          (* how much the bodies give before they end               *)
  MaxAttempts     (* bound                                                  *)

ASSUME InflaterAssumption ==
  /\ InitialOutput \in Nat \ {0}
  /\ MaxOutputs \subseteq Nat /\ Sizes \subseteq Nat /\ MaxAttempts \in Nat

Ends == {"Done", "NeedsMoreInput", "Failed"}
Bodies == [size : Sizes, end : Ends]

VARIABLES
  ctx,        (* max_output and the length of buf                           *)
  inflating,  (* the body that the loop is at, if any, and how much is out  *)
  attempts,   (* how many were begun                                        *)
  last        (* the last body that was answered, and its answer, if any    *)

inflaterVars == <<ctx, inflating, attempts, last>>

Smaller(a, b) == IF a < b THEN a ELSE b

InflaterInit ==
  /\ \E max \in MaxOutputs : ctx = [max |-> IF max = 0 THEN 1 ELSE max, buf |-> 0]
  /\ inflating = {} /\ last = {}
  /\ attempts = 0

Floor == Smaller(InitialOutput, ctx.max)

(* inflate, up to its loop: the buffer gets its first length, unless it is  *)
(* longer already.                                                          *)
InflateBegins ==
  /\ inflating = {} /\ attempts < MaxAttempts
  /\ \E body \in Bodies : inflating' = {[body |-> body, out |-> 0]}
  /\ ctx' = [ctx EXCEPT !.buf = IF @ < Floor THEN Floor ELSE @]
  /\ attempts' = attempts + 1
  /\ UNCHANGED last

(* What the body's end is to the caller, after this much output.            *)
Outcome(body, out) ==
  CASE body.end = "Done" -> [is |-> "Ok", out |-> out]
    [] body.end = "NeedsMoreInput" -> [is |-> "Truncated"]
    [] body.end = "Failed" -> [is |-> "InvalidData"]

TooLarge == [is |-> "TooLarge", max |-> ctx.max]

(* Mutant: doubling past the limit.                                         *)
DoubledFreely(buf) == 2 * buf

Doubled(buf) == Smaller(2 * buf, ctx.max)

GiveAnswer(body, answer) == inflating' = {} /\ last' = {[body |-> body, answer |-> answer]}

(* One pass of the loop: decompress goes on from out until the body ends or *)
(* the buffer is full with more to come; then it is doubled up to the limit.*)
InflateLoop ==
  /\ \E run \in inflating :
       LET out == run.out + Smaller(run.body.size - run.out, ctx.buf - run.out) IN
       \/ /\ out = run.body.size
          /\ GiveAnswer(run.body, Outcome(run.body, out)) /\ UNCHANGED ctx
       \/ /\ out < run.body.size /\ ctx.buf >= ctx.max
          /\ GiveAnswer(run.body, TooLarge) /\ UNCHANGED ctx
       \/ /\ out < run.body.size /\ ctx.buf < ctx.max
          /\ ctx' = [ctx EXCEPT !.buf = Doubled(@)]
          /\ inflating' = {[run EXCEPT !.out = out]}
          /\ UNCHANGED last
  /\ UNCHANGED attempts

InflaterNext == InflateBegins \/ InflateLoop

InflaterSpec == InflaterInit /\ [][InflaterNext]_inflaterVars

-----------------------------------------------------------------------------
(* Properties.                                                              *)

(* What an attempt answers depends on the body and the limit alone, never   *)
(* on what was decoded before with the same buffer: a scan's threads reuse  *)
(* theirs at offsets in an order that differs from run to run.              *)
AnswerForgetsAttempts ==
  \A l \in last :
    l.answer = IF l.body.size > ctx.max THEN TooLarge ELSE Outcome(l.body, l.body.size)

(* The loop ends: whenever it goes round, the buffer has become longer, and *)
(* it never is longer than the limit.                                       *)
LoopAdvances ==
  [][inflating # {} /\ inflating' # {} => ctx.buf < ctx'.buf /\ ctx'.buf <= ctx.max]_inflaterVars

(* The inductive invariant: what is out fits the body and the buffer, which *)
(* is never empty while the loop runs.                                      *)
InflaterInv ==
  /\ ctx \in [max : Nat \ {0}, buf : Nat] /\ ctx.buf <= ctx.max
  /\ \A run \in inflating :
       /\ run \in [body : Bodies, out : Nat]
       /\ run.out <= run.body.size /\ run.out <= ctx.buf /\ ctx.buf > 0
  /\ \A l \in last : l.body \in Bodies
  /\ AnswerForgetsAttempts
=============================================================================

----------------------------- MODULE CodecsProofs -----------------------------
(***************************************************************************)
(* Proofs about Codecs, for files of any length: what the decoders answer   *)
(* does not hang on what follows a stream, and a stream is decoded again    *)
(* from its own bytes.                                                      *)
(***************************************************************************)
EXTENDS Codecs, SequenceTheorems, WellFoundedInduction, TLAPS

-----------------------------------------------------------------------------
(* Loops.  What Loop chooses exists, as each step leads closer to an end;   *)
(* and two loops whose steps keep a relation end in it.                     *)

(* A set of numbers has a least one: what stands here for induction.        *)
LEMMA LeastNumber ==
  ASSUME NEW T \in SUBSET Nat, T # {}
  PROVE  \E x \in T : \A y \in T : x <= y
<1> DEFINE R == OpToRel(<, Nat)
<1>1. IsWellFoundedOn(R, Nat)
  BY NatLessThanWellFounded
<1>2. \A x, y \in Nat : x < y => <<x, y>> \in R
  BY DEF OpToRel
<1> HIDE DEF R
<1>3. PICK x \in T : \A y \in T : ~ (<<y, x>> \in R)
  BY <1>1, WFMin, Zenon
<1>4. ASSUME NEW y \in T PROVE x <= y
  <2>1. x \in Nat /\ y \in Nat
    OBVIOUS
  <2>2. ~ (y < x)
    BY <1>2, <1>3, <2>1, Zenon
  <2>3. QED BY <2>1, <2>2
<1>5. QED BY <1>4, Zenon

(* run is the loop of step over the states S.                               *)
IsLoop(run, S, step) == run = [s \in S |-> IF Running(s) THEN run[step[s]] ELSE s]

(* Each step ends the loop or moves it on, up to a bound.                   *)
MovesOn(S, step, m, bound) ==
  /\ step \in [S -> S] /\ m \in [S -> Nat] /\ bound \in Nat
  /\ \A s \in S : Running(s) /\ Running(step[s]) => m[s] < m[step[s]] /\ m[step[s]] <= bound

(* How many steps are left at most.                                         *)
StepsLeft(s, m, bound) ==
  IF ~ Running(s) THEN 0 ELSE IF m[s] <= bound THEN bound + 2 - m[s] ELSE 1

(* A step that goes on leaves fewer steps, so the number left can stand for *)
(* time.                                                                    *)
LEMMA StepCloser ==
  ASSUME NEW S, NEW step, NEW m, NEW bound, MovesOn(S, step, m, bound), NEW s \in S
  PROVE  /\ StepsLeft(s, m, bound) \in 0 .. bound + 2
         /\ step[s] \in S
         /\ Running(s) => StepsLeft(step[s], m, bound) < StepsLeft(s, m, bound)
<1>1. step[s] \in S /\ m[s] \in Nat /\ m[step[s]] \in Nat /\ bound \in Nat
  BY DEF MovesOn
<1>2. Running(s) /\ Running(step[s]) => m[s] < m[step[s]] /\ m[step[s]] <= bound
  BY DEF MovesOn
<1>3. QED BY <1>1, <1>2 DEF StepsLeft

(* The function that Loop chooses is there: else there would be a least     *)
(* number of steps for which it is not.                                     *)
LEMMA LoopExists ==
  ASSUME NEW S, NEW step, NEW m, NEW bound, MovesOn(S, step, m, bound)
  PROVE  \E run : IsLoop(run, S, step)
<1> DEFINE Left(s) == StepsLeft(s, m, bound)
           Is(f, n) == f = [s \in S |-> IF Running(s) /\ Left(s) <= n THEN f[step[s]] ELSE s]
           T == {n \in 0 .. bound + 2 : ~ \E f : Is(f, n)}
<1>1. bound \in Nat
  BY DEF MovesOn
<1>2. \A s \in S : /\ Left(s) \in 0 .. bound + 2 /\ step[s] \in S
                   /\ Running(s) => Left(step[s]) < Left(s)
  BY StepCloser
<1>3. \E f : Is(f, 0)
  <2>1. \A s \in S : ~ (Running(s) /\ Left(s) <= 0)
    <3> HIDE DEF Left
    <3> QED BY <1>1, <1>2
  <2>2. Is([s \in S |-> s], 0)
    <3> HIDE DEF Left
    <3> QED BY <2>1
  <2>3. QED BY <2>2
<1>4. ASSUME NEW n \in Nat, \E f : Is(f, n) PROVE \E f : Is(f, n + 1)
  <2>1. PICK f : Is(f, n)
    BY <1>4
  <2> DEFINE g == [s \in S |-> IF Running(s) /\ Left(s) = n + 1 THEN f[step[s]] ELSE f[s]]
  <2> HIDE DEF Left
  <2>2. ASSUME NEW s \in S
        PROVE  g[s] = IF Running(s) /\ Left(s) <= n + 1 THEN g[step[s]] ELSE s
    <3>1. f[s] = IF Running(s) /\ Left(s) <= n THEN f[step[s]] ELSE s
      BY <2>1
    <3>2. step[s] \in S /\ Left(s) \in Nat /\ Left(step[s]) \in Nat
      BY <1>1, <1>2
    <3>3. Running(s) /\ Left(s) <= n + 1 => g[step[s]] = f[step[s]]
      BY <1>2, <3>2
    <3>4. QED BY <3>1, <3>2, <3>3
  <2>3. Is(g, n + 1)
    BY <2>2
  <2>4. QED BY <2>3
<1>5. T = {}
  <2>1. ASSUME T # {} PROVE FALSE
    <3> HIDE DEF Is
    <3>1. PICK n \in T : \A k \in T : n <= k
      <4>1. T \in SUBSET Nat
        BY <1>1
      <4> HIDE DEF T
      <4>2. QED BY <2>1, <4>1, LeastNumber
    <3>2. n \in 0 .. bound + 2 /\ (~ \E f : Is(f, n)) /\ n # 0
      BY <1>3, <3>1, Zenon
    <3>3. n - 1 \in 0 .. bound + 2 /\ n - 1 \in Nat /\ (n - 1) + 1 = n /\ ~ (n <= n - 1)
      BY <1>1, <3>2
    <3>4. \E f : Is(f, n - 1)
      BY <3>1, <3>3, Zenon
    <3>5. \E f : Is(f, (n - 1) + 1)
      BY <1>4, <3>3, <3>4, Zenon
    <3>6. QED BY <3>2, <3>3, <3>5
  <2>2. QED BY <2>1
<1>6. PICK f : Is(f, bound + 2)
  <2> HIDE DEF Is
  <2> QED BY <1>1, <1>5
<1>7. \A s \in S : Left(s) <= bound + 2
  BY <1>1, <1>2
<1>8. IsLoop(f, S, step)
  <2> HIDE DEF Left
  <2> QED BY <1>6, <1>7 DEF IsLoop
<1>9. QED BY <1>8

(* Where two loops end: related, if their steps keep the relation, and one  *)
(* may be at its end before the other.                                      *)
Keeps(R, S, step, S2, step2, run2) ==
  \A s \in S, t \in S2 : <<s, t>> \in R =>
    /\ Running(s) /\ Running(t) => <<step[s], step2[t]>> \in R
    /\ Running(s) /\ ~ Running(t) => <<step[s], t>> \in R
    /\ ~ Running(s) /\ Running(t) => <<s, run2[t]>> \in R

(* Two loops started in a relation that their steps keep end in it.         *)
LEMMA LoopsAlike ==
  ASSUME NEW S, NEW step, NEW m, NEW bound, MovesOn(S, step, m, bound),
         NEW run, IsLoop(run, S, step),
         NEW S2, NEW step2 \in [S2 -> S2], NEW run2, IsLoop(run2, S2, step2),
         NEW R \in SUBSET (S \X S2), Keeps(R, S, step, S2, step2, run2),
         NEW s0 \in S, NEW t0 \in S2, <<s0, t0>> \in R
  PROVE  <<run[s0], run2[t0]>> \in R
<1> DEFINE Left(s) == StepsLeft(s, m, bound)
           Bad(s, t) == <<s, t>> \in R /\ <<run[s], run2[t]>> \notin R
           T == {n \in Nat : \E s \in S, t \in S2 : Left(s) = n /\ Bad(s, t)}
<1>1. \A s \in S : /\ Left(s) \in Nat /\ step[s] \in S
                   /\ Running(s) => Left(step[s]) < Left(s)
  <2>1. bound \in Nat
    BY DEF MovesOn
  <2>2. QED BY <2>1, StepCloser
<1> HIDE DEF Left
<1>2. ASSUME NEW s \in S, NEW t \in S2, Bad(s, t)
      PROVE  \E s1 \in S, t1 \in S2 : Left(s1) < Left(s) /\ Bad(s1, t1)
  <2>1. /\ run[s] = IF Running(s) THEN run[step[s]] ELSE s
        /\ run2[t] = IF Running(t) THEN run2[step2[t]] ELSE t
    BY DEF IsLoop
  <2>2. step[s] \in S /\ step2[t] \in S2
    BY <1>1
  <2>3. CASE Running(s) /\ Running(t)
    BY <1>1, <1>2, <2>1, <2>2, <2>3 DEF Keeps
  <2>4. CASE Running(s) /\ ~ Running(t)
    BY <1>1, <1>2, <2>1, <2>2, <2>4 DEF Keeps
  <2>5. CASE ~ Running(s)
    BY <1>2, <2>1, <2>5 DEF Keeps
  <2>6. QED BY <2>3, <2>4, <2>5
<1>3. T = {}
  <2>1. ASSUME T # {} PROVE FALSE
    <3>1. PICK n \in T : \A k \in T : n <= k
      BY <2>1, LeastNumber
    <3>2. PICK s \in S, t \in S2 : Left(s) = n /\ Bad(s, t)
      OBVIOUS
    <3> HIDE DEF Bad
    <3>3. PICK s1 \in S, t1 \in S2 : Left(s1) < Left(s) /\ Bad(s1, t1)
      BY <1>2, <3>2
    <3>4. Left(s1) \in T
      BY <1>1, <3>3
    <3>5. QED BY <1>1, <3>1, <3>2, <3>3, <3>4
  <2>2. QED BY <2>1
<1>4. ~ Bad(s0, t0)
  BY <1>1, <1>3
<1>5. QED BY <1>4

(* A loop ends at its end, and what its steps keep holds there.             *)
LEMMA LoopEnds ==
  ASSUME NEW S, NEW step, NEW m, NEW bound, MovesOn(S, step, m, bound),
         NEW run, IsLoop(run, S, step),
         NEW J \in SUBSET S, \A s \in J : Running(s) => step[s] \in J,
         NEW s0 \in J
  PROVE  run[s0] \in J /\ ~ Running(run[s0])
<1> DEFINE Left(s) == StepsLeft(s, m, bound)
           Bad(s) == s \in J /\ ~ (run[s] \in J /\ ~ Running(run[s]))
           T == {n \in Nat : \E s \in J : Left(s) = n /\ Bad(s)}
<1>1. \A s \in S : /\ Left(s) \in Nat /\ step[s] \in S
                   /\ Running(s) => Left(step[s]) < Left(s)
  <2>1. bound \in Nat
    BY DEF MovesOn
  <2>2. QED BY <2>1, StepCloser
<1> HIDE DEF Left
<1>2. ASSUME NEW s \in J, Bad(s)
      PROVE  \E s1 \in J : Left(s1) < Left(s) /\ Bad(s1)
  <2>1. s \in S /\ run[s] = IF Running(s) THEN run[step[s]] ELSE s
    BY DEF IsLoop
  <2>2. QED BY <1>1, <1>2, <2>1
<1>3. T = {}
  <2>1. ASSUME T # {} PROVE FALSE
    <3>1. PICK n \in T : \A k \in T : n <= k
      BY <2>1, LeastNumber
    <3>2. PICK s \in J : Left(s) = n /\ Bad(s)
      OBVIOUS
    <3> HIDE DEF Bad
    <3>3. PICK s1 \in J : Left(s1) < Left(s) /\ Bad(s1)
      BY <1>2, <3>2
    <3>4. Left(s1) \in T
      BY <1>1, <3>3
    <3>5. QED BY <1>1, <3>1, <3>2, <3>3, <3>4
  <2>2. QED BY <2>1
<1>4. ~ Bad(s0)
  BY <1>1, <1>3
<1>5. QED BY <1>4

-----------------------------------------------------------------------------
(* Bytes, and a file with more of them.                                     *)

Begins(d, e) ==
  /\ d \in Seq(Nat) /\ e \in Seq(Nat) /\ Len(d) <= Len(e)
  /\ \A i \in 1 .. Len(d) : e[i] = d[i]

(* A byte of the data is there, and is a number.                            *)
LEMMA BytesOf ==
  ASSUME NEW d \in Seq(Nat), NEW p \in Nat
  PROVE  /\ Len(d) \in Nat
         /\ Has(d, p, 1) <=> p < Len(d)
         /\ p < Len(d) => Byte(d, p) \in Nat
BY DEF Has, Byte

(* A byte of a window is the same in a longer one.                          *)
LEMMA SameBytes ==
  ASSUME NEW d, NEW e, Begins(d, e), NEW p \in Nat
  PROVE  /\ Len(d) \in Nat /\ Len(e) \in Nat /\ Len(d) <= Len(e)
         /\ p < Len(d) => Byte(d, p) \in Nat /\ Byte(e, p) = Byte(d, p)
BY DEF Begins, Byte

LEMMA DoneIs ==
  ASSUME NEW p \in Nat, NEW n \in Nat, NEW b, b = Done(p, n)
  PROVE  b \in Answers /\ b.error = "none" /\ b.used = p /\ b.size = n
BY DEF Done, Answers, Errors

LEMMA GoingIs ==
  ASSUME NEW p \in Nat, NEW n \in Nat, NEW b, b = Going(p, n)
  PROVE  b \in Answers /\ b.error = "going" /\ b.used = p /\ b.size = n
BY DEF Going, Answers, Errors

LEMMA FailIs ==
  ASSUME NEW x \in Errors \ {"going", "none"}, NEW b, b = Fail(x)
  PROVE  b \in Answers /\ b.error = x /\ b.used = 0 /\ b.size = 0 /\ ~ Running(b) /\ ~ Ok(b)
BY DEF Fail, Answers, Running, Ok

-----------------------------------------------------------------------------
(* The loops of decoders, over states S of which m says how many bytes are  *)
(* behind them: steps go forward in a file of n bytes.                      *)

Forward(a, b, m, n) ==
  /\ Running(b) => m[a] < m[b] /\ m[b] <= n
  /\ Ok(b) => m[a] <= m[b] /\ (m[b] <= n \/ m[b] = m[a])

Stepping(step, S, m, n) ==
  /\ step = [a \in S |-> step[a]] /\ m \in [S -> Nat]
  /\ \A a \in S : step[a] \in S /\ Forward(a, step[a], m, n)

(* A state a in a file of n bytes and a state b in a longer one: the same,  *)
(* or a, in W, waits for more, and b, if it is not an error, is past them.  *)
Past(b, m, n) == Running(b) \/ Ok(b) => m[b] > n
Alike(a, b, m, n, W) == a = b \/ (a \in W /\ Past(b, m, n))

(* A loop that goes forward in the data comes to an end.                    *)
LEMMA SteppingMoves ==
  ASSUME NEW n \in Nat, NEW S, NEW m, NEW step, Stepping(step, S, m, n)
  PROVE  MovesOn(S, step, m, n)
<1>1. step = [a \in S |-> step[a]] /\ m \in [S -> Nat]
  BY Zenon DEF Stepping
<1>2. \A a \in S : step[a] \in S /\ Forward(a, step[a], m, n)
  BY Zenon DEF Stepping
<1>3. step \in [S -> S]
  BY <1>1, <1>2
<1>4. \A a \in S : Running(step[a]) => m[a] < m[step[a]] /\ m[step[a]] <= n
  BY <1>2, Zenon DEF Forward
<1>5. QED BY <1>1, <1>3, <1>4 DEF MovesOn

(* Where a decoder ends: at its start or after it, and in the file.         *)
LEMMA SteppingEnds ==
  ASSUME NEW n \in Nat, NEW S, NEW m, NEW step, Stepping(step, S, m, n),
         NEW run, IsLoop(run, S, step), NEW a \in S, Running(a), m[a] <= n
  PROVE  /\ run[a] \in S /\ ~ Running(run[a])
         /\ Ok(run[a]) => m[a] <= m[run[a]] /\ m[run[a]] <= n
<1> DEFINE J == {c \in S : Running(c) \/ Ok(c) => m[a] <= m[c] /\ m[c] <= n}
<1>1. \A c \in S : m[c] \in Nat /\ step[c] \in S /\ Forward(c, step[c], m, n)
  BY DEF Stepping
<1>2. J \in SUBSET S /\ a \in J
  BY <1>1
<1>3. ASSUME NEW c \in J, Running(c) PROVE step[c] \in J
  <2>1. c \in S /\ m[a] <= m[c] /\ m[c] <= n
    BY <1>3
  <2>2. step[c] \in S /\ m[c] \in Nat /\ m[a] \in Nat /\ m[step[c]] \in Nat
    BY <1>1, <2>1
  <2>3. Forward(c, step[c], m, n)
    BY <1>1, <2>1
  <2>4. Running(step[c]) => m[a] <= m[step[c]] /\ m[step[c]] <= n
    BY <2>1, <2>2, <2>3 DEF Forward
  <2>5. Ok(step[c]) => m[a] <= m[step[c]] /\ m[step[c]] <= n
    BY <2>1, <2>2, <2>3 DEF Forward
  <2>6. QED BY <2>2, <2>4, <2>5
<1> HIDE DEF J
<1>4. MovesOn(S, step, m, n)
  BY SteppingMoves
<1>5. run[a] \in J /\ ~ Running(run[a])
  BY <1>2, <1>3, <1>4, LoopEnds
<1>6. QED BY <1>5 DEF J

(* A decoder answers alike in a file and in a longer one if its steps do.   *)
LEMMA SteppingAlike ==
  ASSUME NEW n \in Nat, NEW n2 \in Nat, NEW S, NEW m,
         NEW step, Stepping(step, S, m, n), NEW step2, Stepping(step2, S, m, n2),
         NEW W, \A a \in W : ~ Running(a),
         \A a \in S : Running(a) => Alike(step[a], step2[a], m, n, W),
         NEW run, IsLoop(run, S, step), NEW run2, IsLoop(run2, S, step2),
         NEW a \in S
  PROVE  Alike(run[a], run2[a], m, n, W)
<1> DEFINE R == {z \in S \X S : Alike(z[2], z[1], m, n, W)}
<1>1. \A s \in S, t \in S : <<s, t>> \in R <=> Alike(t, s, m, n, W)
  OBVIOUS
<1>2. R \in SUBSET (S \X S)
  OBVIOUS
<1> HIDE DEF R
<1>3. ASSUME NEW s \in S, NEW t \in S, <<s, t>> \in R
      PROVE  /\ Running(s) /\ Running(t) => <<step2[s], step[t]>> \in R
             /\ Running(s) /\ ~ Running(t) => <<step2[s], t>> \in R
             /\ ~ Running(s) /\ Running(t) => <<s, run[t]>> \in R
  <2>1. /\ m[s] \in Nat /\ step2[s] \in S /\ m[step2[s]] \in Nat
        /\ Forward(s, step2[s], m, n2)
    BY DEF Stepping
  <2>2. step[t] \in S
    BY DEF Stepping
  <2>3. Alike(t, s, m, n, W)
    BY <1>1, <1>3
  <2>4. CASE s = t
    BY <1>1, <1>3, <2>1, <2>2, <2>4
  <2>5. CASE t \in W /\ Past(s, m, n)
    <3>1. ~ Running(t)
      BY <2>5
    <3>2. ASSUME Running(s) PROVE Alike(t, step2[s], m, n, W)
      <4>1. m[s] > n
        BY <2>5, <3>2 DEF Past
      <4>2. Running(step2[s]) \/ Ok(step2[s]) => m[step2[s]] > n
        BY <2>1, <4>1 DEF Forward
      <4>3. QED BY <2>5, <4>2, Zenon DEF Alike, Past
    <3>3. QED BY <1>1, <2>1, <3>1, <3>2
  <2>6. QED BY <2>3, <2>4, <2>5 DEF Alike
<1>4. <<a, a>> \in R
  BY <1>1 DEF Alike
<1>5. step \in [S -> S]
  BY SteppingMoves, Zenon DEF MovesOn
<1>6. MovesOn(S, step2, m, n2)
  BY SteppingMoves
<1>7. <<run2[a], run[a]>> \in R
  <2>1. Keeps(R, S, step2, S, step, run)
    BY <1>3, Zenon DEF Keeps
  <2>2. QED BY <1>2, <1>4, <1>5, <1>6, <2>1, LoopsAlike
<1>8. run[a] \in S /\ run2[a] \in S
  BY <1>2, <1>7
<1>9. QED BY <1>1, <1>7, <1>8

-----------------------------------------------------------------------------
(* Inflating.                                                               *)

Used == [a \in Answers |-> a.used]
Waits == {a \in Answers : a.error = "Truncated"}

LEMMA UsedIs ==
  /\ Used \in [Answers -> Nat] /\ \A a \in Answers : Used[a] = a.used
  /\ \A a \in Waits : ~ Running(a)
BY DEF Used, Waits, Answers, Running

InflateSteps(d, max) == [a \in Answers |-> InflateStep(d, a, max)]

(* One step: at the end of the data, at a byte, and what it makes of it.    *)
LEMMA InflateStepIs ==
  ASSUME NEW d \in Seq(Nat), NEW max \in Nat, NEW a \in Answers,
         NEW b, b = InflateStep(d, a, max)
  PROVE  /\ b \in Answers
         /\ Running(b) \/ Ok(b) => b.used = a.used + 1 /\ b.used <= Len(d)
         /\ a.size <= max => b.size <= max
<1>1. a.used \in Nat /\ a.size \in Nat
  BY DEF Answers
<1>2. CASE ~ Has(d, a.used, 1)
  <2>1. b = Fail("Truncated")
    BY <1>2 DEF InflateStep
  <2>2. b \in Answers /\ b.error = "Truncated" /\ b.size = 0
    BY <2>1, FailIs DEF Errors
  <2>3. QED BY <1>1, <2>2 DEF Running, Ok
<1>3. CASE Has(d, a.used, 1)
  <2> DEFINE p == a.used + 1
             x == Byte(d, a.used)
             n == a.size + x
  <2>1. p \in Nat /\ p <= Len(d) /\ x \in Nat /\ n \in Nat /\ p = a.used + 1
    BY <1>1, <1>3, BytesOf, SMTT(30)
  <2>2. b = CASE x = 0 -> Done(p, a.size)
              [] x = 3 -> Fail("InvalidData")
              [] OTHER -> IF n > max THEN Fail("TooLarge") ELSE Going(p, n)
    BY <1>3 DEF InflateStep
  <2> HIDE DEF p, x, n
  <2>3. CASE x = 0
    <3>1. b = Done(p, a.size)
      BY <2>2, <2>3
    <3>2. b \in Answers /\ b.used = p /\ b.size = a.size
      BY <1>1, <2>1, <3>1, DoneIs
    <3>3. QED BY <2>1, <3>2
  <2>4. CASE x = 3 \/ (x # 0 /\ x # 3 /\ n > max)
    <3>1. b = Fail("InvalidData") \/ b = Fail("TooLarge")
      BY <2>2, <2>4
    <3>2. b \in Answers /\ ~ Running(b) /\ ~ Ok(b) /\ b.size = 0
      BY <3>1, FailIs DEF Errors
    <3>3. QED BY <1>1, <3>2
  <2>5. CASE x # 0 /\ x # 3 /\ ~ (n > max)
    <3>1. b = Going(p, n)
      BY <2>2, <2>5
    <3>2. b \in Answers /\ b.used = p /\ b.size = n
      BY <2>1, <3>1, GoingIs
    <3>3. n <= max
      BY <2>1, <2>5
    <3>4. QED BY <2>1, <3>2, <3>3
  <2>6. QED BY <2>3, <2>4, <2>5
<1>4. QED BY <1>2, <1>3

(* Inflating goes forward in the data.                                      *)
LEMMA InflateForward ==
  ASSUME NEW d \in Seq(Nat), NEW max \in Nat
  PROVE  Stepping(InflateSteps(d, max), Answers, Used, Len(d))
<1> DEFINE step == InflateSteps(d, max)
<1>1. \A a \in Answers : step[a] = InflateStep(d, a, max)
  BY DEF InflateSteps
<1>2. step = [a \in Answers |-> step[a]]
  BY DEF InflateSteps
<1> HIDE DEF step
<1>3. ASSUME NEW a \in Answers PROVE step[a] \in Answers /\ Forward(a, step[a], Used, Len(d))
  <2>1. step[a] \in Answers /\ (Running(step[a]) \/ Ok(step[a]) => step[a].used = a.used + 1 /\ step[a].used <= Len(d))
    BY <1>1, InflateStepIs
  <2>2. a.used \in Nat /\ Used[a] = a.used /\ Used[step[a]] = step[a].used
    BY <2>1, UsedIs DEF Answers
  <2>3. QED BY <2>1, <2>2 DEF Forward
<1>4. Stepping(step, Answers, Used, Len(d))
  BY <1>2, <1>3, UsedIs, Zenon DEF Stepping
<1>5. QED BY <1>4 DEF step

LEMMA InflateLoops ==
  ASSUME NEW d \in Seq(Nat), NEW max \in Nat
  PROVE  IsLoop(Inflate(d, max), Answers, InflateSteps(d, max))
<1>1. \E run : IsLoop(run, Answers, InflateSteps(d, max))
  BY InflateForward, SteppingMoves, LoopExists, BytesOf
<1>2. QED BY <1>1, ZenonT(40) DEF Inflate, Loop, IsLoop, InflateSteps

(* An inflated body ends behind where it began and inside the data, and its *)
(* output is within the limit; it does not begin with a block type that is  *)
(* not one.                                                                 *)
LEMMA InflateAnswers ==
  ASSUME NEW d \in Seq(Nat), NEW max \in Nat, NEW p \in Nat, p <= Len(d),
         NEW b, b = Inflate(d, max)[Going(p, 0)]
  PROVE  /\ b \in Answers /\ ~ Running(b) /\ b.size <= max
         /\ Ok(b) => p < b.used /\ b.used <= Len(d) /\ Byte(d, p) # 3
<1> DEFINE a == Going(p, 0)
           run == Inflate(d, max)
           step == InflateSteps(d, max)
           J == {c \in Answers : c.size <= max}
<1>1. a \in Answers /\ Running(a) /\ a.used = p /\ a.size = 0 /\ Len(d) \in Nat
  BY GoingIs, BytesOf DEF Running
<1>2. \A c \in Answers : step[c] = InflateStep(d, c, max)
  BY DEF InflateSteps
<1>3. Stepping(step, Answers, Used, Len(d)) /\ IsLoop(run, Answers, step)
  BY InflateForward, InflateLoops
<1>4. step[a] = InflateStep(d, a, max)
  BY <1>1, <1>2
<1> HIDE DEF a, run, step
<1>5. b = run[a]
  BY DEF a, run
<1>6. J \in SUBSET Answers /\ a \in J /\ \A c \in J : Running(c) => step[c] \in J
  <2>1. ASSUME NEW c \in J PROVE step[c] \in J
    BY <1>2, InflateStepIs
  <2>2. QED BY <1>1, <2>1
<1> HIDE DEF J
<1>7. b \in J /\ ~ Running(b)
  BY <1>1, <1>3, <1>5, <1>6, SteppingMoves, LoopEnds
<1>8. step[a] \in Answers /\ b = run[step[a]]
  BY <1>1, <1>3, <1>5, <1>6, InflateStepIs, <1>4 DEF IsLoop
<1>9. Ok(b) => Running(step[a]) \/ Ok(step[a])
  BY <1>3, <1>8 DEF IsLoop
<1>10. ASSUME Ok(b) PROVE p < b.used /\ b.used <= Len(d)
  <2>1. step[a].used = p + 1 /\ step[a].used <= Len(d)
    BY <1>1, <1>4, <1>9, <1>10, InflateStepIs
  <2>2. CASE Running(step[a])
    <3>1. Used[step[a]] <= Used[b] /\ Used[b] <= Len(d)
      BY <1>1, <1>3, <1>8, <1>10, <2>1, <2>2, SteppingEnds, UsedIs
    <3>2. b \in Answers /\ Used[b] = b.used /\ Used[step[a]] = step[a].used
      BY <1>6, <1>7, <1>8, UsedIs
    <3>3. b.used \in Nat
      BY <3>2 DEF Answers
    <3>4. QED BY <2>1, <3>1, <3>2, <3>3
  <2>3. CASE ~ Running(step[a])
    <3>1. b = step[a]
      BY <1>3, <1>8, <2>3 DEF IsLoop
    <3>2. QED BY <2>1, <3>1
  <2>4. QED BY <2>2, <2>3
<1>11. ASSUME Ok(b) PROVE Byte(d, p) # 3
  <2>1. ASSUME Byte(d, p) = 3 PROVE FALSE
    <3>1. step[a] = Fail("Truncated") \/ step[a] = Fail("InvalidData")
      BY <1>1, <1>4, <2>1 DEF InflateStep
    <3>2. ~ Running(step[a]) /\ ~ Ok(step[a])
      BY <3>1, FailIs DEF Errors
    <3>3. QED BY <1>9, <1>11, <3>2
  <2>2. QED BY <2>1
<1>12. QED BY <1>6, <1>7, <1>10, <1>11 DEF J

(* A longer window inflates to the same, or the shorter one ran out.        *)
LEMMA InflateAlike ==
  ASSUME NEW d, NEW e, Begins(d, e), NEW max \in Nat, NEW a \in Answers
  PROVE  Alike(Inflate(d, max)[a], Inflate(e, max)[a], Used, Len(d), Waits)
<1>1. d \in Seq(Nat) /\ e \in Seq(Nat) /\ Len(d) \in Nat /\ Len(e) \in Nat
  BY DEF Begins
<1>2. ASSUME NEW s \in Answers
      PROVE  Alike(InflateSteps(d, max)[s], InflateSteps(e, max)[s], Used, Len(d), Waits)
  <2> DEFINE b == InflateStep(d, s, max)
             c == InflateStep(e, s, max)
  <2>1. b = InflateSteps(d, max)[s] /\ c = InflateSteps(e, max)[s] /\ s.used \in Nat
    BY DEF InflateSteps, Answers
  <2>2. CASE ~ Has(d, s.used, 1)
    <3>1. b = Fail("Truncated")
      BY <2>2 DEF InflateStep
    <3>2. b \in Waits
      BY <3>1, FailIs DEF Waits, Errors
    <3>3. ~ (s.used < Len(d))
      BY <1>1, <2>1, <2>2, BytesOf
    <3> HIDE DEF b, c
    <3>4. c \in Answers /\ (Running(c) \/ Ok(c) => c.used = s.used + 1)
      BY <1>1, InflateStepIs DEF c
    <3>5. Past(c, Used, Len(d))
      BY <1>1, <2>1, <3>3, <3>4, UsedIs DEF Past
    <3>6. QED BY <2>1, <3>2, <3>5 DEF Alike
  <2>3. CASE Has(d, s.used, 1)
    <3>1. s.used < Len(d) /\ Has(e, s.used, 1) /\ Byte(e, s.used) = Byte(d, s.used)
      BY <1>1, <2>1, <2>3, SameBytes, SMTT(30) DEF Has
    <3>2. b = c
      BY <2>3, <3>1 DEF InflateStep
    <3> HIDE DEF b, c
    <3>3. QED BY <2>1, <3>2 DEF Alike
  <2>4. QED BY <2>2, <2>3
<1>3. /\ Stepping(InflateSteps(d, max), Answers, Used, Len(d)) /\ IsLoop(Inflate(d, max), Answers, InflateSteps(d, max))
      /\ Stepping(InflateSteps(e, max), Answers, Used, Len(e)) /\ IsLoop(Inflate(e, max), Answers, InflateSteps(e, max))
  BY <1>1, InflateForward, InflateLoops
<1>4. QED BY <1>1, <1>2, <1>3, UsedIs, SteppingAlike

-----------------------------------------------------------------------------
(* A body and the check of its output; zlib streams.                        *)

(* The answer to a file of n bytes and the answer to a longer one.          *)
Waited(a, b, n) == a = b \/ (a.error = "Truncated" /\ (Ok(b) => b.used > n))

BodyIs(d, p, max, body) ==
  IF ~ Ok(body) THEN body
  ELSE IF ~ Has(d, body.used, 1) THEN Fail("Truncated")
  ELSE IF Byte(d, body.used) # body.size % Checks THEN Fail("ChecksumMismatch")
  ELSE Done(body.used + 1, body.size)

LEMMA BodyEnds ==
  ASSUME NEW d \in Seq(Nat), NEW max \in Nat, NEW p \in Nat,
         NEW body \in Answers, NEW b, b = BodyIs(d, p, max, body),
         ~ Running(body), body.size <= max
  PROVE  /\ b \in Answers /\ ~ Running(b) /\ b.size <= max
         /\ Ok(b) => Ok(body) /\ b.used = body.used + 1 /\ b.used <= Len(d)
<1>1. body.used \in Nat /\ body.size \in Nat
  BY DEF Answers
<1>2. CASE ~ Ok(body)
  BY <1>2 DEF BodyIs
<1>3. CASE Ok(body) /\ Has(d, body.used, 1) /\ Byte(d, body.used) = body.size % Checks
  <2> DEFINE q == body.used + 1
  <2>1. q \in Nat /\ q = body.used + 1 /\ q <= Len(d)
    BY <1>1, <1>3, BytesOf
  <2>2. b = Done(q, body.size)
    BY <1>3 DEF BodyIs
  <2> HIDE DEF q
  <2>3. b \in Answers /\ b.error = "none" /\ b.used = q /\ b.size = body.size
    BY <1>1, <2>1, <2>2, DoneIs, SMTT(30)
  <2>4. QED BY <1>3, <2>1, <2>3 DEF Running
<1>4. CASE Ok(body) /\ ~ (Has(d, body.used, 1) /\ Byte(d, body.used) = body.size % Checks)
  <2>1. b = Fail("Truncated") \/ b = Fail("ChecksumMismatch")
    BY <1>4 DEF BodyIs
  <2>2. QED BY <2>1, FailIs DEF Errors
<1>5. QED BY <1>2, <1>3, <1>4

(* A body and its trailer take more than one byte, and all are there.       *)
LEMMA BodyAnswers ==
  ASSUME NEW d \in Seq(Nat), NEW max \in Nat, NEW p \in Nat, p <= Len(d),
         NEW b, b = BodyAndTrailer(d, p, max)
  PROVE  /\ b \in Answers /\ ~ Running(b) /\ b.size <= max
         /\ Ok(b) => p + 1 < b.used /\ b.used <= Len(d) /\ Byte(d, p) # 3
<1> DEFINE body == Inflate(d, max)[Going(p, 0)]
<1>1. /\ body \in Answers /\ ~ Running(body) /\ body.size <= max
      /\ Ok(body) => p < body.used /\ body.used <= Len(d) /\ Byte(d, p) # 3
  BY InflateAnswers
<1>2. b = BodyIs(d, p, max, body)
  BY DEF BodyAndTrailer, BodyIs
<1> HIDE DEF body
<1>3. /\ b \in Answers /\ ~ Running(b) /\ b.size <= max
      /\ Ok(b) => Ok(body) /\ b.used = body.used + 1 /\ b.used <= Len(d)
  BY <1>1, <1>2, BodyEnds
<1>4. body.used \in Nat
  BY <1>1 DEF Answers
<1>5. QED BY <1>1, <1>3, <1>4

(* A longer window gives the same body and trailer, or the shorter one ran  *)
(* out.                                                                     *)
LEMMA BodyWaits ==
  ASSUME NEW d, NEW e, Begins(d, e), NEW max \in Nat, NEW p \in Nat, p <= Len(d)
  PROVE  Waited(BodyAndTrailer(d, p, max), BodyAndTrailer(e, p, max), Len(d))
<1> DEFINE x == Inflate(d, max)[Going(p, 0)]
           y == Inflate(e, max)[Going(p, 0)]
           b == BodyIs(d, p, max, x)
           c == BodyIs(e, p, max, y)
<1>1. d \in Seq(Nat) /\ e \in Seq(Nat) /\ Len(d) \in Nat /\ Len(e) \in Nat /\ p <= Len(e)
  BY DEF Begins
<1>2. Going(p, 0) \in Answers
  BY GoingIs
<1>3. Alike(x, y, Used, Len(d), Waits)
  BY <1>2, InflateAlike
<1>4. /\ x \in Answers /\ ~ Running(x) /\ x.size <= max
      /\ y \in Answers /\ ~ Running(y) /\ y.size <= max
  BY <1>1, InflateAnswers
<1>5. b = BodyAndTrailer(d, p, max) /\ c = BodyAndTrailer(e, p, max)
  BY DEF BodyAndTrailer, BodyIs
<1> HIDE DEF x, y
<1>6. Ok(c) => Ok(y) /\ c.used = y.used + 1
  BY <1>1, <1>4, BodyEnds
<1>7. x.used \in Nat /\ y.used \in Nat /\ Used[y] = y.used
  BY <1>4, UsedIs DEF Answers
<1>8. CASE x = y /\ Ok(x) /\ ~ Has(d, x.used, 1)
  <2>1. b.error = "Truncated"
    BY <1>8, FailIs DEF BodyIs, Errors
  <2> HIDE DEF b, c
  <2>2. ~ (x.used < Len(d))
    BY <1>1, <1>7, <1>8, BytesOf
  <2>3. QED BY <1>1, <1>5, <1>6, <1>7, <1>8, <2>1, <2>2 DEF Waited
<1>9. CASE x = y /\ ~ (Ok(x) /\ ~ Has(d, x.used, 1))
  <2>1. Ok(x) => Has(e, x.used, 1) /\ Byte(e, x.used) = Byte(d, x.used)
    BY <1>1, <1>7, <1>9, BytesOf, SameBytes
  <2>2. b = c
    BY <1>9, <2>1 DEF BodyIs
  <2> HIDE DEF b, c
  <2>3. QED BY <1>5, <2>2 DEF Waited
<1>10. CASE x \in Waits /\ Past(y, Used, Len(d))
  <2>1. x.error = "Truncated" /\ b = x
    BY <1>10 DEF Waits, Ok, BodyIs
  <2> HIDE DEF b, c
  <2>2. Ok(c) => c.used > Len(d)
    BY <1>1, <1>6, <1>7, <1>10 DEF Past
  <2>3. QED BY <1>5, <2>1, <2>2 DEF Waited
<1>11. QED BY <1>3, <1>8, <1>9, <1>10 DEF Alike

(* A zlib stream has a byte at least, fits the data and the limit, and      *)
(* passes the probe.                                                        *)
LEMMA ZlibAnswers ==
  ASSUME NEW d \in Seq(Nat), NEW max \in Nat, NEW b, b = ZlibDecode(d, max)
  PROVE  /\ b \in Answers /\ ~ Running(b) /\ b.size <= max
         /\ Ok(b) => b.used \in 1 .. Len(d) /\ ZlibProbe(d)
<1>1. CASE ~ ZlibHeader(d)
  BY <1>1, FailIs DEF ZlibDecode, Errors
<1>2. CASE ZlibHeader(d)
  <2>1. 1 <= Len(d) /\ Len(d) \in Nat
    BY <1>2, BytesOf DEF ZlibHeader, Has
  <2>2. b = BodyAndTrailer(d, 1, max)
    BY <1>2 DEF ZlibDecode
  <2>3. /\ b \in Answers /\ ~ Running(b) /\ b.size <= max
        /\ Ok(b) => 1 + 1 < b.used /\ b.used <= Len(d) /\ Byte(d, 1) # 3
    BY <2>1, <2>2, BodyAnswers
  <2>4. b.used \in Nat
    BY <2>3 DEF Answers
  <2>5. Ok(b) => b.used \in 1 .. Len(d) /\ Has(d, 1, 1) /\ Byte(d, 1) # 3
    BY <2>1, <2>3, <2>4 DEF Has
  <2>6. QED BY <1>2, <2>3, <2>5 DEF ZlibProbe
<1>3. QED BY <1>1, <1>2

(* A longer window gives the same zlib stream, or the shorter one ran out.  *)
LEMMA ZlibWaits ==
  ASSUME NEW d, NEW e, Begins(d, e), NEW max \in Nat, Len(d) > 0
  PROVE  Waited(ZlibDecode(d, max), ZlibDecode(e, max), Len(d))
<1>1. ZlibHeader(d) <=> ZlibHeader(e)
  BY SameBytes DEF ZlibHeader, Has
<1>2. Len(d) \in Nat
  BY DEF Begins
<1>3. QED BY <1>1, <1>2, BodyWaits DEF ZlibDecode, Waited

-----------------------------------------------------------------------------
(* The header of a gzip member: its parts one after the other.              *)

IsHead(h) ==
  \/ h = At(h.pos) /\ h.pos \in Nat
  \/ h = Fail(h.error) /\ h.error \in Errors \ {"going", "none"}

(* What of a header is read in n bytes, and in more.                        *)
HeadWaits(a, b, n) == a = b \/ (a = Fail("Truncated") /\ (Ok(b) => b.pos > n))

LEMMA AtIs ==
  ASSUME NEW p \in Nat, NEW h, h = At(p)
  PROVE  IsHead(h) /\ h.error = "none" /\ h.pos = p /\ Ok(h)
BY DEF At, IsHead, Ok

LEMMA FailIsHead ==
  ASSUME NEW x \in Errors \ {"going", "none"}, NEW h, h = Fail(x)
  PROVE  IsHead(h) /\ ~ Ok(h)
BY FailIs DEF IsHead

Nuls(d, pos) == {p \in pos .. Len(d) - 1 : p < pos + MaxCstr /\ Byte(d, p) = 0}
FirstNul(d, pos) == CHOOSE p \in Nuls(d, pos) : \A q \in Nuls(d, pos) : p <= q

(* The first NUL is one, and no other is before it.                         *)
LEMMA FirstNulIs ==
  ASSUME NEW d \in Seq(Nat), NEW pos \in Nat, Nuls(d, pos) # {}
  PROVE  /\ FirstNul(d, pos) \in Nuls(d, pos)
         /\ \A q \in Nuls(d, pos) : FirstNul(d, pos) <= q
<1>1. Nuls(d, pos) \in SUBSET Nat
  BY DEF Nuls
<1>2. \E p \in Nuls(d, pos) : \A q \in Nuls(d, pos) : p <= q
  BY <1>1, LeastNumber
<1>3. QED BY <1>2, Zenon DEF FirstNul

LEMMA CstrAt ==
  ASSUME NEW d \in Seq(Nat), NEW pos \in Nat, pos <= Len(d), Nuls(d, pos) # {},
         NEW b, b = Cstr(d, pos)
  PROVE  b = At(FirstNul(d, pos) + 1)
<1>1. Len(d) \in Nat
  BY BytesOf
<1> DEFINE q == FirstNul(d, pos) + 1
<1>2. b = At(q)
  BY <1>1 DEF Cstr, Nuls, FirstNul
<1>3. QED BY <1>2

(* A name ends behind where it begins.                                      *)
LEMMA CstrIs ==
  ASSUME NEW d \in Seq(Nat), NEW pos \in Nat, NEW b, b = Cstr(d, pos)
  PROVE  IsHead(b) /\ (Ok(b) => b.pos > pos)
<1>1. Len(d) \in Nat
  BY BytesOf
<1>2. CASE pos <= Len(d) /\ Nuls(d, pos) # {}
  <2> DEFINE q == FirstNul(d, pos) + 1
  <2>1. b = At(q)
    BY <1>2, CstrAt
  <2>2. FirstNul(d, pos) \in Nuls(d, pos)
    BY <1>2, FirstNulIs
  <2>3. q \in Nat /\ q > pos
    BY <1>1, <2>2 DEF Nuls
  <2> HIDE DEF q
  <2>4. QED BY <2>1, <2>3, AtIs
<1>3. CASE ~ (pos <= Len(d) /\ Nuls(d, pos) # {})
  <2>1. b = Fail("Truncated") \/ b = Fail("BadHeader")
    BY <1>1, <1>3 DEF Cstr, Nuls
  <2>2. QED BY <2>1, FailIsHead DEF Errors
<1>4. QED BY <1>2, <1>3

(* A longer window gives the same name: a window that ends within the       *)
(* longest name ran out.                                                    *)
LEMMA CstrWaits ==
  ASSUME NEW d, NEW e, Begins(d, e), NEW pos \in Nat
  PROVE  HeadWaits(Cstr(d, pos), Cstr(e, pos), Len(d))
<1>1. d \in Seq(Nat) /\ e \in Seq(Nat) /\ Len(d) \in Nat /\ Len(e) \in Nat /\ Len(d) <= Len(e)
  BY DEF Begins
<1>2. MaxCstr \in Nat
  BY DeflatedAssumption
<1>3. \A p \in Nat : p \in Nuls(d, pos) <=> p \in Nuls(e, pos) /\ p < Len(d)
  BY <1>1, <1>2, SameBytes DEF Nuls
<1>4. \A p \in Nuls(e, pos) : p \in Nat /\ p >= pos /\ p < pos + MaxCstr
  BY <1>1 DEF Nuls
<1>5. CASE pos > Len(d)
  <2>1. Cstr(d, pos) = Fail("Truncated")
    BY <1>1, <1>5 DEF Cstr, Nuls
  <2>2. Ok(Cstr(e, pos)) => Cstr(e, pos).pos > Len(d)
    <3>1. IsHead(Cstr(e, pos)) /\ (Ok(Cstr(e, pos)) => Cstr(e, pos).pos > pos)
      BY <1>1, CstrIs
    <3>2. Ok(Cstr(e, pos)) => Cstr(e, pos).pos \in Nat
      BY <3>1, FailIsHead DEF IsHead
    <3>3. QED BY <1>1, <1>5, <3>1, <3>2
  <2>3. QED BY <2>1, <2>2 DEF HeadWaits
<1>6. CASE pos <= Len(d) /\ Nuls(d, pos) # {}
  <2>1. Nuls(d, pos) \in SUBSET Nuls(e, pos) /\ Nuls(e, pos) # {}
    <3>1. Nuls(d, pos) \in SUBSET Nat
      BY <1>1 DEF Nuls
    <3>2. QED BY <1>3, <1>6, <3>1
  <2> DEFINE x == FirstNul(d, pos)
             y == FirstNul(e, pos)
  <2>2. /\ x \in Nuls(d, pos) /\ \A q \in Nuls(d, pos) : x <= q
        /\ y \in Nuls(e, pos) /\ \A q \in Nuls(e, pos) : y <= q
    BY <1>1, <1>6, <2>1, FirstNulIs
  <2> HIDE DEF x, y
  <2>3. x \in Nat /\ y \in Nat /\ y <= x /\ x < Len(d)
    BY <1>3, <1>4, <2>1, <2>2
  <2>4. y \in Nuls(d, pos)
    BY <1>1, <1>3, <2>2, <2>3
  <2>5. x = y
    BY <2>2, <2>3, <2>4
  <2>6. pos <= Len(e) /\ Cstr(d, pos) = At(x + 1) /\ Cstr(e, pos) = At(y + 1)
    BY <1>1, <1>6, <2>1, CstrAt DEF x, y
  <2>7. QED BY <2>5, <2>6 DEF HeadWaits
<1>7. CASE pos <= Len(d) /\ Nuls(d, pos) = {} /\ Has(d, pos, MaxCstr)
  <2>1. Nuls(e, pos) = {}
    BY <1>1, <1>2, <1>3, <1>4, <1>7 DEF Has
  <2>2. Has(e, pos, MaxCstr) /\ pos <= Len(e)
    BY <1>1, <1>2, <1>7 DEF Has
  <2>3. Cstr(d, pos) = Fail("BadHeader") /\ Cstr(e, pos) = Fail("BadHeader")
    BY <1>1, <1>7, <2>1, <2>2 DEF Cstr, Nuls
  <2>4. QED BY <2>3 DEF HeadWaits
<1>8. CASE pos <= Len(d) /\ Nuls(d, pos) = {} /\ ~ Has(d, pos, MaxCstr)
  <2>1. Cstr(d, pos) = Fail("Truncated")
    BY <1>1, <1>8 DEF Cstr, Nuls
  <2>2. ASSUME Ok(Cstr(e, pos)) PROVE Cstr(e, pos).pos > Len(d)
    <3>1. Nuls(e, pos) # {} /\ pos <= Len(e)
      <4>1. ASSUME ~ (Nuls(e, pos) # {} /\ pos <= Len(e)) PROVE FALSE
        <5>1. Cstr(e, pos) = Fail("Truncated") \/ Cstr(e, pos) = Fail("BadHeader")
          BY <1>1, <4>1 DEF Cstr, Nuls
        <5>2. QED BY <2>2, <5>1, FailIsHead DEF Errors
      <4>2. QED BY <4>1
    <3> DEFINE y == FirstNul(e, pos)
    <3>2. Cstr(e, pos) = At(y + 1)
      BY <1>1, <3>1, CstrAt
    <3>3. y \in Nuls(e, pos)
      BY <1>1, <3>1, FirstNulIs
    <3> HIDE DEF y
    <3>4. y \in Nat /\ ~ (y < Len(d))
      BY <1>3, <1>4, <1>8, <3>3
    <3>5. y + 1 \in Nat /\ y + 1 > Len(d)
      BY <1>1, <3>4
    <3>6. QED BY <3>2, <3>5, AtIs
  <2>3. QED BY <2>1, <2>2 DEF HeadWaits
<1>9. QED BY <1>1, <1>5, <1>6, <1>7, <1>8

LEMMA ExtraIs ==
  ASSUME NEW d \in Seq(Nat), NEW at, at.pos \in Nat, NEW b, b = Extra(d, at)
  PROVE  IsHead(b) /\ (Ok(b) => b.pos > at.pos)
<1>1. CASE ~ Has(d, at.pos, 1)
  BY <1>1, FailIsHead DEF Extra, Errors
<1>2. CASE Has(d, at.pos, 1)
  <2> DEFINE q == at.pos + 1 + Byte(d, at.pos)
  <2>1. q \in Nat /\ q > at.pos
    BY <1>2, BytesOf
  <2>2. b = At(q)
    BY <1>2 DEF Extra
  <2> HIDE DEF q
  <2>3. QED BY <2>1, <2>2, AtIs
<1>3. QED BY <1>1, <1>2

LEMMA HeaderCheckIs ==
  ASSUME NEW d \in Seq(Nat), NEW at, at.pos \in Nat, NEW b, b = HeaderCheck(d, at)
  PROVE  IsHead(b) /\ (Ok(b) => b.pos > at.pos /\ b.pos <= Len(d))
<1>1. CASE ~ Has(d, at.pos, 1) \/ Byte(d, at.pos) # at.pos % Checks
  <2>1. b = Fail("Truncated") \/ b = Fail("BadHeader")
    BY <1>1 DEF HeaderCheck
  <2>2. QED BY <2>1, FailIsHead DEF Errors
<1>2. CASE Has(d, at.pos, 1) /\ Byte(d, at.pos) = at.pos % Checks
  <2> DEFINE q == at.pos + 1
  <2>1. q \in Nat /\ q > at.pos /\ q <= Len(d)
    BY <1>2, BytesOf
  <2>2. b = At(q)
    BY <1>2 DEF HeaderCheck
  <2> HIDE DEF q
  <2>3. QED BY <2>1, <2>2, AtIs
<1>3. QED BY <1>1, <1>2

(* Each part starts where the one before it ended, and is read alike.       *)
LEMMA PartIs ==
  ASSUME NEW d \in Seq(Nat), NEW f \in {2, 4, 8, 16}, NEW at, IsHead(at), Ok(at),
         NEW b, b = Part(f, d, at)
  PROVE  at.pos \in Nat /\ IsHead(b) /\ (Ok(b) => b.pos > at.pos)
<1>1. at.pos \in Nat
  BY FailIsHead DEF IsHead
<1>2. CASE f = 4
  BY <1>1, <1>2, ExtraIs DEF Part
<1>3. CASE f = 8 \/ f = 16
  <2>1. b = Cstr(d, at.pos)
    BY <1>3 DEF Part
  <2>2. QED BY <1>1, <2>1, CstrIs
<1>4. CASE f = 2
  <2>1. b = HeaderCheck(d, at)
    BY <1>4 DEF Part
  <2>2. QED BY <1>1, <2>1, HeaderCheckIs
<1>5. QED BY <1>2, <1>3, <1>4

(* A longer window gives the same optional part, or the shorter one ran     *)
(* out.                                                                     *)
LEMMA PartWaits ==
  ASSUME NEW d, NEW e, Begins(d, e), NEW f \in {2, 4, 8, 16}, NEW at, IsHead(at), Ok(at)
  PROVE  HeadWaits(Part(f, d, at), Part(f, e, at), Len(d))
<1>1. at.pos \in Nat /\ d \in Seq(Nat) /\ e \in Seq(Nat) /\ Len(d) \in Nat
  BY FailIsHead DEF IsHead, Begins
<1>2. CASE f = 8 \/ f = 16
  <2>1. Part(f, d, at) = Cstr(d, at.pos) /\ Part(f, e, at) = Cstr(e, at.pos)
    BY <1>2 DEF Part
  <2>2. QED BY <1>1, <2>1, CstrWaits
<1>3. CASE (f = 4 \/ f = 2) /\ ~ Has(d, at.pos, 1)
  <2>1. Part(f, d, at) = Fail("Truncated")
    BY <1>3 DEF Part, Extra, HeaderCheck
  <2>2. IsHead(Part(f, e, at)) /\ (Ok(Part(f, e, at)) => Part(f, e, at).pos > at.pos)
    BY <1>1, PartIs
  <2>3. Ok(Part(f, e, at)) => Part(f, e, at).pos \in Nat
    BY <2>2, FailIsHead DEF IsHead
  <2>4. ~ (at.pos < Len(d))
    BY <1>1, <1>3, BytesOf
  <2>5. QED BY <1>1, <2>1, <2>2, <2>3, <2>4 DEF HeadWaits
<1>4. CASE (f = 4 \/ f = 2) /\ Has(d, at.pos, 1)
  <2>1. Has(e, at.pos, 1) /\ Byte(e, at.pos) = Byte(d, at.pos)
    BY <1>1, <1>4, BytesOf, SameBytes
  <2>2. Part(f, d, at) = Part(f, e, at)
    BY <1>4, <2>1 DEF Part, Extra, HeaderCheck
  <2>3. QED BY <2>2 DEF HeadWaits
<1>5. QED BY <1>2, <1>3, <1>4

(* An optional part begins where the one before it ended.                   *)
LEMMA IfFlaggedIs ==
  ASSUME NEW d \in Seq(Nat), NEW f \in {2, 4, 8, 16}, NEW at, IsHead(at),
         NEW b, b = IfFlagged(f, d, at)
  PROVE  IsHead(b) /\ (Ok(b) => Ok(at) /\ at.pos \in Nat /\ b.pos \in Nat /\ b.pos >= at.pos)
<1>1. CASE Ok(at) /\ HasFlag(Byte(d, 1), f)
  <2>1. b = Part(f, d, at)
    BY <1>1 DEF IfFlagged
  <2>2. at.pos \in Nat /\ IsHead(b) /\ (Ok(b) => b.pos > at.pos)
    BY <1>1, <2>1, PartIs
  <2>3. Ok(b) => b.pos \in Nat
    BY <2>2, FailIsHead DEF IsHead
  <2>4. QED BY <1>1, <2>2, <2>3
<1>2. CASE ~ (Ok(at) /\ HasFlag(Byte(d, 1), f))
  <2>1. b = at
    BY <1>2 DEF IfFlagged
  <2>2. Ok(b) => b.pos \in Nat
    BY <2>1, FailIsHead DEF IsHead
  <2>3. QED BY <2>1, <2>2
<1>3. QED BY <1>1, <1>2

(* If the parts before it are the same or ran out, so with this one.        *)
LEMMA IfFlaggedWaits ==
  ASSUME NEW d, NEW e, Begins(d, e), Len(d) >= 2, NEW f \in {2, 4, 8, 16},
         NEW a, IsHead(a), NEW c, IsHead(c), HeadWaits(a, c, Len(d))
  PROVE  HeadWaits(IfFlagged(f, d, a), IfFlagged(f, e, c), Len(d))
<1>1. d \in Seq(Nat) /\ e \in Seq(Nat) /\ Len(d) \in Nat
  BY DEF Begins
<1>2. Byte(e, 1) = Byte(d, 1)
  BY <1>1, SameBytes
<1>3. CASE a = c
  BY <1>2, <1>3, PartWaits DEF IfFlagged, HeadWaits
<1>4. CASE a = Fail("Truncated") /\ (Ok(c) => c.pos > Len(d))
  <2>1. IfFlagged(f, d, a) = a
    BY <1>4, FailIs DEF IfFlagged, Errors
  <2> DEFINE b == IfFlagged(f, e, c)
  <2>2. Ok(b) => Ok(c) /\ c.pos \in Nat /\ b.pos \in Nat /\ b.pos >= c.pos
    BY <1>1, IfFlaggedIs
  <2> HIDE DEF b
  <2>3. Ok(b) => b.pos > Len(d)
    BY <1>1, <1>4, <2>2
  <2>4. HeadWaits(IfFlagged(f, d, a), b, Len(d))
    BY <1>4, <2>1, <2>3 DEF HeadWaits
  <2>5. QED BY <2>4 DEF b
<1>5. QED BY <1>3, <1>4 DEF HeadWaits

(* The optional parts end behind the fixed header.                          *)
LEMMA PartsAre ==
  ASSUME NEW d \in Seq(Nat)
  PROVE  IsHead(Parts(d)) /\ (Ok(Parts(d)) => Parts(d).pos \in Nat /\ Parts(d).pos >= FixedHeader)
<1> DEFINE a == At(FixedHeader)
           b == IfFlagged(4, d, a)
           c == IfFlagged(8, d, b)
           g == IfFlagged(16, d, c)
<1>1. IsHead(a) /\ a.pos = FixedHeader
  BY AtIs DEF FixedHeader
<1>2. Parts(d) = IfFlagged(2, d, g)
  BY DEF Parts
<1> HIDE DEF a
<1>3. IsHead(b) /\ (Ok(b) => Ok(a) /\ a.pos \in Nat /\ b.pos \in Nat /\ b.pos >= a.pos)
  BY <1>1, IfFlaggedIs
<1> HIDE DEF b
<1>4. IsHead(c) /\ (Ok(c) => Ok(b) /\ b.pos \in Nat /\ c.pos \in Nat /\ c.pos >= b.pos)
  BY <1>3, IfFlaggedIs
<1> HIDE DEF c
<1>5. IsHead(g) /\ (Ok(g) => Ok(c) /\ c.pos \in Nat /\ g.pos \in Nat /\ g.pos >= c.pos)
  BY <1>4, IfFlaggedIs
<1> HIDE DEF g
<1>6. IsHead(Parts(d)) /\ (Ok(Parts(d)) => Ok(g) /\ g.pos \in Nat /\ Parts(d).pos \in Nat /\ Parts(d).pos >= g.pos)
  BY <1>2, <1>5, IfFlaggedIs
<1>7. FixedHeader \in Nat
  BY DEF FixedHeader
<1>8. QED BY <1>1, <1>3, <1>4, <1>5, <1>6, <1>7

(* A longer window gives the same optional parts, or the shorter one ran    *)
(* out.                                                                     *)
LEMMA PartsWait ==
  ASSUME NEW d, NEW e, Begins(d, e), Len(d) >= 2
  PROVE  HeadWaits(Parts(d), Parts(e), Len(d))
<1> DEFINE a == At(FixedHeader)
           b(x) == IfFlagged(4, x, a)
           c(x) == IfFlagged(8, x, b(x))
           g(x) == IfFlagged(16, x, c(x))
<1>1. d \in Seq(Nat) /\ e \in Seq(Nat)
  BY DEF Begins
<1>2. IsHead(a) /\ HeadWaits(a, a, Len(d))
  BY AtIs DEF FixedHeader, HeadWaits
<1>3. Parts(d) = IfFlagged(2, d, g(d)) /\ Parts(e) = IfFlagged(2, e, g(e))
  BY DEF Parts
<1> HIDE DEF a
<1>4. IsHead(b(d)) /\ IsHead(b(e)) /\ HeadWaits(b(d), b(e), Len(d))
  BY <1>1, <1>2, IfFlaggedIs, IfFlaggedWaits
<1> HIDE DEF b
<1>5. IsHead(c(d)) /\ IsHead(c(e)) /\ HeadWaits(c(d), c(e), Len(d))
  BY <1>1, <1>4, IfFlaggedIs, IfFlaggedWaits
<1> HIDE DEF c
<1>6. IsHead(g(d)) /\ IsHead(g(e)) /\ HeadWaits(g(d), g(e), Len(d))
  BY <1>1, <1>5, IfFlaggedIs, IfFlaggedWaits
<1> HIDE DEF g
<1>7. QED BY <1>3, <1>6, IfFlaggedWaits

(* A gzip header is inside the data and passes the probe.                   *)
LEMMA GzipHeaderIs ==
  ASSUME NEW d \in Seq(Nat), NEW h, h = GzipHeader(d)
  PROVE  /\ IsHead(h)
         /\ Ok(h) => h.pos \in Nat /\ FixedHeader <= h.pos /\ h.pos <= Len(d) /\ GzipProbe(d)
<1> DEFINE end == Parts(d)
<1>1. IsHead(end) /\ (Ok(end) => end.pos \in Nat /\ end.pos >= FixedHeader)
  BY PartsAre
<1>2. Len(d) \in Nat /\ FixedHeader \in Nat
  BY BytesOf DEF FixedHeader
<1>3. h = IF ~ Has(d, 0, 1) \/ Byte(d, 0) # GzipMagic THEN Fail("BadHeader")
          ELSE IF ~ Has(d, 0, 2) THEN Fail("Truncated")
          ELSE IF HasFlag(Byte(d, 1), 32) THEN Fail("BadHeader")
          ELSE IF ~ Has(d, 0, FixedHeader) THEN Fail("Truncated")
          ELSE IF Ok(end) /\ end.pos > Len(d) THEN Fail("Truncated")
          ELSE end
  BY DEF GzipHeader
<1> HIDE DEF end
<1>4. CASE h = Fail("Truncated") \/ h = Fail("BadHeader")
  BY <1>4, FailIsHead DEF Errors
<1>5. CASE h # Fail("Truncated") /\ h # Fail("BadHeader")
  <2>1. /\ h = end /\ ~ (Ok(end) /\ end.pos > Len(d)) /\ Has(d, 0, FixedHeader)
        /\ Byte(d, 0) = GzipMagic /\ ~ HasFlag(Byte(d, 1), 32)
    BY <1>3, <1>5
  <2>2. Len(d) >= FixedHeader
    BY <1>2, <2>1 DEF Has
  <2>3. Ok(h) => h.pos <= Len(d)
    BY <1>1, <1>2, <2>1
  <2>4. QED BY <1>1, <1>2, <2>1, <2>2, <2>3 DEF GzipProbe
<1>6. QED BY <1>4, <1>5

(* A longer window gives the same gzip header, or the shorter one ran out.  *)
LEMMA GzipHeaderWaits ==
  ASSUME NEW d, NEW e, Begins(d, e), Len(d) > 0
  PROVE  HeadWaits(GzipHeader(d), GzipHeader(e), Len(d))
<1>1. d \in Seq(Nat) /\ e \in Seq(Nat) /\ Len(d) \in Nat /\ Len(e) \in Nat /\ Len(d) <= Len(e)
  BY DEF Begins
<1>2. Has(d, 0, 1) /\ Has(e, 0, 1) /\ Byte(e, 0) = Byte(d, 0)
  BY <1>1, SameBytes DEF Has
<1> DEFINE x == GzipHeader(d)
           y == GzipHeader(e)
<1>3. Ok(y) => y.pos \in Nat /\ 3 <= y.pos /\ y.pos <= Len(e)
  BY <1>1, GzipHeaderIs DEF FixedHeader
<1>4. CASE Byte(d, 0) # GzipMagic
  <2>1. x = Fail("BadHeader") /\ y = Fail("BadHeader")
    BY <1>2, <1>4 DEF GzipHeader
  <2>2. QED BY <2>1 DEF HeadWaits
<1>5. CASE Byte(d, 0) = GzipMagic /\ ~ Has(d, 0, 2)
  <2>1. x = Fail("Truncated")
    BY <1>2, <1>5 DEF GzipHeader
  <2>2. Len(d) < 3
    BY <1>1, <1>5 DEF Has
  <2> HIDE DEF x, y
  <2>3. HeadWaits(x, y, Len(d))
    BY <1>1, <1>3, <2>1, <2>2 DEF HeadWaits
  <2>4. QED BY <2>3 DEF x, y
<1>6. CASE Byte(d, 0) = GzipMagic /\ Has(d, 0, 2)
  <2>1. Len(d) >= 2 /\ Has(e, 0, 2) /\ Byte(e, 1) = Byte(d, 1)
    BY <1>1, <1>6, SameBytes DEF Has
  <2>2. CASE HasFlag(Byte(d, 1), 32)
    <3>1. x = Fail("BadHeader") /\ y = Fail("BadHeader")
      BY <1>2, <1>6, <2>1, <2>2 DEF GzipHeader
    <3>2. QED BY <3>1 DEF HeadWaits
  <2>3. CASE ~ HasFlag(Byte(d, 1), 32) /\ ~ Has(d, 0, FixedHeader)
    <3>1. x = Fail("Truncated")
      BY <1>2, <1>6, <2>3 DEF GzipHeader
    <3>2. Len(d) < 3
      BY <1>1, <2>3 DEF Has, FixedHeader
    <3> HIDE DEF x, y
    <3>3. HeadWaits(x, y, Len(d))
      BY <1>1, <1>3, <3>1, <3>2 DEF HeadWaits
    <3>4. QED BY <3>3 DEF x, y
  <2>4. CASE ~ HasFlag(Byte(d, 1), 32) /\ Has(d, 0, FixedHeader)
    <3> DEFINE p == Parts(d)
               q == Parts(e)
    <3>1. Has(e, 0, FixedHeader)
      BY <1>1, <2>4 DEF Has, FixedHeader
    <3>2. /\ x = IF Ok(p) /\ p.pos > Len(d) THEN Fail("Truncated") ELSE p
          /\ y = IF Ok(q) /\ q.pos > Len(e) THEN Fail("Truncated") ELSE q
      BY <1>2, <1>6, <2>1, <2>4, <3>1 DEF GzipHeader
    <3>3. /\ IsHead(p) /\ (Ok(p) => p.pos \in Nat)
          /\ IsHead(q) /\ (Ok(q) => q.pos \in Nat)
      BY <1>1, PartsAre
    <3>4. HeadWaits(p, q, Len(d))
      BY <2>1, PartsWait
    <3>5. ~ Ok(Fail("Truncated"))
      BY FailIs DEF Errors
    <3> HIDE DEF p, q, x, y
    <3>6. HeadWaits(x, y, Len(d))
      BY <1>1, <3>2, <3>3, <3>4, <3>5 DEF HeadWaits
    <3>7. QED BY <3>6 DEF x, y
  <2>5. QED BY <2>2, <2>3, <2>4
<1>7. QED BY <1>4, <1>5, <1>6

(* A gzip member has a byte at least, fits the data and the limit, and      *)
(* passes the probe.                                                        *)
LEMMA GzipAnswers ==
  ASSUME NEW d \in Seq(Nat), NEW max \in Nat, NEW b, b = GzipDecode(d, max)
  PROVE  /\ b \in Answers /\ ~ Running(b) /\ b.size <= max
         /\ Ok(b) => b.used \in 1 .. Len(d) /\ GzipProbe(d)
<1> DEFINE h == GzipHeader(d)
<1>1. /\ IsHead(h)
      /\ Ok(h) => h.pos \in Nat /\ FixedHeader <= h.pos /\ h.pos <= Len(d) /\ GzipProbe(d)
  BY GzipHeaderIs
<1>2. b = IF ~ Ok(h) THEN h ELSE BodyAndTrailer(d, h.pos, max)
  BY DEF GzipDecode
<1> HIDE DEF h
<1>3. CASE ~ Ok(h)
  <2>1. h = Fail(h.error) /\ h.error \in Errors \ {"going", "none"}
    BY <1>1, <1>3, AtIs DEF IsHead
  <2>2. h \in Answers /\ h.size = 0 /\ ~ Running(h)
    BY <2>1, FailIs
  <2>3. QED BY <1>2, <1>3, <2>2
<1>4. CASE Ok(h)
  <2>1. /\ b \in Answers /\ ~ Running(b) /\ b.size <= max
        /\ Ok(b) => h.pos + 1 < b.used /\ b.used <= Len(d)
    BY <1>1, <1>2, <1>4, BodyAnswers
  <2>2. b.used \in Nat /\ Len(d) \in Nat
    BY <2>1, BytesOf DEF Answers
  <2>3. QED BY <1>1, <1>4, <2>1, <2>2
<1>5. QED BY <1>3, <1>4

(* A longer window gives the same gzip member, or the shorter one ran out.  *)
LEMMA GzipWaits ==
  ASSUME NEW d, NEW e, Begins(d, e), NEW max \in Nat, Len(d) > 0
  PROVE  Waited(GzipDecode(d, max), GzipDecode(e, max), Len(d))
<1> DEFINE h == GzipHeader(d)
           g == GzipHeader(e)
           b == GzipDecode(d, max)
           c == GzipDecode(e, max)
<1>1. d \in Seq(Nat) /\ e \in Seq(Nat) /\ Len(d) \in Nat
  BY DEF Begins
<1>2. HeadWaits(h, g, Len(d))
  BY GzipHeaderWaits
<1>3. /\ Ok(h) => h.pos \in Nat /\ h.pos <= Len(d)
      /\ Ok(g) => g.pos \in Nat /\ g.pos <= Len(e)
  BY <1>1, GzipHeaderIs
<1>4. /\ b = IF ~ Ok(h) THEN h ELSE BodyAndTrailer(d, h.pos, max)
      /\ c = IF ~ Ok(g) THEN g ELSE BodyAndTrailer(e, g.pos, max)
  BY DEF GzipDecode
<1> HIDE DEF h, g
<1>5. CASE h = g
  <2> HIDE DEF b, c
  <2>1. Waited(b, c, Len(d))
    BY <1>3, <1>4, <1>5, BodyWaits DEF Waited
  <2>2. QED BY <2>1 DEF b, c
<1>6. CASE h = Fail("Truncated") /\ (Ok(g) => g.pos > Len(d))
  <2>1. b = h /\ h.error = "Truncated"
    BY <1>4, <1>6, FailIs DEF Errors
  <2> HIDE DEF b, c
  <2>2. ASSUME Ok(c) PROVE c.used > Len(d)
    <3>1. Ok(g) /\ c = BodyAndTrailer(e, g.pos, max)
      BY <1>4, <2>2
    <3>2. c \in Answers /\ g.pos + 1 < c.used
      BY <1>1, <1>3, <2>2, <3>1, BodyAnswers
    <3>3. c.used \in Nat
      BY <3>2 DEF Answers
    <3>4. QED BY <1>1, <1>3, <1>6, <3>1, <3>2, <3>3
  <2>3. Waited(b, c, Len(d))
    BY <2>1, <2>2 DEF Waited
  <2>4. QED BY <2>3 DEF b, c
<1>7. QED BY <1>2, <1>5, <1>6 DEF HeadWaits

-----------------------------------------------------------------------------
(* LZ4 frames.                                                              *)

(* A checksum is over bytes that a longer window does not change.           *)
LEMMA SameSum ==
  ASSUME NEW d, NEW e, Begins(d, e), NEW from \in Nat, NEW to \in Nat, to <= Len(d)
  PROVE  SumOf(e, from, to) = SumOf(d, from, to)
<1> DEFINE a == SubSeq(e, from + 1, to)
           b == SubSeq(d, from + 1, to)
           n == IF from < to THEN to - from ELSE 0
<1>1. d \in Seq(Nat) /\ e \in Seq(Nat) /\ Len(d) \in Nat /\ Len(e) \in Nat /\ to <= Len(e)
  BY DEF Begins
<1>2. a \in Seq(Nat) /\ Len(a) = n
  BY <1>1
<1>3. b \in Seq(Nat) /\ Len(b) = n
  BY <1>1
<1>4. \A i \in 1 .. n : a[i] = e[from + i] /\ b[i] = d[from + i]
  BY <1>1
<1>5. \A i \in 1 .. n : e[from + i] = d[from + i]
  <2>1. \A i \in 1 .. n : from + i \in 1 .. Len(d)
    BY <1>1
  <2> HIDE DEF n
  <2>2. QED BY <2>1 DEF Begins
<1> HIDE DEF a, b, n
<1>6. a = b
  <2>1. Len(a) = Len(b) /\ \A i \in 1 .. Len(a) : a[i] = b[i]
    BY <1>2, <1>3, <1>4, <1>5
  <2>2. QED BY <1>2, <1>3, <2>1, SeqEqual
<1>7. QED BY <1>6 DEF SumOf, a, b

IsLz4Head(h) ==
  \/ /\ h.error = "none" /\ h.len \in {3, 4} /\ h.flags \in Nat
     /\ h.content \in Nat \cup {Unknown}
  \/ h = Fail(h.error) /\ h.error \in Errors \ {"going", "none"}

(* A frame descriptor is inside the data.                                   *)
LEMMA Lz4HeaderIs ==
  ASSUME NEW d \in Seq(Nat), NEW h, h = Lz4Header(d)
  PROVE  IsLz4Head(h) /\ (Ok(h) => h.len <= Len(d))
<1> DEFINE flags == Byte(d, 1)
           len == IF Flag(flags, 1) THEN 3 ELSE 2
           content == IF Flag(flags, 1) THEN Byte(d, 2) ELSE Unknown
<1>1. Len(d) \in Nat
  BY BytesOf
<1>2. h = IF ~ Has(d, 0, 1) \/ Byte(d, 0) # Lz4Magic THEN Fail("BadHeader")
          ELSE IF ~ Has(d, 0, 2) \/ ~ Has(d, 0, len + 1) THEN Fail("Truncated")
          ELSE IF SumOf(d, 1, len) # Byte(d, len) THEN Fail("BadHeader")
          ELSE [error |-> "none", len |-> len + 1, flags |-> flags, content |-> content]
  BY DEF Lz4Header
<1>3. CASE h = Fail("Truncated") \/ h = Fail("BadHeader")
  BY <1>3, FailIs DEF IsLz4Head, Errors
<1>4. CASE h # Fail("Truncated") /\ h # Fail("BadHeader")
  <2>1. /\ h = [error |-> "none", len |-> len + 1, flags |-> flags, content |-> content]
        /\ Has(d, 0, 2) /\ Has(d, 0, len + 1)
    BY <1>2, <1>4
  <2>2. flags \in Nat /\ Len(d) >= len + 1
    BY <1>1, <2>1, BytesOf DEF Has
  <2>3. len + 1 \in {3, 4} /\ content \in Nat \cup {Unknown}
    BY <1>1, <2>1, <2>2, BytesOf
  <2> HIDE DEF flags, len, content
  <2>4. h.error = "none" /\ h.len = len + 1 /\ h.flags = flags /\ h.content = content
    BY <2>1
  <2>5. QED BY <2>2, <2>3, <2>4 DEF IsLz4Head
<1>5. QED BY <1>3, <1>4

(* A longer window gives the same descriptor, or the shorter one ran out.   *)
LEMMA Lz4HeaderWaits ==
  ASSUME NEW d, NEW e, Begins(d, e), Len(d) > 0
  PROVE  \/ Lz4Header(d) = Lz4Header(e)
         \/ /\ Lz4Header(d) = Fail("Truncated")
            /\ Ok(Lz4Header(e)) => Lz4Header(e).len > Len(d)
<1>1. d \in Seq(Nat) /\ e \in Seq(Nat) /\ Len(d) \in Nat /\ Len(e) \in Nat /\ Len(d) <= Len(e)
  BY DEF Begins
<1>2. Has(d, 0, 1) /\ Has(e, 0, 1) /\ Byte(e, 0) = Byte(d, 0)
  BY <1>1, SameBytes DEF Has
<1> DEFINE x == Lz4Header(d)
           y == Lz4Header(e)
<1>3. CASE Byte(d, 0) # Lz4Magic
  BY <1>2, <1>3 DEF Lz4Header
<1>4. CASE Byte(d, 0) = Lz4Magic /\ ~ Has(d, 0, 2)
  <2>1. x = Fail("Truncated")
    BY <1>2, <1>4 DEF Lz4Header
  <2>2. IsLz4Head(y)
    BY <1>1, Lz4HeaderIs
  <2>3. ASSUME Ok(y) PROVE y.len > Len(d)
    <3>1. y.len \in {3, 4}
      BY <2>2, <2>3, FailIs DEF IsLz4Head, Ok
    <3>2. QED BY <1>1, <1>4, <3>1 DEF Has
  <2>4. QED BY <2>1, <2>3
<1>5. CASE Byte(d, 0) = Lz4Magic /\ Has(d, 0, 2)
  <2> DEFINE flags == Byte(d, 1)
             len == IF Flag(flags, 1) THEN 3 ELSE 2
  <2>1. Has(e, 0, 2) /\ Byte(e, 1) = flags /\ len \in {2, 3}
    BY <1>1, <1>5, SameBytes DEF Has
  <2>2. CASE Has(d, 0, len + 1)
    <3>1. Has(e, 0, len + 1) /\ Byte(e, len) = Byte(d, len) /\ SumOf(e, 1, len) = SumOf(d, 1, len)
      BY <1>1, <2>1, <2>2, SameBytes, SameSum, SMTT(30) DEF Has
    <3>2. Flag(flags, 1) => len = 3 /\ Byte(e, 2) = Byte(d, 2)
      BY <1>1, <2>1, <2>2, SameBytes DEF Has
    <3>3. QED BY <1>2, <1>5, <2>1, <2>2, <3>1, <3>2 DEF Lz4Header
  <2>3. CASE ~ Has(d, 0, len + 1)
    <3>1. x = Fail("Truncated")
      BY <1>2, <1>5, <2>3 DEF Lz4Header
    <3>2. ASSUME Ok(y) PROVE y.len = len + 1
      <4>1. y = Fail("Truncated") \/ y = Fail("BadHeader") \/ y.len = len + 1
        BY <1>2, <1>5, <2>1 DEF Lz4Header
      <4>2. QED BY <3>2, <4>1, FailIs DEF Errors
    <3> HIDE DEF x, y
    <3>3. Ok(y) => y.len > Len(d)
      BY <1>1, <2>1, <2>3, <3>2 DEF Has
    <3>4. QED BY <3>1, <3>3 DEF x, y
  <2>4. QED BY <2>2, <2>3
<1>6. QED BY <1>3, <1>4, <1>5

(* Where the end mark or the block at p ends, once all of it is there.      *)
MarkEnd(h, p) == IF Flag(h.flags, 4) THEN p + 2 ELSE p + 1
BlockEnd(d, h, p) ==
  IF Flag(h.flags, 2) THEN p + 1 + LengthOf(Byte(d, p)) + 1 ELSE p + 1 + LengthOf(Byte(d, p))

LEMMA LengthIs == \A x \in Nat : LengthOf(x) \in Nat
BY DEF LengthOf

(* What ends a frame says where it ends, or that the content size is wrong. *)
LEMMA EndsWithIs ==
  ASSUME NEW h, NEW n \in Nat, NEW p \in Nat, NEW b, b = EndsWith(h, n, p)
  PROVE  /\ b \in Answers /\ ~ Running(b)
         /\ b.size = 0 \/ b.size = n
         /\ Ok(b) => b.used = p /\ b.size = n
<1>1. CASE b = Fail("InvalidData")
  BY <1>1, FailIs DEF Errors
<1>2. CASE b = Done(p, n)
  BY <1>2, DoneIs DEF Running
<1>3. QED BY <1>1, <1>2 DEF EndsWith

(* A frame that is whole ends behind its end mark and its checksum.         *)
LEMMA TrailerIs ==
  ASSUME NEW d \in Seq(Nat), NEW h, NEW n \in Nat, NEW p \in Nat, p < Len(d),
         NEW b, b = Trailer(d, h, p + 1, n)
  PROVE  /\ b \in Answers /\ ~ Running(b)
         /\ b.size = 0 \/ b.size = n
         /\ Ok(b) => b.used = MarkEnd(h, p) /\ b.used <= Len(d)
<1> DEFINE q == p + 1
           r == p + 2
<1>1. Len(d) \in Nat /\ q \in Nat /\ r \in Nat /\ q <= Len(d) /\ r = q + 1
  BY BytesOf
<1>2. b = IF ~ Flag(h.flags, 4) THEN EndsWith(h, n, q)
          ELSE IF ~ Has(d, q, 1) THEN Fail("Truncated")
          ELSE IF Byte(d, q) # ContentCheck(n) THEN Fail("ChecksumMismatch")
          ELSE EndsWith(h, n, r)
  <2>1. q + 1 = r
    OBVIOUS
  <2> HIDE DEF r
  <2>2. QED BY <2>1 DEF Trailer
<1>3. MarkEnd(h, p) = IF Flag(h.flags, 4) THEN r ELSE q
  BY DEF MarkEnd
<1> HIDE DEF q, r
<1>4. CASE ~ Flag(h.flags, 4)
  BY <1>1, <1>2, <1>3, <1>4, EndsWithIs
<1>5. CASE Flag(h.flags, 4) /\ (b = Fail("Truncated") \/ b = Fail("ChecksumMismatch"))
  BY <1>5, FailIs DEF Errors
<1>6. CASE Flag(h.flags, 4) /\ ~ (b = Fail("Truncated") \/ b = Fail("ChecksumMismatch"))
  <2>1. b = EndsWith(h, n, r) /\ r <= Len(d)
    BY <1>1, <1>2, <1>6, BytesOf
  <2>2. QED BY <1>1, <1>3, <1>6, <2>1, EndsWithIs
<1>7. QED BY <1>4, <1>5, <1>6

(* A pass of the loop goes on behind the block, or ends behind the end      *)
(* mark.                                                                    *)
LEMMA BlockStepIs ==
  ASSUME NEW d \in Seq(Nat), NEW h, NEW max \in Nat, NEW a \in Answers,
         NEW b, b = BlockStep(d, h, a, max)
  PROVE  /\ b \in Answers
         /\ Running(b) \/ Ok(b) => a.used < Len(d)
         /\ Ok(b) => Byte(d, a.used) = 0 /\ b.used = MarkEnd(h, a.used) /\ b.used <= Len(d)
         /\ Running(b) => Byte(d, a.used) # 0 /\ b.used = BlockEnd(d, h, a.used) /\ b.used <= Len(d)
         /\ a.size <= max => b.size <= max
<1> DEFINE pos == a.used
           x == Byte(d, pos)
           len == LengthOf(x)
           end == pos + 1 + len
           checked == Flag(h.flags, 2)
           more == a.size + IF IsStored(x) THEN len ELSE 2 * len
           next == IF checked THEN end + 1 ELSE end
<1>1. pos \in Nat /\ a.size \in Nat /\ Len(d) \in Nat
  BY BytesOf DEF Answers
<1>2. CASE ~ Has(d, pos, 1)
  <2>1. b = Fail("Truncated")
    BY <1>2 DEF BlockStep
  <2>2. QED BY <1>1, <2>1, FailIs DEF Errors
<1>3. CASE Has(d, pos, 1) /\ x = 0
  <2>1. b = Trailer(d, h, pos + 1, a.size) /\ pos < Len(d)
    BY <1>1, <1>3, BytesOf DEF BlockStep
  <2>2. /\ b \in Answers /\ ~ Running(b)
        /\ b.size = 0 \/ b.size = a.size
        /\ Ok(b) => b.used = MarkEnd(h, pos) /\ b.used <= Len(d)
    BY <1>1, <2>1, TrailerIs
  <2>3. QED BY <1>1, <1>3, <2>1, <2>2
<1>4. CASE Has(d, pos, 1) /\ x # 0
  <2>1. b = IF len > BlockMax THEN Fail("InvalidData")
            ELSE IF ~ Has(d, pos + 1, len) THEN Fail("Truncated")
            ELSE IF checked /\ ~ Has(d, end, 1) THEN Fail("Truncated")
            ELSE IF checked /\ SumOf(d, pos + 1, end) # Byte(d, end) THEN Fail("ChecksumMismatch")
            ELSE IF more > max THEN Fail("TooLarge")
            ELSE Going(next, more)
    BY <1>4 DEF BlockStep
  <2>2. x \in Nat /\ pos < Len(d)
    BY <1>1, <1>4, BytesOf
  <2>3. len \in Nat
    BY <2>2, LengthIs
  <2>4. end \in Nat /\ more \in Nat /\ next \in Nat
    <3> HIDE DEF len
    <3>1. end \in Nat /\ 2 * len \in Nat
      BY <1>1, <2>3
    <3> HIDE DEF end
    <3>2. QED BY <1>1, <2>3, <3>1
  <2>5. next = BlockEnd(d, h, pos)
    BY DEF BlockEnd
  <2>6. CASE b \in {Fail("InvalidData"), Fail("Truncated"), Fail("ChecksumMismatch"), Fail("TooLarge")}
    BY <1>1, <2>6, FailIs DEF Errors
  <2>7. CASE b \notin {Fail("InvalidData"), Fail("Truncated"), Fail("ChecksumMismatch"), Fail("TooLarge")}
    <3>1. b = Going(next, more) /\ Has(d, pos + 1, len) /\ (checked => Has(d, end, 1)) /\ ~ (more > max)
      BY <2>1, <2>7
    <3>2. next <= Len(d)
      BY <1>1, <2>3, <2>4, <3>1 DEF Has
    <3> HIDE DEF next, more
    <3>3. b \in Answers /\ b.error = "going" /\ b.used = next /\ b.size = more
      BY <2>4, <3>1, GoingIs
    <3>4. Running(b) /\ ~ Ok(b) /\ more <= max
      BY <2>4, <3>1, <3>3 DEF Running, Ok
    <3>5. QED BY <1>4, <2>2, <2>5, <3>2, <3>3, <3>4
  <2>8. QED BY <2>6, <2>7
<1>5. QED BY <1>2, <1>3, <1>4

LEMMA BlockEndIs ==
  ASSUME NEW d \in Seq(Nat), NEW h, NEW p \in Nat, p < Len(d)
  PROVE  /\ BlockEnd(d, h, p) \in Nat /\ p < BlockEnd(d, h, p)
         /\ MarkEnd(h, p) \in Nat /\ p < MarkEnd(h, p)
<1> DEFINE len == LengthOf(Byte(d, p))
<1>1. Byte(d, p) \in Nat
  BY BytesOf
<1>2. len \in Nat
  BY <1>1, LengthIs
<1>3. BlockEnd(d, h, p) = IF Flag(h.flags, 2) THEN p + 1 + len + 1 ELSE p + 1 + len
  BY DEF BlockEnd
<1> HIDE DEF len
<1>4. QED BY <1>2, <1>3 DEF MarkEnd

BlockSteps(d, h, max) == [a \in Answers |-> BlockStep(d, h, a, max)]

(* Reading blocks goes forward in the data.                                 *)
LEMMA BlocksForward ==
  ASSUME NEW d \in Seq(Nat), NEW h, NEW max \in Nat
  PROVE  Stepping(BlockSteps(d, h, max), Answers, Used, Len(d))
<1> DEFINE step == BlockSteps(d, h, max)
<1>1. \A a \in Answers : step[a] = BlockStep(d, h, a, max)
  BY DEF BlockSteps
<1>2. step = [a \in Answers |-> step[a]]
  BY DEF BlockSteps
<1> HIDE DEF step
<1>3. ASSUME NEW a \in Answers PROVE step[a] \in Answers /\ Forward(a, step[a], Used, Len(d))
  <2>1. /\ step[a] \in Answers
        /\ Running(step[a]) \/ Ok(step[a]) => /\ a.used < Len(d)
                                              /\ step[a].used \in {MarkEnd(h, a.used), BlockEnd(d, h, a.used)}
                                              /\ step[a].used <= Len(d)
    BY <1>1, BlockStepIs
  <2>2. a.used \in Nat /\ Used[a] = a.used /\ Used[step[a]] = step[a].used
    BY <2>1, UsedIs DEF Answers
  <2>3. Running(step[a]) \/ Ok(step[a]) => a.used < step[a].used
    BY <2>1, <2>2, BlockEndIs
  <2>4. step[a].used \in Nat
    BY <2>1 DEF Answers
  <2>5. QED BY <2>1, <2>2, <2>3, <2>4 DEF Forward
<1>4. Stepping(step, Answers, Used, Len(d))
  BY <1>2, <1>3, UsedIs, Zenon DEF Stepping
<1>5. QED BY <1>4 DEF step

LEMMA BlocksLoop ==
  ASSUME NEW d \in Seq(Nat), NEW h, NEW max \in Nat
  PROVE  IsLoop(Blocks(d, h, max), Answers, BlockSteps(d, h, max))
<1>1. \E run : IsLoop(run, Answers, BlockSteps(d, h, max))
  BY BlocksForward, SteppingMoves, LoopExists, BytesOf
<1>2. QED BY <1>1, ZenonT(40) DEF Blocks, Loop, IsLoop, BlockSteps

(* The blocks of a frame end inside the data, with output within the limit. *)
LEMMA BlocksAnswer ==
  ASSUME NEW d \in Seq(Nat), NEW h, NEW max \in Nat, NEW p \in Nat, p <= Len(d),
         NEW b, b = Blocks(d, h, max)[Going(p, 0)]
  PROVE  /\ b \in Answers /\ ~ Running(b) /\ b.size <= max
         /\ Ok(b) => p <= b.used /\ b.used <= Len(d) /\ p < Len(d)
<1> DEFINE a == Going(p, 0)
           run == Blocks(d, h, max)
           step == BlockSteps(d, h, max)
           J == {c \in Answers : c.size <= max}
<1>1. a \in Answers /\ Running(a) /\ a.used = p /\ a.size = 0 /\ Len(d) \in Nat /\ Used[a] = p
  <2>1. a \in Answers /\ Running(a) /\ a.used = p /\ a.size = 0 /\ Len(d) \in Nat
    BY GoingIs, BytesOf DEF Running
  <2>2. QED BY <2>1, UsedIs, Zenon
<1>2. \A c \in Answers : step[c] = BlockStep(d, h, c, max)
  BY DEF BlockSteps
<1>3. Stepping(step, Answers, Used, Len(d)) /\ IsLoop(run, Answers, step)
  BY BlocksForward, BlocksLoop
<1>4. step[a] = BlockStep(d, h, a, max)
  BY <1>1, <1>2
<1> HIDE DEF a, run, step
<1>5. b = run[a]
  BY DEF a, run
<1>6. J \in SUBSET Answers /\ a \in J /\ \A c \in J : Running(c) => step[c] \in J
  <2>1. ASSUME NEW c \in J PROVE step[c] \in J
    BY <1>2, BlockStepIs
  <2>2. QED BY <1>1, <2>1
<1> HIDE DEF J
<1>7. b \in J
  BY <1>1, <1>3, <1>5, <1>6, SteppingMoves, LoopEnds
<1>8. b \in Answers /\ ~ Running(b) /\ (Ok(b) => Used[a] <= Used[b] /\ Used[b] <= Len(d))
  BY <1>1, <1>3, <1>5, SteppingEnds
<1>9. Used[b] = b.used
  BY <1>8, UsedIs
<1>10. Ok(b) => p < Len(d)
  <2>1. step[a] \in Answers /\ b = run[step[a]]
    BY <1>1, <1>3, <1>4, <1>5, BlockStepIs DEF IsLoop
  <2>2. Ok(b) => Running(step[a]) \/ Ok(step[a])
    BY <1>3, <2>1 DEF IsLoop
  <2>3. QED BY <1>1, <1>4, <2>2, BlockStepIs
<1>11. QED BY <1>1, <1>7, <1>8, <1>9, <1>10 DEF J

(* The data ends in a step that goes on, or in what follows the end mark.   *)
LEMMA BlockStepAlike ==
  ASSUME NEW d, NEW e, Begins(d, e), NEW h, NEW max \in Nat, NEW a \in Answers,
         NEW b, b = BlockStep(d, h, a, max), NEW c, c = BlockStep(e, h, a, max)
  PROVE  Alike(b, c, Used, Len(d), Waits)
<1> DEFINE pos == a.used
           x == Byte(d, pos)
           len == LengthOf(x)
           end == pos + 1 + len
           checked == Flag(h.flags, 2)
<1>1. /\ pos \in Nat /\ d \in Seq(Nat) /\ e \in Seq(Nat) /\ Len(d) \in Nat /\ Len(e) \in Nat
      /\ Len(d) <= Len(e)
  BY DEF Answers, Begins
<1>2. /\ c \in Answers
      /\ Ok(c) => pos < Len(e) /\ Byte(e, pos) = 0 /\ c.used = MarkEnd(h, pos)
      /\ Running(c) => pos < Len(e) /\ Byte(e, pos) # 0 /\ c.used = BlockEnd(e, h, pos)
  BY <1>1, BlockStepIs
<1>3. Used[c] = c.used
  BY <1>2, UsedIs
<1>4. ASSUME b = Fail("Truncated"), Running(c) \/ Ok(c) => c.used > Len(d)
      PROVE  Alike(b, c, Used, Len(d), Waits)
  <2>1. b \in Waits
    BY <1>4, FailIs DEF Waits, Errors
  <2>2. QED BY <1>3, <1>4, <2>1 DEF Alike, Past
<1>5. CASE ~ Has(d, pos, 1)
  <2>1. b = Fail("Truncated")
    BY <1>5 DEF BlockStep
  <2>2. ~ (pos < Len(d))
    BY <1>1, <1>5, BytesOf
  <2>3. Running(c) \/ Ok(c) => c.used > Len(d)
    BY <1>1, <1>2, <2>2, BlockEndIs
  <2>4. QED BY <1>4, <2>1, <2>3
<1>6. CASE Has(d, pos, 1)
  <2>1. pos < Len(d) /\ Has(e, pos, 1) /\ Byte(e, pos) = x /\ x \in Nat
    BY <1>1, <1>6, BytesOf, SameBytes
  <2>2. len \in Nat /\ end \in Nat
    <3>1. len \in Nat
      BY <2>1, LengthIs
    <3> HIDE DEF len
    <3>2. QED BY <1>1, <3>1
  <2>3. CASE x = 0
    <3>1. b = Trailer(d, h, pos + 1, a.size) /\ c = Trailer(e, h, pos + 1, a.size)
      BY <1>6, <2>1, <2>3 DEF BlockStep
    <3>2. CASE Flag(h.flags, 4) /\ ~ Has(d, pos + 1, 1)
      <4>1. b = Fail("Truncated")
        BY <3>1, <3>2 DEF Trailer
      <4>2. Running(c) \/ Ok(c) => c.used > Len(d)
        BY <1>1, <1>2, <2>1, <2>3, <3>2, SMTT(30) DEF MarkEnd, Has
      <4>3. QED BY <1>4, <4>1, <4>2
    <3>3. CASE ~ (Flag(h.flags, 4) /\ ~ Has(d, pos + 1, 1))
      <4>1. Flag(h.flags, 4) => Has(e, pos + 1, 1) /\ Byte(e, pos + 1) = Byte(d, pos + 1)
        <5>1. pos + 1 \in Nat
          BY <1>1
        <5>2. QED BY <1>1, <3>3, <5>1, BytesOf, SameBytes
      <4>2. b = c
        BY <3>1, <3>3, <4>1 DEF Trailer
      <4>3. QED BY <4>2 DEF Alike
    <3>4. QED BY <3>2, <3>3
  <2>4. CASE x # 0 /\ ~ (len > BlockMax) /\ (~ Has(d, pos + 1, len) \/ (checked /\ ~ Has(d, end, 1)))
    <3>1. b = Fail("Truncated")
      BY <1>6, <2>4 DEF BlockStep
    <3>2. BlockEnd(e, h, pos) = IF checked THEN end + 1 ELSE end
      BY <2>1 DEF BlockEnd
    <3> HIDE DEF len, checked
    <3>3. BlockEnd(e, h, pos) > Len(d)
      <4>1. end > Len(d) \/ (checked /\ end + 1 > Len(d))
        BY <1>1, <2>2, <2>4 DEF Has
      <4> HIDE DEF end
      <4>2. QED BY <1>1, <2>2, <3>2, <4>1
    <3>4. Running(c) \/ Ok(c) => c.used > Len(d)
      BY <1>2, <2>1, <2>4, <3>3
    <3>5. QED BY <1>4, <3>1, <3>4
  <2>5. CASE x # 0 /\ (len > BlockMax \/ (Has(d, pos + 1, len) /\ (checked => Has(d, end, 1))))
    <3> DEFINE more == a.size + IF IsStored(x) THEN len ELSE 2 * len
               Rest(w) == IF len > BlockMax THEN Fail("InvalidData")
                          ELSE IF ~ Has(w, pos + 1, len) THEN Fail("Truncated")
                          ELSE IF checked /\ ~ Has(w, end, 1) THEN Fail("Truncated")
                          ELSE IF checked /\ SumOf(w, pos + 1, end) # Byte(w, end) THEN Fail("ChecksumMismatch")
                          ELSE IF more > max THEN Fail("TooLarge")
                          ELSE Going(IF checked THEN end + 1 ELSE end, more)
    <3>1. b = Rest(d)
      BY <1>6, <2>5 DEF BlockStep
    <3>2. c = Rest(e)
      BY <2>1, <2>5 DEF BlockStep
    <3>3. ~ (len > BlockMax) => Has(e, pos + 1, len) /\ (checked => Has(e, end, 1))
      <4> HIDE DEF len
      <4>1. QED BY <1>1, <2>2, <2>5 DEF Has
    <3>4. ~ (len > BlockMax) /\ checked => SumOf(e, pos + 1, end) = SumOf(d, pos + 1, end) /\ Byte(e, end) = Byte(d, end)
      <4>1. ~ (len > BlockMax) /\ checked => end < Len(d)
        <5> HIDE DEF len
        <5>1. QED BY <1>1, <2>2, <2>5 DEF Has
      <4> HIDE DEF len, end
      <4>2. QED BY <1>1, <2>2, <4>1, SameBytes, SameSum, SMTT(30)
    <3> HIDE DEF len, end, more, checked
    <3>5. b = c
      BY <2>5, <3>1, <3>2, <3>3, <3>4
    <3>6. QED BY <3>5 DEF Alike
  <2>6. QED BY <2>3, <2>4, <2>5
<1>7. QED BY <1>5, <1>6

(* A longer window gives the same blocks, or the shorter one ran out.       *)
LEMMA BlocksAlike ==
  ASSUME NEW d, NEW e, Begins(d, e), NEW h, NEW max \in Nat, NEW a \in Answers
  PROVE  Alike(Blocks(d, h, max)[a], Blocks(e, h, max)[a], Used, Len(d), Waits)
<1>1. d \in Seq(Nat) /\ e \in Seq(Nat) /\ Len(d) \in Nat /\ Len(e) \in Nat
  BY DEF Begins
<1>2. ASSUME NEW s \in Answers
      PROVE  Alike(BlockSteps(d, h, max)[s], BlockSteps(e, h, max)[s], Used, Len(d), Waits)
  BY BlockStepAlike DEF BlockSteps
<1>3. /\ Stepping(BlockSteps(d, h, max), Answers, Used, Len(d)) /\ IsLoop(Blocks(d, h, max), Answers, BlockSteps(d, h, max))
      /\ Stepping(BlockSteps(e, h, max), Answers, Used, Len(e)) /\ IsLoop(Blocks(e, h, max), Answers, BlockSteps(e, h, max))
  BY <1>1, BlocksForward, BlocksLoop
<1>4. QED BY <1>1, <1>2, <1>3, UsedIs, SteppingAlike

(* A frame has a byte at least, fits the data and the limit, and passes the *)
(* probe.                                                                   *)
LEMMA Lz4Answers ==
  ASSUME NEW d \in Seq(Nat), NEW max \in Nat, NEW b, b = Lz4Decode(d, max)
  PROVE  /\ b \in Answers /\ ~ Running(b) /\ b.size <= max
         /\ Ok(b) => b.used \in 1 .. Len(d) /\ Lz4Probe(d)
<1> DEFINE h == Lz4Header(d)
<1>1. IsLz4Head(h) /\ (Ok(h) => h.len <= Len(d))
  BY Lz4HeaderIs
<1>2. b = IF ~ Ok(h) THEN h ELSE IF h.content > max THEN Fail("TooLarge")
          ELSE Blocks(d, h, max)[Going(h.len, 0)]
  BY DEF Lz4Decode
<1>3. Ok(h) /\ Len(d) >= 4 => Lz4Probe(d)
  BY DEF Lz4Probe
<1> HIDE DEF h
<1>4. CASE ~ Ok(h)
  <2>1. h = Fail(h.error) /\ h.error \in Errors \ {"going", "none"}
    BY <1>1, <1>4 DEF IsLz4Head, Ok
  <2>2. h \in Answers /\ h.size = 0 /\ ~ Running(h)
    BY <2>1, FailIs
  <2>3. QED BY <1>2, <1>4, <2>2
<1>5. CASE Ok(h) /\ h.content > max
  BY <1>2, <1>5, FailIs DEF Errors
<1>6. CASE Ok(h) /\ ~ (h.content > max)
  <2>1. h.len \in {3, 4} /\ h.len <= Len(d)
    BY <1>1, <1>6, FailIs DEF IsLz4Head
  <2>2. /\ b \in Answers /\ ~ Running(b) /\ b.size <= max
        /\ Ok(b) => h.len <= b.used /\ b.used <= Len(d) /\ h.len < Len(d)
    BY <1>2, <1>6, <2>1, BlocksAnswer
  <2>3. b.used \in Nat /\ Len(d) \in Nat
    BY <2>2, BytesOf DEF Answers
  <2>4. Ok(b) => Len(d) >= 4 /\ b.used \in 1 .. Len(d)
    BY <2>1, <2>2, <2>3
  <2>5. QED BY <1>3, <1>6, <2>2, <2>4
<1>7. QED BY <1>4, <1>5, <1>6

(* A longer window gives the same frame, or the shorter one ran out.        *)
LEMMA Lz4Waits ==
  ASSUME NEW d, NEW e, Begins(d, e), NEW max \in Nat, Len(d) > 0
  PROVE  Waited(Lz4Decode(d, max), Lz4Decode(e, max), Len(d))
<1> DEFINE h == Lz4Header(d)
           g == Lz4Header(e)
           b == Lz4Decode(d, max)
           c == Lz4Decode(e, max)
<1>1. d \in Seq(Nat) /\ e \in Seq(Nat) /\ Len(d) \in Nat
  BY DEF Begins
<1>2. h = g \/ (h = Fail("Truncated") /\ (Ok(g) => g.len > Len(d)))
  BY Lz4HeaderWaits
<1>3. /\ IsLz4Head(h) /\ (Ok(h) => h.len <= Len(d))
      /\ IsLz4Head(g) /\ (Ok(g) => g.len <= Len(e))
  BY <1>1, Lz4HeaderIs
<1>4. /\ b = IF ~ Ok(h) THEN h ELSE IF h.content > max THEN Fail("TooLarge")
             ELSE Blocks(d, h, max)[Going(h.len, 0)]
      /\ c = IF ~ Ok(g) THEN g ELSE IF g.content > max THEN Fail("TooLarge")
             ELSE Blocks(e, g, max)[Going(g.len, 0)]
  BY DEF Lz4Decode
<1>5. /\ Ok(h) => h.len \in Nat
      /\ Ok(g) => g.len \in Nat
  BY <1>3, FailIs DEF IsLz4Head
<1> HIDE DEF h, g
<1>6. CASE h = g /\ ~ (Ok(h) /\ ~ (h.content > max))
  <2>1. b = c
    BY <1>4, <1>6
  <2>2. QED BY <2>1 DEF Waited
<1>7. CASE h = g /\ Ok(h) /\ ~ (h.content > max)
  <2>1. Going(h.len, 0) \in Answers
    BY <1>5, <1>7, GoingIs
  <2>2. b = Blocks(d, h, max)[Going(h.len, 0)] /\ c = Blocks(e, h, max)[Going(h.len, 0)]
    BY <1>4, <1>7
  <2>3. Alike(b, c, Used, Len(d), Waits)
    BY <2>1, <2>2, BlocksAlike
  <2>4. h.len <= Len(e) /\ c \in Answers
    BY <1>1, <1>3, <1>5, <1>7, <2>2, BlocksAnswer
  <2>5. Used[c] = c.used
    BY <2>4, UsedIs
  <2> HIDE DEF b, c
  <2>6. Waited(b, c, Len(d))
    BY <2>3, <2>5 DEF Alike, Past, Waits, Waited
  <2>7. QED BY <2>6 DEF b, c
<1>8. CASE h = Fail("Truncated") /\ (Ok(g) => g.len > Len(d))
  <2>1. b = h /\ h.error = "Truncated"
    BY <1>4, <1>8, FailIs DEF Errors
  <2> HIDE DEF b, c
  <2>2. ASSUME Ok(c) PROVE c.used > Len(d)
    <3>1. Ok(g) /\ c = Blocks(e, g, max)[Going(g.len, 0)]
      BY <1>4, <2>2, FailIs DEF Errors
    <3>2. c \in Answers /\ g.len <= c.used
      BY <1>1, <1>3, <1>5, <2>2, <3>1, BlocksAnswer
    <3>3. c.used \in Nat
      BY <3>2 DEF Answers
    <3>4. QED BY <1>1, <1>5, <1>8, <3>1, <3>2, <3>3
  <2>3. Waited(b, c, Len(d))
    BY <2>1, <2>2 DEF Waited
  <2>4. QED BY <2>3 DEF b, c
<1>9. QED BY <1>2, <1>6, <1>7, <1>8

-----------------------------------------------------------------------------
(* LZO: lengths that go on in the bytes after their instruction.            *)

Short(S) == {s \in S : s.error = "Truncated"}
Pos(S) == [s \in S |-> s.pos]

(* Where a decoder is with a file of n bytes, and with a longer one.        *)
PosAlike(x, y, n) == x = y \/ (x.error = "Truncated" /\ (Running(y) \/ Ok(y) => y.pos > n))

LEMMA PosIs ==
  ASSUME NEW S, \A s \in S : s.pos \in Nat
  PROVE  /\ Pos(S) \in [S -> Nat] /\ \A s \in S : Pos(S)[s] = s.pos
         /\ \A s \in Short(S) : ~ Running(s)
BY DEF Pos, Short, Running

LEMMA PosAlikeIs ==
  ASSUME NEW S, NEW n, NEW x \in S, NEW y \in S
  PROVE  PosAlike(x, y, n) <=> Alike(x, y, Pos(S), n, Short(S))
<1>1. Pos(S)[y] = y.pos
  BY DEF Pos
<1>2. x \in Short(S) <=> x.error = "Truncated"
  BY DEF Short
<1>3. QED BY <1>1, <1>2, Zenon DEF PosAlike, Alike, Past

ExtendSteps(d, max) == [l \in Lengths |-> ExtendStep(d, l, max)]

(* A byte of a long length is there, and is the one that is read.           *)
LEMMA ExtendStepIs ==
  ASSUME NEW d \in Seq(Nat), NEW max \in Nat, NEW l \in Lengths, NEW b, b = ExtendStep(d, l, max)
  PROVE  /\ b \in Lengths
         /\ Running(b) \/ Ok(b) => b.pos = l.pos + 1 /\ b.pos <= Len(d)
<1> DEFINE p == l.pos + 1
           x == Byte(d, l.pos)
           n == l.n + x
           n2 == l.n + 255
<1>1. l.pos \in Nat /\ l.n \in Nat /\ l.error \in Errors /\ l = [error |-> l.error, pos |-> l.pos, n |-> l.n]
  BY DEF Lengths
<1>2. p \in Nat /\ n2 \in Nat /\ Len(d) \in Nat /\ p = l.pos + 1
  BY <1>1, BytesOf
<1>3. CASE ~ Has(d, l.pos, 1) \/ (Has(d, l.pos, 1) /\ x = 0 /\ l.n > max)
  <2>1. b = [l EXCEPT !.error = "Truncated"] \/ b = [l EXCEPT !.error = "TooLarge"]
    BY <1>3 DEF ExtendStep
  <2>2. QED BY <1>1, <2>1 DEF Lengths, Errors, Running, Ok
<1>4. CASE Has(d, l.pos, 1) /\ ~ (x = 0 /\ l.n > max)
  <2>1. p <= Len(d) /\ x \in Nat /\ n \in Nat
    BY <1>1, <1>2, <1>4, BytesOf
  <2>2. \/ b = [error |-> "none", pos |-> p, n |-> n]
        \/ b = [error |-> "going", pos |-> p, n |-> n2]
    BY <1>4 DEF ExtendStep
  <2> HIDE DEF p, n, n2
  <2>3. b \in Lengths /\ b.pos = p
    BY <1>1, <1>2, <2>1, <2>2 DEF Lengths, Errors
  <2>4. QED BY <1>2, <2>1, <2>3
<1>5. QED BY <1>3, <1>4

LEMMA ExtendForward ==
  ASSUME NEW d \in Seq(Nat), NEW max \in Nat
  PROVE  Stepping(ExtendSteps(d, max), Lengths, Pos(Lengths), Len(d))
<1> DEFINE step == ExtendSteps(d, max)
<1>1. \A l \in Lengths : step[l] = ExtendStep(d, l, max)
  BY DEF ExtendSteps
<1>2. step = [l \in Lengths |-> step[l]]
  BY DEF ExtendSteps
<1> HIDE DEF step
<1>3. \A l \in Lengths : l.pos \in Nat
  BY DEF Lengths
<1>4. Pos(Lengths) \in [Lengths -> Nat] /\ \A l \in Lengths : Pos(Lengths)[l] = l.pos
  BY <1>3, PosIs
<1>5. ASSUME NEW l \in Lengths PROVE step[l] \in Lengths /\ Forward(l, step[l], Pos(Lengths), Len(d))
  <2>1. step[l] \in Lengths /\ (Running(step[l]) \/ Ok(step[l]) => step[l].pos = l.pos + 1 /\ step[l].pos <= Len(d))
    BY <1>1, ExtendStepIs
  <2>2. l.pos \in Nat /\ Pos(Lengths)[l] = l.pos /\ Pos(Lengths)[step[l]] = step[l].pos
    BY <1>3, <1>4, <2>1
  <2>3. QED BY <2>1, <2>2 DEF Forward
<1>6. Stepping(step, Lengths, Pos(Lengths), Len(d))
  BY <1>2, <1>4, <1>5, Zenon DEF Stepping
<1>7. QED BY <1>6 DEF step

Extending(d, max) == Loop(Lengths, LAMBDA l : ExtendStep(d, l, max))

LEMMA ExtendLoops ==
  ASSUME NEW d \in Seq(Nat), NEW max \in Nat
  PROVE  IsLoop(Extending(d, max), Lengths, ExtendSteps(d, max))
<1>1. \E run : IsLoop(run, Lengths, ExtendSteps(d, max))
  BY ExtendForward, SteppingMoves, LoopExists, BytesOf
<1>2. QED BY <1>1, ZenonT(40) DEF Extending, Loop, IsLoop, ExtendSteps

LEMMA LengthStart ==
  ASSUME NEW p \in Nat, NEW n \in Nat, NEW l, l = [error |-> "going", pos |-> p, n |-> n]
  PROVE  l \in Lengths /\ Running(l) /\ l.pos = p
BY DEF Lengths, Errors, Running

(* The answer l for a length at p, if the instruction gave n.               *)
IsLength(d, p, n, l) ==
  /\ l \in Lengths /\ ~ Running(l) /\ l.pos \in Nat /\ l.n \in Nat
  /\ Ok(l) => p <= l.pos /\ l.pos <= Len(d)
  /\ n # 0 => l.pos = p /\ Ok(l)

(* A length ends where it begins if the instruction holds it, else behind   *)
(* it.                                                                      *)
LEMMA LengthAnswers ==
  ASSUME NEW d \in Seq(Nat), NEW max \in Nat, NEW p \in Nat, p <= Len(d),
         NEW n \in Nat, NEW base \in Nat, NEW l, l = Length(d, p, n, base, max)
  PROVE  IsLength(d, p, n, l)
<1> DEFINE a == [error |-> "going", pos |-> p, n |-> base]
           run == Extending(d, max)
<1>1. a \in Lengths /\ Running(a) /\ a.pos = p
  BY LengthStart
<1>2. CASE n = 0
  <2>1. l = run[a]
    BY <1>2 DEF Length, Extended, Extending
  <2> HIDE DEF a, run
  <2>2. IsLoop(run, Lengths, ExtendSteps(d, max)) /\ Stepping(ExtendSteps(d, max), Lengths, Pos(Lengths), Len(d))
    BY ExtendLoops, ExtendForward DEF run
  <2>3. \A x \in Lengths : x.pos \in Nat /\ x.n \in Nat /\ Pos(Lengths)[x] = x.pos
    BY DEF Lengths, Pos
  <2>4. Len(d) \in Nat /\ Pos(Lengths)[a] <= Len(d)
    BY <1>1, <2>3, BytesOf
  <2>5. l \in Lengths /\ ~ Running(l) /\ (Ok(l) => Pos(Lengths)[a] <= Pos(Lengths)[l] /\ Pos(Lengths)[l] <= Len(d))
    BY <1>1, <2>1, <2>2, <2>4, SteppingEnds
  <2>6. QED BY <1>1, <1>2, <2>3, <2>5 DEF IsLength
<1>3. CASE n # 0
  <2>1. l = [error |-> "none", pos |-> p, n |-> n]
    BY <1>3 DEF Length
  <2>2. QED BY <2>1 DEF IsLength, Lengths, Errors, Running, Ok
<1>4. QED BY <1>2, <1>3

(* A longer window gives the same length, or the shorter one ran out.       *)
LEMMA LengthWaits ==
  ASSUME NEW d, NEW e, Begins(d, e), NEW max \in Nat, NEW p \in Nat, p <= Len(d),
         NEW n \in Nat, NEW base \in Nat
  PROVE  PosAlike(Length(d, p, n, base, max), Length(e, p, n, base, max), Len(d))
<1>1. d \in Seq(Nat) /\ e \in Seq(Nat) /\ Len(d) \in Nat /\ Len(e) \in Nat /\ Len(d) <= Len(e)
  BY DEF Begins
<1>2. \A l \in Lengths : l.pos \in Nat
  BY DEF Lengths
<1>3. ASSUME NEW l \in Lengths
      PROVE  Alike(ExtendSteps(d, max)[l], ExtendSteps(e, max)[l], Pos(Lengths), Len(d), Short(Lengths))
  <2> DEFINE x == ExtendStep(d, l, max)
             y == ExtendStep(e, l, max)
  <2>1. x = ExtendSteps(d, max)[l] /\ y = ExtendSteps(e, max)[l]
    BY DEF ExtendSteps
  <2>2. /\ x \in Lengths /\ y \in Lengths
        /\ Running(y) \/ Ok(y) => y.pos = l.pos + 1
    BY <1>1, ExtendStepIs
  <2>3. PosAlike(x, y, Len(d))
    <3>1. CASE Has(d, l.pos, 1)
      <4>1. Has(e, l.pos, 1) /\ Byte(e, l.pos) = Byte(d, l.pos)
        BY <1>1, <1>2, <3>1, BytesOf, SameBytes
      <4>2. x = y
        BY <3>1, <4>1 DEF ExtendStep
      <4> HIDE DEF x, y
      <4>3. QED BY <4>2 DEF PosAlike
    <3>2. CASE ~ Has(d, l.pos, 1)
      <4>1. x = [l EXCEPT !.error = "Truncated"]
        BY <3>2 DEF ExtendStep
      <4>2. x.error = "Truncated"
        BY <4>1 DEF Lengths
      <4>3. ~ (l.pos < Len(d))
        BY <1>1, <1>2, <3>2, BytesOf
      <4> HIDE DEF x, y
      <4>4. QED BY <1>1, <1>2, <2>2, <4>2, <4>3 DEF PosAlike
    <3>3. QED BY <3>1, <3>2
  <2> HIDE DEF x, y
  <2>4. QED BY <2>1, <2>2, <2>3, PosAlikeIs
<1>4. CASE n = 0
  <2> DEFINE a == [error |-> "going", pos |-> p, n |-> base]
             x == Extending(d, max)[a]
             y == Extending(e, max)[a]
  <2>1. x = Length(d, p, n, base, max) /\ y = Length(e, p, n, base, max)
    BY <1>4 DEF Length, Extended, Extending
  <2>2. a \in Lengths
    BY LengthStart
  <2>3. x \in Lengths /\ y \in Lengths
    <3>1. p <= Len(e)
      BY <1>1
    <3> HIDE DEF x, y
    <3>2. IsLength(d, p, n, x) /\ IsLength(e, p, n, y)
      BY <1>1, <2>1, <3>1, LengthAnswers
    <3>3. QED BY <3>2 DEF IsLength
  <2> HIDE DEF a
  <2>4. /\ Stepping(ExtendSteps(d, max), Lengths, Pos(Lengths), Len(d)) /\ IsLoop(Extending(d, max), Lengths, ExtendSteps(d, max))
        /\ Stepping(ExtendSteps(e, max), Lengths, Pos(Lengths), Len(e)) /\ IsLoop(Extending(e, max), Lengths, ExtendSteps(e, max))
    BY <1>1, ExtendForward, ExtendLoops
  <2>5. \A l \in Short(Lengths) : ~ Running(l)
    BY <1>2, PosIs
  <2>6. Alike(x, y, Pos(Lengths), Len(d), Short(Lengths))
    BY <1>1, <1>3, <2>2, <2>4, <2>5, SteppingAlike
  <2>7. PosAlike(x, y, Len(d))
    BY <2>3, <2>6, PosAlikeIs
  <2>8. QED BY <2>1, <2>7
<1>5. CASE n # 0
  BY <1>5 DEF Length, PosAlike
<1>6. QED BY <1>4, <1>5

-----------------------------------------------------------------------------
(* LZO: the instructions.                                                   *)

LEMMA StopIs ==
  ASSUME NEW s \in LzoStates, NEW x \in Errors \ {"going", "none"}, NEW b, b = Stop(s, x)
  PROVE  b \in LzoStates /\ b.error = x /\ b.out = s.out /\ ~ Running(b) /\ ~ Ok(b)
BY DEF LzoStates, Stop, Running, Ok

(* Literals are in the data and within the limit, or stop the decoder.      *)
LEMMA LiteralsAre ==
  ASSUME NEW d \in Seq(Nat), NEW s \in LzoStates, Running(s), NEW n \in Nat, NEW next \in Nat,
         NEW max \in Nat, NEW b, b = Literals(d, s, n, next, max)
  PROVE  /\ b \in LzoStates /\ ~ Ok(b) /\ (s.out <= max => b.out <= max)
         /\ Running(b) => b.pos = s.pos + n /\ b.pos <= Len(d)
<1> DEFINE p == s.pos + n
           o == s.out + n
           k == s.literals + n
<1>1. s.pos \in Nat /\ s.out \in Nat /\ s.literals \in Nat /\ s.error = "going"
  BY DEF LzoStates, Running
<1>2. p \in Nat /\ o \in Nat /\ k \in Nat /\ p = s.pos + n
  BY <1>1, SMTT(30)
<1>3. CASE ~ Has(d, s.pos, n)
  <2>1. b = Stop(s, "Truncated")
    BY <1>3 DEF Literals
  <2>2. QED BY <2>1, StopIs DEF Errors
<1>4. CASE Has(d, s.pos, n) /\ o > max
  <2>1. b = Stop(s, "TooLarge")
    BY <1>4 DEF Literals
  <2>2. QED BY <2>1, StopIs DEF Errors
<1>5. CASE Has(d, s.pos, n) /\ ~ (o > max)
  <2>1. b = [s EXCEPT !.pos = p, !.out = o, !.literals = k, !.state = next]
    BY <1>5 DEF Literals
  <2>2. p <= Len(d)
    BY <1>5 DEF Has
  <2>3. o <= max
    BY <1>2, <1>5
  <2> HIDE DEF p, o, k
  <2>4. b \in LzoStates /\ b.error = "going" /\ b.pos = p /\ b.out = o
    BY <1>1, <1>2, <2>1 DEF LzoStates
  <2>5. QED BY <1>2, <2>2, <2>3, <2>4 DEF Ok
<1>6. QED BY <1>3, <1>4, <1>5

(* A longer window gives the same literals, or the shorter one ran out.     *)
LEMMA LiteralsWait ==
  ASSUME NEW d, NEW e, Begins(d, e), NEW s \in LzoStates, Running(s), NEW n \in Nat, NEW next \in Nat,
         NEW max \in Nat,
         NEW x, x = Literals(d, s, n, next, max), NEW y, y = Literals(e, s, n, next, max)
  PROVE  PosAlike(x, y, Len(d))
<1>1. d \in Seq(Nat) /\ e \in Seq(Nat) /\ Len(d) \in Nat /\ Len(e) \in Nat /\ Len(d) <= Len(e) /\ s.pos \in Nat
  BY DEF Begins, LzoStates
<1>2. CASE Has(d, s.pos, n)
  <2>1. Has(e, s.pos, n)
    BY <1>1, <1>2 DEF Has
  <2>2. QED BY <1>2, <2>1 DEF Literals, PosAlike
<1>3. CASE ~ Has(d, s.pos, n)
  <2>1. x = Stop(s, "Truncated")
    BY <1>3 DEF Literals
  <2>2. x.error = "Truncated"
    BY <2>1, StopIs DEF Errors
  <2>3. ~ Ok(y) /\ (Running(y) => y.pos = s.pos + n)
    BY <1>1, LiteralsAre
  <2>4. s.pos + n > Len(d)
    BY <1>1, <1>3 DEF Has
  <2>5. QED BY <2>2, <2>3, <2>4 DEF PosAlike
<1>4. QED BY <1>2, <1>3

LEMMA CopiedIs ==
  ASSUME NEW s \in LzoStates, NEW p \in Nat, NEW len \in Nat, NEW t, t = Copied(s, p, len)
  PROVE  t \in LzoStates /\ t.error = s.error /\ t.pos = p /\ t.out = s.out + len
<1> DEFINE o == s.out + len
<1>1. o \in Nat
  BY DEF LzoStates
<1>2. t = [s EXCEPT !.pos = p, !.out = o]
  BY DEF Copied
<1> HIDE DEF o
<1>3. t \in LzoStates /\ t.error = s.error /\ t.pos = p /\ t.out = o
  BY <1>1, <1>2 DEF LzoStates
<1>4. QED BY <1>3 DEF o

(* A match and its literals are within the limit, or stop the decoder.      *)
LEMMA MatchIs ==
  ASSUME NEW d \in Seq(Nat), NEW s \in LzoStates, Running(s), NEW p \in Nat, NEW distance,
         NEW len \in Nat, NEW trailing \in Nat, NEW max \in Nat,
         NEW b, b = Match(d, s, p, distance, len, trailing, max)
  PROVE  /\ b \in LzoStates /\ ~ Ok(b) /\ (s.out <= max => b.out <= max)
         /\ Running(b) => p <= b.pos /\ b.pos <= Len(d)
<1> DEFINE o == s.out + len
           t == Copied(s, p, len)
<1>1. o \in Nat /\ s.out \in Nat
  BY DEF LzoStates
<1>2. b = Stop(s, "InvalidData") \/ b = Stop(s, "TooLarge") \/ (b = Literals(d, t, trailing, trailing, max) /\ ~ (o > max))
  BY DEF Match
<1>3. t \in LzoStates /\ t.error = s.error /\ t.pos = p /\ t.out = o
  BY CopiedIs
<1> HIDE DEF t, o
<1>4. CASE b = Stop(s, "InvalidData") \/ b = Stop(s, "TooLarge")
  BY <1>4, StopIs DEF Errors
<1>5. CASE b = Literals(d, t, trailing, trailing, max) /\ ~ (o > max)
  <2>1. Running(t) /\ (s.out <= max => t.out <= max)
    BY <1>1, <1>3, <1>5 DEF Running
  <2>2. /\ b \in LzoStates /\ ~ Ok(b) /\ (s.out <= max => b.out <= max)
        /\ Running(b) => b.pos = p + trailing /\ b.pos <= Len(d)
    BY <1>3, <1>5, <2>1, LiteralsAre
  <2>3. QED BY <2>2
<1>6. QED BY <1>2, <1>4, <1>5

(* A longer window gives the same match, or the shorter one ran out.        *)
LEMMA MatchWaits ==
  ASSUME NEW d, NEW e, Begins(d, e), NEW s \in LzoStates, Running(s), NEW p \in Nat, NEW distance,
         NEW len \in Nat, NEW trailing \in Nat, NEW max \in Nat,
         NEW x, x = Match(d, s, p, distance, len, trailing, max),
         NEW y, y = Match(e, s, p, distance, len, trailing, max)
  PROVE  PosAlike(x, y, Len(d))
<1> DEFINE o == s.out + len
           t == Copied(s, p, len)
<1>1. o \in Nat /\ s.out \in Nat
  BY DEF LzoStates
<1>2. x = y \/ (/\ x = Literals(d, t, trailing, trailing, max)
                /\ y = Literals(e, t, trailing, trailing, max) /\ ~ (o > max))
  BY DEF Match
<1>3. t \in LzoStates /\ t.error = s.error /\ t.pos = p /\ t.out = o
  BY CopiedIs
<1> HIDE DEF t, o
<1>4. CASE x = y
  BY <1>4 DEF PosAlike
<1>5. CASE /\ x = Literals(d, t, trailing, trailing, max)
           /\ y = Literals(e, t, trailing, trailing, max) /\ ~ (o > max)
  <2>1. Running(t) /\ (s.out <= max => t.out <= max)
    BY <1>1, <1>3, <1>5 DEF Running
  <2>2. QED BY <1>3, <1>5, <2>1, LiteralsWait
<1>6. QED BY <1>2, <1>4, <1>5

(* A step of an instruction from s: to b, which is behind its operands, at  *)
(* q or after it.                                                           *)
Steps(d, s, b, q, max) ==
  /\ b \in LzoStates /\ ~ Ok(b) /\ (s.out <= max => b.out <= max)
  /\ Running(b) => q <= b.pos /\ b.pos <= Len(d)

LEMMA Parts8 ==
  ASSUME NEW t \in Nat
  PROVE  t % 4 \in Nat /\ t \div 4 \in Nat /\ t % 8 \in Nat /\ t % 32 \in Nat /\ t \div 32 \in Nat
OBVIOUS

(* A word of zero is two bytes of zero: the end of the marker.              *)
LEMMA WordIs ==
  ASSUME NEW d \in Seq(Nat), NEW p \in Nat, Has(d, p, 2)
  PROVE  /\ Byte(d, p) \in Nat /\ Byte(d, p + 1) \in Nat
         /\ Word(d, p) \in Nat /\ (Word(d, p) = 0 => Byte(d, p) = 0 /\ Byte(d, p + 1) = 0)
<1>1. Byte(d, p) \in Nat /\ Byte(d, p + 1) \in Nat
  BY DEF Has, Byte
<1>2. QED BY <1>1 DEF Word

LEMMA SameWord ==
  ASSUME NEW d, NEW e, Begins(d, e), NEW p \in Nat, Has(d, p, 2)
  PROVE  Has(e, p, 2) /\ Word(e, p) = Word(d, p)
<1>1. /\ Len(d) \in Nat /\ Len(e) \in Nat /\ Len(d) <= Len(e) /\ p + 2 <= Len(d)
      /\ p + 1 \in Nat
  BY SameBytes DEF Has
<1>2. Byte(e, p) = Byte(d, p) /\ Byte(e, p + 1) = Byte(d, p + 1)
  BY <1>1, SameBytes
<1>3. QED BY <1>1, <1>2 DEF Word, Has

LEMMA LiteralRunIs ==
  ASSUME NEW d \in Seq(Nat), NEW s \in LzoStates, Running(s), NEW t \in Nat, NEW p \in Nat, p <= Len(d),
         NEW max \in Nat, NEW l, l = Length(d, p, t, 15, max),
         NEW b, b = LiteralRun(d, s, t, p, max)
  PROVE  Steps(d, s, b, p, max) /\ (Running(b) => Ok(l) /\ l.pos <= b.pos)
<1>1. l \in Lengths /\ ~ Running(l) /\ l.pos \in Nat /\ l.n \in Nat /\ (Ok(l) => p <= l.pos /\ l.pos <= Len(d))
  <2>1. IsLength(d, p, t, l)
    BY LengthAnswers
  <2>2. QED BY <2>1, Zenon DEF IsLength
<1>2. CASE ~ Ok(l)
  <2>1. b = Stop(s, l.error) /\ l.error \in Errors \ {"going", "none"}
    BY <1>1, <1>2 DEF LiteralRun, Lengths, Ok, Running
  <2>2. QED BY <2>1, StopIs DEF Steps
<1>3. CASE Ok(l)
  <2> DEFINE u == [s EXCEPT !.pos = l.pos]
             k == l.n + 3
  <2>1. b = Literals(d, u, k, 4, max) /\ k \in Nat
    BY <1>1, <1>3 DEF LiteralRun
  <2>2. u \in LzoStates /\ Running(u) /\ u.out = s.out /\ u.pos = l.pos
    BY <1>1 DEF LzoStates, Running
  <2> HIDE DEF u, k
  <2>3. /\ b \in LzoStates /\ ~ Ok(b) /\ (s.out <= max => b.out <= max)
        /\ Running(b) => b.pos = u.pos + k /\ b.pos <= Len(d)
    BY <2>1, <2>2, LiteralsAre
  <2>4. Running(b) => l.pos <= b.pos /\ p <= b.pos
    BY <1>1, <1>3, <2>1, <2>2, <2>3
  <2>5. QED BY <1>3, <2>3, <2>4 DEF Steps
<1>4. QED BY <1>2, <1>3

LEMMA ShortMatchIs ==
  ASSUME NEW d \in Seq(Nat), NEW s \in LzoStates, Running(s), NEW t \in Nat, NEW p \in Nat,
         NEW max \in Nat, NEW b, b = ShortMatch(d, s, t, p, max)
  PROVE  Steps(d, s, b, p + 1, max)
<1> DEFINE g == t \div 4 + 4 * Byte(d, p)
           r == t % 4
           q == p + 1
<1>1. r \in Nat /\ q \in Nat
  BY Parts8
<1>2. \/ b = Stop(s, "Truncated")
      \/ b = Match(d, s, q, 2049 + g, 3, r, max)
      \/ b = Match(d, s, q, 1 + g, 2, r, max)
  BY DEF ShortMatch
<1> HIDE DEF g, r, q
<1>3. CASE b = Stop(s, "Truncated")
  BY <1>3, StopIs DEF Errors, Steps
<1>4. CASE b = Match(d, s, q, 2049 + g, 3, r, max) \/ b = Match(d, s, q, 1 + g, 2, r, max)
  <2>1. /\ b \in LzoStates /\ ~ Ok(b) /\ (s.out <= max => b.out <= max)
        /\ Running(b) => q <= b.pos /\ b.pos <= Len(d)
    BY <1>1, <1>4, MatchIs
  <2>2. QED BY <2>1 DEF Steps, q
<1>5. QED BY <1>2, <1>3, <1>4

LEMMA NearMatchIs ==
  ASSUME NEW d \in Seq(Nat), NEW s \in LzoStates, Running(s), NEW t \in Nat, NEW p \in Nat,
         NEW max \in Nat, NEW b, b = NearMatch(d, s, t, p, max)
  PROVE  Steps(d, s, b, p + 1, max)
<1> DEFINE g == 1 + ((t \div 4) % 8) + 8 * Byte(d, p)
           k == t \div 32 + 1
           r == t % 4
           q == p + 1
<1>1. r \in Nat /\ q \in Nat /\ k \in Nat
  BY Parts8
<1>2. b = Stop(s, "Truncated") \/ b = Match(d, s, q, g, k, r, max)
  BY DEF NearMatch
<1> HIDE DEF g, k, r, q
<1>3. CASE b = Stop(s, "Truncated")
  BY <1>3, StopIs DEF Errors, Steps
<1>4. CASE b = Match(d, s, q, g, k, r, max)
  <2>1. /\ b \in LzoStates /\ ~ Ok(b) /\ (s.out <= max => b.out <= max)
        /\ Running(b) => q <= b.pos /\ b.pos <= Len(d)
    BY <1>1, <1>4, MatchIs
  <2>2. QED BY <2>1 DEF Steps, q
<1>5. QED BY <1>2, <1>3, <1>4

LEMMA MiddleMatchIs ==
  ASSUME NEW d \in Seq(Nat), NEW s \in LzoStates, Running(s), NEW t \in Nat, NEW p \in Nat, p <= Len(d),
         NEW max \in Nat, NEW l, l = Length(d, p, t % 32, 31, max),
         NEW b, b = MiddleMatch(d, s, t, p, max)
  PROVE  Steps(d, s, b, p, max) /\ (Running(b) => Ok(l) /\ l.pos + 2 <= b.pos)
<1>1. l \in Lengths /\ ~ Running(l) /\ l.pos \in Nat /\ l.n \in Nat /\ (Ok(l) => p <= l.pos /\ l.pos <= Len(d))
  <2> DEFINE m == t % 32
  <2>1. m \in Nat /\ l = Length(d, p, m, 31, max)
    BY Parts8
  <2> HIDE DEF m
  <2>2. IsLength(d, p, m, l)
    BY <2>1, LengthAnswers
  <2>3. QED BY <2>2, Zenon DEF IsLength
<1>2. CASE ~ Ok(l)
  <2>1. b = Stop(s, l.error) /\ l.error \in Errors \ {"going", "none"}
    BY <1>1, <1>2 DEF MiddleMatch, Lengths, Ok, Running
  <2>2. QED BY <2>1, StopIs DEF Steps
<1>3. CASE Ok(l) /\ ~ Has(d, l.pos, 2)
  <2>1. b = Stop(s, "Truncated")
    BY <1>3 DEF MiddleMatch
  <2>2. QED BY <2>1, StopIs DEF Errors, Steps
<1>4. CASE Ok(l) /\ Has(d, l.pos, 2)
  <2> DEFINE w == Word(d, l.pos)
             g == 1 + w \div 4
             r == w % 4
             q == l.pos + 2
             k == l.n + 2
  <2>1. w \in Nat
    BY <1>1, <1>4, WordIs
  <2>2. r \in Nat /\ q \in Nat /\ k \in Nat
    <3>1. q \in Nat /\ k \in Nat
      BY <1>1, SMTT(30)
    <3> HIDE DEF w
    <3>2. r \in Nat
      BY <2>1, Parts8
    <3>3. QED BY <3>1, <3>2
  <2>3. b = Match(d, s, q, g, k, r, max)
    BY <1>4 DEF MiddleMatch
  <2> HIDE DEF g, k, r, q
  <2>4. /\ b \in LzoStates /\ ~ Ok(b) /\ (s.out <= max => b.out <= max)
        /\ Running(b) => q <= b.pos /\ b.pos <= Len(d)
    BY <2>2, <2>3, MatchIs
  <2>5. b.pos \in Nat
    BY <2>4 DEF LzoStates
  <2>6. Running(b) => p <= b.pos /\ l.pos + 2 <= b.pos
    BY <1>1, <1>4, <2>4, <2>5, SMTT(30) DEF q
  <2>7. QED BY <1>4, <2>4, <2>6 DEF Steps
<1>5. QED BY <1>2, <1>3, <1>4

(* The end marker is three bytes, the last of the stream.                   *)
EndsAt(d, q) ==
  q \in 3 .. Len(d) /\ Byte(d, q - 3) = 17 /\ Byte(d, q - 2) = 0 /\ Byte(d, q - 1) = 0

(* The end marker or a distant match, behind the length l.                  *)
FarOf(d, s, t, l, max) ==
  LET w == Word(d, l.pos)
      far == 16384 * ((t \div 8) % 2) + w \div 4
  IN  IF ~ Ok(l) THEN Stop(s, l.error)
      ELSE IF ~ Has(d, l.pos, 2) THEN Stop(s, "Truncated")
      ELSE IF far # 0 THEN Match(d, s, l.pos + 2, far + 16384, l.n + 2, w % 4, max)
      ELSE IF t = 17 /\ w = 0 THEN [s EXCEPT !.pos = l.pos + 2, !.error = "none"]
      ELSE Stop(s, "InvalidData")

LEMMA FarMatchOf ==
  ASSUME NEW d, NEW s, NEW p, NEW t, NEW max
  PROVE  FarMatch(d, s, t, p, max) = FarOf(d, s, t, Length(d, p, t % 8, 7, max), max)
BY DEF FarMatch, FarOrEnd, FarOf

(* A far match at distance 0 is the marker 11 00 00, in the data up to      *)
(* where it ends.                                                           *)
LEMMA FarOfIs ==
  ASSUME NEW d \in Seq(Nat), NEW s \in LzoStates, Running(s), NEW p \in Nat, p <= Len(d), p >= 1,
         NEW t \in Nat, t = Byte(d, p - 1), NEW max \in Nat,
         NEW m, NEW l, IsLength(d, p, m, l), t = 17 => m # 0,
         NEW b, b = FarOf(d, s, t, l, max)
  PROVE  /\ b \in LzoStates /\ (s.out <= max => b.out <= max)
         /\ Running(b) \/ Ok(b) => p <= b.pos /\ b.pos <= Len(d) /\ Ok(l) /\ l.pos + 2 <= b.pos
         /\ Ok(b) => EndsAt(d, b.pos)
<1>2. /\ l \in Lengths /\ ~ Running(l) /\ l.pos \in Nat /\ l.n \in Nat /\ (Ok(l) => p <= l.pos /\ l.pos <= Len(d))
      /\ t = 17 => l.pos = p
  BY Zenon DEF IsLength
<1>3. CASE ~ Ok(l)
  <2>1. b = Stop(s, l.error) /\ l.error \in Errors \ {"going", "none"}
    BY <1>2, <1>3 DEF FarOf, Lengths, Ok, Running
  <2>2. QED BY <2>1, StopIs
<1>4. CASE Ok(l) /\ ~ Has(d, l.pos, 2)
  <2>1. b = Stop(s, "Truncated")
    BY <1>4 DEF FarOf
  <2>2. QED BY <2>1, StopIs DEF Errors
<1>5. CASE Ok(l) /\ Has(d, l.pos, 2)
  <2> DEFINE w == Word(d, l.pos)
             far == 16384 * ((t \div 8) % 2) + w \div 4
             g == far + 16384
             r == w % 4
             q == l.pos + 2
             k == l.n + 2
  <2>1. w \in Nat /\ (w = 0 => Byte(d, l.pos) = 0 /\ Byte(d, l.pos + 1) = 0)
    BY <1>2, <1>5, WordIs
  <2>2. r \in Nat /\ q \in Nat /\ k \in Nat /\ Len(d) \in Nat
    <3>1. q \in Nat /\ k \in Nat
      BY <1>2, SMTT(30)
    <3>0. Len(d) \in Nat
      BY BytesOf
    <3> HIDE DEF w
    <3>2. r \in Nat
      BY <2>1, Parts8
    <3>3. QED BY <3>0, <3>1, <3>2
  <2>3. q <= Len(d)
    BY <1>5 DEF Has
  <2>4. b = IF far # 0 THEN Match(d, s, q, g, k, r, max)
            ELSE IF t = 17 /\ w = 0 THEN [s EXCEPT !.pos = q, !.error = "none"]
            ELSE Stop(s, "InvalidData")
    BY <1>5 DEF FarOf
  <2>5. q = l.pos + 2
    OBVIOUS
  <2> HIDE DEF w, far, g, r, q, k
  <2>6. CASE b = Match(d, s, q, g, k, r, max)
    <3>1. /\ b \in LzoStates /\ ~ Ok(b) /\ (s.out <= max => b.out <= max)
          /\ Running(b) => q <= b.pos /\ b.pos <= Len(d)
      BY <2>2, <2>6, MatchIs
    <3>2. b.pos \in Nat
      BY <3>1 DEF LzoStates
    <3>3. Running(b) => p <= b.pos /\ l.pos + 2 <= b.pos
      BY <1>2, <1>5, <2>2, <2>5, <3>1, <3>2, SMTT(30)
    <3>4. QED BY <1>5, <3>1, <3>3, Zenon
  <2>7. CASE b = Stop(s, "InvalidData")
    BY <2>7, StopIs DEF Errors
  <2>8. CASE t = 17 /\ w = 0 /\ b = [s EXCEPT !.pos = q, !.error = "none"]
    <3>1. b \in LzoStates /\ Ok(b) /\ b.pos = q /\ b.out = s.out
      BY <2>2, <2>8 DEF LzoStates, Errors, Ok
    <3>2. l.pos = p
      BY <1>2, <2>8
    <3>3. q = p + 2 /\ q - 3 = p - 1 /\ q - 2 = l.pos /\ q - 1 = l.pos + 1
      BY <1>2, <2>2, <2>5, <3>2
    <3>4. EndsAt(d, q)
      BY <2>1, <2>2, <2>3, <2>8, <3>3 DEF EndsAt
    <3>5. p <= b.pos /\ b.pos <= Len(d) /\ l.pos + 2 <= b.pos
      BY <2>2, <2>3, <2>5, <3>1, <3>2, <3>3
    <3>6. QED BY <1>5, <3>1, <3>4, <3>5
  <2>9. QED BY <2>4, <2>6, <2>7, <2>8
<1>6. QED BY <1>3, <1>4, <1>5

LEMMA FarMatchIs ==
  ASSUME NEW d \in Seq(Nat), NEW s \in LzoStates, Running(s), NEW p \in Nat, p <= Len(d), p >= 1,
         NEW t \in Nat, t = Byte(d, p - 1),
         NEW max \in Nat, NEW l, l = Length(d, p, t % 8, 7, max),
         NEW b, b = FarMatch(d, s, t, p, max)
  PROVE  /\ b \in LzoStates /\ (s.out <= max => b.out <= max)
         /\ Running(b) \/ Ok(b) => p <= b.pos /\ b.pos <= Len(d) /\ Ok(l) /\ l.pos + 2 <= b.pos
         /\ Ok(b) => EndsAt(d, b.pos)
<1> DEFINE m == t % 8
<1>1. m \in Nat /\ (t = 17 => m # 0)
  BY Parts8
<1>2. b = FarOf(d, s, t, l, max) /\ l = Length(d, p, m, 7, max)
  BY FarMatchOf
<1> HIDE DEF m
<1>3. IsLength(d, p, m, l)
  BY <1>1, <1>2, LengthAnswers
<1>4. QED BY <1>1, <1>2, <1>3, FarOfIs, SMTT(30)

(* An instruction whose operands are not all there yet, or are the same.    *)
LEMMA LiteralRunWaits ==
  ASSUME NEW d, NEW e, Begins(d, e), NEW s \in LzoStates, Running(s), NEW t \in Nat,
         NEW p \in Nat, p <= Len(d), NEW max \in Nat,
         NEW x, x = LiteralRun(d, s, t, p, max), NEW y, y = LiteralRun(e, s, t, p, max)
  PROVE  PosAlike(x, y, Len(d))
<1> DEFINE l == Length(d, p, t, 15, max)
           g == Length(e, p, t, 15, max)
<1>1. d \in Seq(Nat) /\ e \in Seq(Nat) /\ Len(d) \in Nat /\ Len(e) \in Nat /\ Len(d) <= Len(e)
  BY DEF Begins
<1>2. PosAlike(l, g, Len(d))
  BY LengthWaits
<1>3. IsLength(d, p, t, l) /\ IsLength(e, p, t, g)
  <2>1. p <= Len(e)
    BY <1>1
  <2>2. QED BY <1>1, <2>1, LengthAnswers
<1>4. Steps(e, s, y, p, max) /\ (Running(y) => Ok(g) /\ g.pos <= y.pos)
  <2>1. p <= Len(e)
    BY <1>1
  <2>2. QED BY <1>1, <2>1, LiteralRunIs
<1>5. /\ x = IF ~ Ok(l) THEN Stop(s, l.error) ELSE Literals(d, [s EXCEPT !.pos = l.pos], l.n + 3, 4, max)
      /\ y = IF ~ Ok(g) THEN Stop(s, g.error) ELSE Literals(e, [s EXCEPT !.pos = g.pos], g.n + 3, 4, max)
  BY DEF LiteralRun
<1> HIDE DEF l, g
<1>6. CASE l = g
  <2>1. CASE ~ Ok(l)
    BY <1>5, <1>6, <2>1 DEF PosAlike
  <2>2. CASE Ok(l)
    <3> DEFINE u == [s EXCEPT !.pos = l.pos]
               k == l.n + 3
    <3>1. l.pos \in Nat /\ k \in Nat
      BY <1>3 DEF IsLength
    <3>2. u \in LzoStates /\ Running(u) /\ u.out = s.out
      BY <3>1 DEF LzoStates, Running
    <3>3. x = Literals(d, u, k, 4, max) /\ y = Literals(e, u, k, 4, max)
      BY <1>5, <1>6, <2>2
    <3> HIDE DEF u, k
    <3>4. QED BY <3>1, <3>2, <3>3, LiteralsWait
  <2>3. QED BY <2>1, <2>2
<1>7. CASE l.error = "Truncated" /\ (Running(g) \/ Ok(g) => g.pos > Len(d))
  <2>1. x = Stop(s, "Truncated")
    BY <1>5, <1>7 DEF Ok
  <2>2. x.error = "Truncated"
    BY <2>1, StopIs DEF Errors
  <2>3. Running(y) => y.pos > Len(d)
    <3>1. g.pos \in Nat
      BY <1>3 DEF IsLength
    <3>2. y \in LzoStates
      BY <1>4 DEF Steps
    <3>3. y.pos \in Nat
      BY <3>2 DEF LzoStates
    <3>4. QED BY <1>1, <1>4, <1>7, <3>1, <3>3
  <2>4. ~ Ok(y)
    BY <1>4 DEF Steps
  <2>5. QED BY <2>2, <2>3, <2>4 DEF PosAlike
<1>8. QED BY <1>2, <1>6, <1>7 DEF PosAlike

(* An instruction whose second byte is missing waits for it.                *)
LEMMA ByteWaits ==
  ASSUME NEW d, NEW e, Begins(d, e), NEW s \in LzoStates, NEW p \in Nat, NEW max \in Nat,
         ~ Has(d, p, 1), NEW x, x = Stop(s, "Truncated"), NEW y, Steps(e, s, y, p + 1, max)
  PROVE  PosAlike(x, y, Len(d))
<1>1. d \in Seq(Nat) /\ Len(d) \in Nat
  BY DEF Begins
<1>2. ~ (p < Len(d))
  BY <1>1, BytesOf
<1>3. x.error = "Truncated"
  BY StopIs DEF Errors
<1>4. y \in LzoStates /\ ~ Ok(y) /\ (Running(y) => p + 1 <= y.pos)
  BY DEF Steps
<1>5. y.pos \in Nat
  BY <1>4 DEF LzoStates
<1>6. QED BY <1>1, <1>2, <1>3, <1>4, <1>5 DEF PosAlike

LEMMA ShortMatchWaits ==
  ASSUME NEW d, NEW e, Begins(d, e), NEW s \in LzoStates, Running(s), NEW t \in Nat,
         NEW p \in Nat, NEW max \in Nat,
         NEW x, x = ShortMatch(d, s, t, p, max), NEW y, y = ShortMatch(e, s, t, p, max)
  PROVE  PosAlike(x, y, Len(d))
<1>1. d \in Seq(Nat) /\ e \in Seq(Nat)
  BY DEF Begins
<1>2. CASE ~ Has(d, p, 1)
  <2>1. x = Stop(s, "Truncated")
    BY <1>2 DEF ShortMatch
  <2>2. Steps(e, s, y, p + 1, max)
    BY <1>1, ShortMatchIs
  <2>3. QED BY <1>2, <2>1, <2>2, ByteWaits
<1>3. CASE Has(d, p, 1)
  <2>1. Has(e, p, 1) /\ Byte(e, p) = Byte(d, p)
    BY <1>1, <1>3, BytesOf, SameBytes
  <2> DEFINE g == t \div 4 + 4 * Byte(d, p)
             r == t % 4
             q == p + 1
  <2>2. r \in Nat /\ q \in Nat
    BY Parts8
  <2>3. /\ x = IF s.state = 4 THEN Match(d, s, q, 2049 + g, 3, r, max) ELSE Match(d, s, q, 1 + g, 2, r, max)
        /\ y = IF s.state = 4 THEN Match(e, s, q, 2049 + g, 3, r, max) ELSE Match(e, s, q, 1 + g, 2, r, max)
    BY <1>3, <2>1 DEF ShortMatch
  <2> HIDE DEF g, r, q
  <2>4. CASE s.state = 4
    BY <2>2, <2>3, <2>4, MatchWaits
  <2>5. CASE s.state # 4
    BY <2>2, <2>3, <2>5, MatchWaits
  <2>6. QED BY <2>4, <2>5
<1>4. QED BY <1>2, <1>3

LEMMA NearMatchWaits ==
  ASSUME NEW d, NEW e, Begins(d, e), NEW s \in LzoStates, Running(s), NEW t \in Nat,
         NEW p \in Nat, NEW max \in Nat,
         NEW x, x = NearMatch(d, s, t, p, max), NEW y, y = NearMatch(e, s, t, p, max)
  PROVE  PosAlike(x, y, Len(d))
<1>1. d \in Seq(Nat) /\ e \in Seq(Nat)
  BY DEF Begins
<1>2. CASE ~ Has(d, p, 1)
  <2>1. x = Stop(s, "Truncated")
    BY <1>2 DEF NearMatch
  <2>2. Steps(e, s, y, p + 1, max)
    BY <1>1, NearMatchIs
  <2>3. QED BY <1>2, <2>1, <2>2, ByteWaits
<1>3. CASE Has(d, p, 1)
  <2>1. Has(e, p, 1) /\ Byte(e, p) = Byte(d, p)
    BY <1>1, <1>3, BytesOf, SameBytes
  <2> DEFINE g == 1 + ((t \div 4) % 8) + 8 * Byte(d, p)
             k == t \div 32 + 1
             r == t % 4
             q == p + 1
  <2>2. r \in Nat /\ q \in Nat /\ k \in Nat
    BY Parts8
  <2>3. x = Match(d, s, q, g, k, r, max) /\ y = Match(e, s, q, g, k, r, max)
    BY <1>3, <2>1 DEF NearMatch
  <2> HIDE DEF g, k, r, q
  <2>4. QED BY <2>2, <2>3, MatchWaits
<1>4. QED BY <1>2, <1>3

(* Behind a length: two bytes of a word, or the length itself waits.        *)
LEMMA WordWaits ==
  ASSUME NEW d, NEW e, Begins(d, e), NEW s \in LzoStates, NEW p, NEW m, NEW l, NEW g,
         IsLength(d, p, m, l), IsLength(e, p, m, g), PosAlike(l, g, Len(d)),
         ~ (l = g /\ Ok(l) /\ Has(d, l.pos, 2)),
         NEW x, x = IF ~ Ok(l) THEN Stop(s, l.error) ELSE Stop(s, "Truncated"),
         NEW y \in LzoStates, Running(y) \/ Ok(y) => Ok(g) /\ g.pos + 2 <= y.pos,
         l = g /\ ~ Ok(l) => x = y
  PROVE  PosAlike(x, y, Len(d))
<1>1. Len(d) \in Nat /\ y.pos \in Nat /\ g.pos \in Nat
  BY SameBytes DEF Begins, LzoStates, IsLength
<1>2. CASE l = g /\ ~ Ok(l)
  BY <1>2 DEF PosAlike
<1>3. CASE l = g /\ Ok(l) /\ ~ Has(d, l.pos, 2)
  <2>1. x.error = "Truncated"
    BY <1>3, StopIs DEF Errors
  <2>2. Running(y) \/ Ok(y) => y.pos > Len(d)
    BY <1>1, <1>3 DEF Has
  <2>3. QED BY <2>1, <2>2 DEF PosAlike
<1>4. CASE l.error = "Truncated" /\ (Running(g) \/ Ok(g) => g.pos > Len(d))
  <2>1. x = Stop(s, "Truncated")
    BY <1>4 DEF Ok
  <2>2. x.error = "Truncated"
    BY <2>1, StopIs DEF Errors
  <2>3. Running(y) \/ Ok(y) => y.pos > Len(d)
    BY <1>1, <1>4
  <2>4. QED BY <2>2, <2>3 DEF PosAlike
<1>5. QED BY <1>2, <1>3, <1>4 DEF PosAlike

LEMMA MiddleMatchWaits ==
  ASSUME NEW d, NEW e, Begins(d, e), NEW s \in LzoStates, Running(s), NEW t \in Nat,
         NEW p \in Nat, p <= Len(d), NEW max \in Nat,
         NEW x, x = MiddleMatch(d, s, t, p, max), NEW y, y = MiddleMatch(e, s, t, p, max)
  PROVE  PosAlike(x, y, Len(d))
<1> DEFINE m == t % 32
           l == Length(d, p, m, 31, max)
           g == Length(e, p, m, 31, max)
<1>1. /\ d \in Seq(Nat) /\ e \in Seq(Nat) /\ p <= Len(e) /\ m \in Nat
  <2>1. d \in Seq(Nat) /\ e \in Seq(Nat) /\ Len(d) \in Nat /\ Len(e) \in Nat /\ Len(d) <= Len(e)
    BY DEF Begins
  <2>2. QED BY <2>1, Parts8
<1>2. Steps(e, s, y, p, max) /\ (Running(y) => Ok(g) /\ g.pos + 2 <= y.pos)
  BY <1>1, MiddleMatchIs
<1>3. /\ x = IF ~ Ok(l) THEN Stop(s, l.error) ELSE IF ~ Has(d, l.pos, 2) THEN Stop(s, "Truncated")
             ELSE Match(d, s, l.pos + 2, 1 + Word(d, l.pos) \div 4, l.n + 2, Word(d, l.pos) % 4, max)
      /\ y = IF ~ Ok(g) THEN Stop(s, g.error) ELSE IF ~ Has(e, g.pos, 2) THEN Stop(s, "Truncated")
             ELSE Match(e, s, g.pos + 2, 1 + Word(e, g.pos) \div 4, g.n + 2, Word(e, g.pos) % 4, max)
  BY DEF MiddleMatch
<1> HIDE DEF m
<1>4. IsLength(d, p, m, l) /\ IsLength(e, p, m, g) /\ PosAlike(l, g, Len(d))
  BY <1>1, LengthAnswers, LengthWaits
<1> HIDE DEF l, g
<1>5. CASE l = g /\ Ok(l) /\ Has(d, l.pos, 2)
  <2> DEFINE w == Word(d, l.pos)
             r == w % 4
             c == 1 + w \div 4
             q == l.pos + 2
             k == l.n + 2
  <2>1. l.pos \in Nat /\ l.n \in Nat
    BY <1>4 DEF IsLength
  <2>2. w \in Nat /\ Has(e, l.pos, 2) /\ Word(e, l.pos) = w
    BY <1>1, <1>5, <2>1, WordIs, SameWord
  <2>3. x = Match(d, s, q, c, k, r, max) /\ y = Match(e, s, q, c, k, r, max)
    BY <1>3, <1>5, <2>2
  <2>4. q \in Nat /\ k \in Nat
    BY <2>1
  <2> HIDE DEF w
  <2>5. r \in Nat
    BY <2>2, Parts8
  <2> HIDE DEF r, c, q, k
  <2>6. QED BY <2>3, <2>4, <2>5, MatchWaits
<1>6. CASE ~ (l = g /\ Ok(l) /\ Has(d, l.pos, 2))
  <2>1. CASE ~ (Ok(l) /\ Has(d, l.pos, 2))
    <3>1. x = IF ~ Ok(l) THEN Stop(s, l.error) ELSE Stop(s, "Truncated")
      BY <1>3, <2>1
    <3>2. l = g /\ ~ Ok(l) => x = y
      BY <1>3
    <3>3. y \in LzoStates /\ (Running(y) \/ Ok(y) => Ok(g) /\ g.pos + 2 <= y.pos)
      BY <1>2 DEF Steps
    <3>4. QED BY <1>4, <1>6, <3>1, <3>2, <3>3, WordWaits
  <2>2. CASE Ok(l)
    <3>1. l = g
      BY <1>4, <2>2 DEF PosAlike, Ok
    <3>2. QED BY <1>6, <2>1, <2>2, <3>1
  <2>3. QED BY <2>1, <2>2
<1>7. QED BY <1>5, <1>6

(* Also where it is the end marker: a longer window gives the same, or the  *)
(* shorter one ran out.                                                     *)
LEMMA FarMatchWaits ==
  ASSUME NEW d, NEW e, Begins(d, e), NEW s \in LzoStates, Running(s), NEW p \in Nat, p <= Len(d), p >= 1,
         NEW t \in Nat, t = Byte(e, p - 1), NEW max \in Nat,
         NEW x, x = FarMatch(d, s, t, p, max), NEW y, y = FarMatch(e, s, t, p, max)
  PROVE  PosAlike(x, y, Len(d))
<1> DEFINE m == t % 8
           l == Length(d, p, m, 7, max)
           g == Length(e, p, m, 7, max)
<1>1. /\ d \in Seq(Nat) /\ e \in Seq(Nat) /\ p <= Len(e) /\ m \in Nat /\ (t = 17 => m # 0)
  <2>1. d \in Seq(Nat) /\ e \in Seq(Nat) /\ Len(d) \in Nat /\ Len(e) \in Nat /\ Len(d) <= Len(e)
    BY DEF Begins
  <2>2. QED BY <2>1, Parts8, SMTT(30)
<1>3. x = FarOf(d, s, t, l, max) /\ y = FarOf(e, s, t, g, max)
  BY FarMatchOf
<1> HIDE DEF m
<1>4. IsLength(d, p, m, l) /\ IsLength(e, p, m, g) /\ PosAlike(l, g, Len(d))
  BY <1>1, LengthAnswers, LengthWaits
<1> HIDE DEF l, g
<1>2. y \in LzoStates /\ (Running(y) \/ Ok(y) => Ok(g) /\ g.pos + 2 <= y.pos)
  BY <1>1, <1>3, <1>4, FarOfIs, SMTT(30)
<1>5. CASE l = g /\ Ok(l) /\ Has(d, l.pos, 2)
  <2> DEFINE w == Word(d, l.pos)
             far == 16384 * ((t \div 8) % 2) + w \div 4
             c == far + 16384
             r == w % 4
             q == l.pos + 2
             k == l.n + 2
             Rest(z) == IF far # 0 THEN Match(z, s, q, c, k, r, max)
                        ELSE IF t = 17 /\ w = 0 THEN [s EXCEPT !.pos = q, !.error = "none"]
                        ELSE Stop(s, "InvalidData")
  <2>1. l.pos \in Nat /\ l.n \in Nat
    BY <1>4 DEF IsLength
  <2>2. w \in Nat /\ Has(e, l.pos, 2) /\ Word(e, l.pos) = w
    BY <1>1, <1>5, <2>1, WordIs, SameWord, SMTT(30)
  <2>3. x = Rest(d) /\ y = Rest(e)
    BY <1>3, <1>5, <2>2, SMTT(30) DEF FarOf
  <2>4. q \in Nat /\ k \in Nat
    BY <2>1
  <2> HIDE DEF w
  <2>5. r \in Nat
    BY <2>2, Parts8
  <2> HIDE DEF r, c, q, k, far
  <2>6. CASE far # 0
    <3>1. x = Match(d, s, q, c, k, r, max) /\ y = Match(e, s, q, c, k, r, max)
      BY <2>3, <2>6
    <3>2. QED BY <2>4, <2>5, <3>1, MatchWaits
  <2>7. CASE far = 0
    <3>1. x = y
      BY <2>3, <2>7
    <3>2. QED BY <3>1 DEF PosAlike
  <2>8. QED BY <2>6, <2>7
<1>6. CASE ~ (l = g /\ Ok(l) /\ Has(d, l.pos, 2))
  <2>1. CASE ~ (Ok(l) /\ Has(d, l.pos, 2))
    <3>1. x = IF ~ Ok(l) THEN Stop(s, l.error) ELSE Stop(s, "Truncated")
      BY <1>3, <2>1 DEF FarOf
    <3>2. l = g /\ ~ Ok(l) => x = y
      BY <1>3 DEF FarOf
    <3>3. QED BY <1>2, <1>4, <1>6, <3>1, <3>2, WordWaits
  <2>2. CASE Ok(l)
    <3>1. l = g
      BY <1>4, <2>2 DEF PosAlike, Ok
    <3>2. QED BY <1>6, <2>1, <2>2, <3>1
  <2>3. QED BY <2>1, <2>2
<1>7. QED BY <1>5, <1>6

(* An instruction that goes on, or ends the stream, has read on and inside  *)
(* the data; at the end there is the marker.                                *)
LEMMA InstructionIs ==
  ASSUME NEW d \in Seq(Nat), NEW s \in LzoStates, Running(s), NEW max \in Nat,
         NEW b, b = Instruction(d, s, max)
  PROVE  /\ b \in LzoStates /\ (s.out <= max => b.out <= max)
         /\ Running(b) \/ Ok(b) => s.pos < b.pos /\ b.pos <= Len(d)
         /\ Ok(b) => EndsAt(d, b.pos)
<1> DEFINE t == Byte(d, s.pos)
           p == s.pos + 1
<1>1. s.pos \in Nat /\ Len(d) \in Nat /\ p \in Nat /\ p >= 1 /\ p - 1 = s.pos
  BY BytesOf DEF LzoStates
<1>2. CASE ~ Has(d, s.pos, 1)
  <2>1. b = Stop(s, "Truncated")
    BY <1>2 DEF Instruction
  <2>2. QED BY <2>1, StopIs DEF Errors
<1>3. CASE Has(d, s.pos, 1)
  <2>1. t \in Nat /\ p <= Len(d)
    BY <1>1, <1>3, BytesOf
  <2>2. \/ b = NearMatch(d, s, t, p, max)
        \/ b = MiddleMatch(d, s, t, p, max)
        \/ b = FarMatch(d, s, t, p, max)
        \/ b = LiteralRun(d, s, t, p, max)
        \/ b = ShortMatch(d, s, t, p, max)
    BY <1>3 DEF Instruction
  <2>3. t = Byte(d, p - 1)
    BY <1>1
  <2>4. p = s.pos + 1
    OBVIOUS
  <2> HIDE DEF t, p
  <2>5. CASE b = FarMatch(d, s, t, p, max)
    <3>1. /\ b \in LzoStates /\ (s.out <= max => b.out <= max)
          /\ Running(b) \/ Ok(b) => p <= b.pos /\ b.pos <= Len(d)
          /\ Ok(b) => EndsAt(d, b.pos)
      BY <1>1, <2>1, <2>3, <2>5, FarMatchIs
    <3>2. b.pos \in Nat
      BY <3>1 DEF LzoStates
    <3>3. p <= b.pos => s.pos < b.pos
      BY <1>1, <2>4, <3>2
    <3>4. QED BY <3>1, <3>3, Zenon
  <2>6. CASE b = NearMatch(d, s, t, p, max) \/ b = ShortMatch(d, s, t, p, max)
    <3>1. Steps(d, s, b, p + 1, max)
      BY <1>1, <2>1, <2>6, NearMatchIs, ShortMatchIs
    <3>2. b \in LzoStates
      BY <3>1 DEF Steps
    <3>3. b.pos \in Nat
      BY <3>2 DEF LzoStates
    <3>4. QED BY <1>1, <2>4, <3>1, <3>3 DEF Steps
  <2>7. CASE b = MiddleMatch(d, s, t, p, max) \/ b = LiteralRun(d, s, t, p, max)
    <3>1. Steps(d, s, b, p, max)
      BY <1>1, <2>1, <2>7, MiddleMatchIs, LiteralRunIs
    <3>2. b \in LzoStates
      BY <3>1 DEF Steps
    <3>3. b.pos \in Nat
      BY <3>2 DEF LzoStates
    <3>4. QED BY <1>1, <2>4, <3>1, <3>3 DEF Steps
  <2>8. QED BY <2>2, <2>5, <2>6, <2>7
<1>4. QED BY <1>2, <1>3

(* The four ranges of an instruction's first byte, apart from each other.   *)
LEMMA FirstByteRanges ==
  ASSUME NEW t \in Nat
  PROVE  /\ t >= 64 \/ t \in 32 .. 63 \/ t \in 16 .. 31 \/ t < 16
         /\ t >= 64 => t \notin 32 .. 63 /\ t \notin 16 .. 31 /\ ~ (t < 16)
         /\ t \in 32 .. 63 => ~ (t >= 64) /\ t \notin 16 .. 31 /\ ~ (t < 16)
         /\ t \in 16 .. 31 => ~ (t >= 64) /\ t \notin 32 .. 63 /\ ~ (t < 16)
         /\ t < 16 => ~ (t >= 64) /\ t \notin 32 .. 63 /\ t \notin 16 .. 31
OBVIOUS

(* A longer window gives the same instruction, or the shorter one ran out.  *)
LEMMA InstructionWaits ==
  ASSUME NEW d, NEW e, Begins(d, e), NEW s \in LzoStates, Running(s), NEW max \in Nat,
         NEW x, x = Instruction(d, s, max), NEW y, y = Instruction(e, s, max)
  PROVE  PosAlike(x, y, Len(d))
<1> DEFINE t == Byte(e, s.pos)
           p == s.pos + 1
<1>1. /\ d \in Seq(Nat) /\ e \in Seq(Nat) /\ s.pos \in Nat /\ Len(d) \in Nat /\ Len(e) \in Nat
      /\ p \in Nat /\ p >= 1 /\ p - 1 = s.pos
  BY DEF Begins, LzoStates
<1>2. CASE ~ Has(d, s.pos, 1)
  <2>1. x = Stop(s, "Truncated")
    BY <1>2 DEF Instruction
  <2>2. x.error = "Truncated"
    BY <2>1, StopIs DEF Errors
  <2>3. y \in LzoStates /\ (Running(y) \/ Ok(y) => s.pos < y.pos)
    BY <1>1, InstructionIs
  <2>4. y.pos \in Nat
    BY <2>3 DEF LzoStates
  <2>5. ~ (s.pos < Len(d))
    BY <1>1, <1>2, BytesOf
  <2>6. Running(y) \/ Ok(y) => y.pos > Len(d)
    BY <1>1, <2>3, <2>4, <2>5
  <2>7. QED BY <2>2, <2>6 DEF PosAlike
<1>3. CASE Has(d, s.pos, 1)
  <2>1. Has(e, s.pos, 1) /\ t = Byte(d, s.pos) /\ t \in Nat /\ p <= Len(d)
    BY <1>1, <1>3, BytesOf, SameBytes
  <2>2. \/ x = NearMatch(d, s, t, p, max) /\ y = NearMatch(e, s, t, p, max)
        \/ x = MiddleMatch(d, s, t, p, max) /\ y = MiddleMatch(e, s, t, p, max)
        \/ x = FarMatch(d, s, t, p, max) /\ y = FarMatch(e, s, t, p, max)
        \/ x = LiteralRun(d, s, t, p, max) /\ y = LiteralRun(e, s, t, p, max)
        \/ x = ShortMatch(d, s, t, p, max) /\ y = ShortMatch(e, s, t, p, max)
    <3> DEFINE Arm(z) == CASE t >= 64 -> NearMatch(z, s, t, p, max)
                           [] t \in 32 .. 63 -> MiddleMatch(z, s, t, p, max)
                           [] t \in 16 .. 31 -> FarMatch(z, s, t, p, max)
                           [] t < 16 /\ s.state = 0 -> LiteralRun(z, s, t, p, max)
                           [] OTHER -> ShortMatch(z, s, t, p, max)
    <3>1. x = Arm(d)
      BY <1>3, <2>1 DEF Instruction
    <3>2. y = Arm(e)
      BY <2>1 DEF Instruction
    <3>0. t \in Nat
      BY <2>1
    <3> HIDE DEF t, p
    <3>3. CASE t >= 64
      <4>1. t \notin 32 .. 63 /\ t \notin 16 .. 31 /\ ~ (t < 16)
        BY <3>0, <3>3, FirstByteRanges
      <4>2. QED BY <3>1, <3>2, <3>3, <4>1, Zenon
    <3>4. CASE t \in 32 .. 63
      <4>1. ~ (t >= 64) /\ t \notin 16 .. 31 /\ ~ (t < 16)
        BY <3>0, <3>4, FirstByteRanges
      <4>2. QED BY <3>1, <3>2, <3>4, <4>1, Zenon
    <3>5. CASE t \in 16 .. 31
      <4>1. ~ (t >= 64) /\ t \notin 32 .. 63 /\ ~ (t < 16)
        BY <3>0, <3>5, FirstByteRanges
      <4>2. QED BY <3>1, <3>2, <3>5, <4>1, Zenon
    <3>6. CASE t < 16
      <4>1. ~ (t >= 64) /\ t \notin 32 .. 63 /\ t \notin 16 .. 31
        BY <3>0, <3>6, FirstByteRanges
      <4>2. CASE s.state = 0
        BY <3>1, <3>2, <3>6, <4>1, <4>2, Zenon
      <4>3. CASE s.state # 0
        BY <3>1, <3>2, <4>1, <4>3, Zenon
      <4>4. QED BY <4>2, <4>3
    <3>7. t >= 64 \/ t \in 32 .. 63 \/ t \in 16 .. 31 \/ t < 16
      BY <3>0, FirstByteRanges
    <3>8. QED BY <3>3, <3>4, <3>5, <3>6, <3>7, Zenon
  <2>3. t = Byte(e, p - 1)
    BY <1>1
  <2> HIDE DEF t, p
  <2>4. CASE x = NearMatch(d, s, t, p, max) /\ y = NearMatch(e, s, t, p, max)
    BY <1>1, <2>1, <2>4, NearMatchWaits
  <2>5. CASE x = MiddleMatch(d, s, t, p, max) /\ y = MiddleMatch(e, s, t, p, max)
    BY <1>1, <2>1, <2>5, MiddleMatchWaits
  <2>6. CASE x = FarMatch(d, s, t, p, max) /\ y = FarMatch(e, s, t, p, max)
    BY <1>1, <2>1, <2>3, <2>6, FarMatchWaits
  <2>7. CASE x = LiteralRun(d, s, t, p, max) /\ y = LiteralRun(e, s, t, p, max)
    BY <1>1, <2>1, <2>7, LiteralRunWaits
  <2>8. CASE x = ShortMatch(d, s, t, p, max) /\ y = ShortMatch(e, s, t, p, max)
    BY <1>1, <2>1, <2>8, ShortMatchWaits
  <2>9. QED BY <2>2, <2>4, <2>5, <2>6, <2>7, <2>8
<1>4. QED BY <1>2, <1>3

-----------------------------------------------------------------------------
(* LZO: streams.                                                            *)

LzoSteps(d, max) == [s \in LzoStates |-> IF Running(s) THEN Instruction(d, s, max) ELSE s]

LEMMA LzoPos ==
  /\ \A s \in LzoStates : s.pos \in Nat /\ s.out \in Nat /\ Pos(LzoStates)[s] = s.pos
  /\ Pos(LzoStates) \in [LzoStates -> Nat]
  /\ \A s \in Short(LzoStates) : ~ Running(s)
<1>1. \A s \in LzoStates : s.pos \in Nat /\ s.out \in Nat
  BY DEF LzoStates
<1>2. QED BY <1>1, PosIs

LEMMA LzoStepIs ==
  ASSUME NEW d \in Seq(Nat), NEW max \in Nat, NEW s \in LzoStates, NEW b, b = LzoSteps(d, max)[s]
  PROVE  /\ b \in LzoStates /\ (s.out <= max => b.out <= max)
         /\ Forward(s, b, Pos(LzoStates), Len(d))
         /\ Running(s) => (Ok(b) => EndsAt(d, b.pos))
<1>1. b = IF Running(s) THEN Instruction(d, s, max) ELSE s
  BY DEF LzoSteps
<1>2. CASE ~ Running(s)
  <2>1. b = s
    BY <1>1, <1>2
  <2>2. Pos(LzoStates)[s] \in Nat
    BY LzoPos
  <2>3. Forward(s, b, Pos(LzoStates), Len(d))
    BY <1>2, <2>1, <2>2 DEF Forward
  <2>4. QED BY <1>2, <2>1, <2>3
<1>3. CASE Running(s)
  <2>1. /\ b \in LzoStates /\ (s.out <= max => b.out <= max)
        /\ Running(b) \/ Ok(b) => s.pos < b.pos /\ b.pos <= Len(d)
        /\ Ok(b) => EndsAt(d, b.pos)
    BY <1>1, <1>3, InstructionIs
  <2>2. s.pos \in Nat /\ b.pos \in Nat /\ Pos(LzoStates)[s] = s.pos /\ Pos(LzoStates)[b] = b.pos
    BY <2>1, LzoPos
  <2>3. Forward(s, b, Pos(LzoStates), Len(d))
    BY <2>1, <2>2 DEF Forward
  <2>4. QED BY <2>1, <2>3
<1>4. QED BY <1>2, <1>3

(* Decompressing goes forward in the data.                                  *)
LEMMA LzoForward ==
  ASSUME NEW d \in Seq(Nat), NEW max \in Nat
  PROVE  Stepping(LzoSteps(d, max), LzoStates, Pos(LzoStates), Len(d))
<1>1. LzoSteps(d, max) = [s \in LzoStates |-> LzoSteps(d, max)[s]]
  BY DEF LzoSteps
<1>2. \A s \in LzoStates : /\ LzoSteps(d, max)[s] \in LzoStates
                           /\ Forward(s, LzoSteps(d, max)[s], Pos(LzoStates), Len(d))
  BY LzoStepIs
<1>3. QED BY <1>1, <1>2, LzoPos, Zenon DEF Stepping

LEMMA LzoLoops ==
  ASSUME NEW d \in Seq(Nat), NEW max \in Nat
  PROVE  IsLoop(Instructions(d, max), LzoStates, LzoSteps(d, max))
<1> DEFINE Is(run) == run = [s \in LzoStates |-> IF Running(s) THEN run[Instruction(d, s, max)] ELSE s]
<1>1. PICK run : IsLoop(run, LzoStates, LzoSteps(d, max))
  BY LzoForward, SteppingMoves, LoopExists, BytesOf
<1>2. \A f : Is(f) <=> IsLoop(f, LzoStates, LzoSteps(d, max))
  BY DEF IsLoop, LzoSteps
<1>3. Is(run)
  BY <1>1, <1>2
<1>4. Instructions(d, max) = CHOOSE f : Is(f)
  BY DEF Instructions, Loop
<1> HIDE DEF Is
<1>5. Is(Instructions(d, max))
  BY <1>3, <1>4
<1>6. QED BY <1>2, <1>5

FirstState(d, max) ==
  IF Has(d, 0, 1) /\ Byte(d, 0) > 17
  THEN Literals(d, [LzoStart EXCEPT !.pos = 1], Byte(d, 0) - 17, IF Byte(d, 0) - 17 < 4 THEN Byte(d, 0) - 17 ELSE 4, max)
  ELSE LzoStart

LEMMA LzoStartIs ==
  /\ LzoStart \in LzoStates /\ Running(LzoStart) /\ LzoStart.out = 0 /\ LzoStart.pos = 0
  /\ [LzoStart EXCEPT !.pos = 1] \in LzoStates /\ Running([LzoStart EXCEPT !.pos = 1])
  /\ [LzoStart EXCEPT !.pos = 1].out = 0
BY DEF LzoStart, LzoStates, Errors, Running

(* The first run of literals, if there is one, is within the limit.         *)
LEMMA FirstStateIs ==
  ASSUME NEW d \in Seq(Nat), NEW max \in Nat, NEW s, s = FirstState(d, max)
  PROVE  /\ s \in LzoStates /\ s.out <= max /\ ~ Ok(s)
         /\ Running(s) => s.pos <= Len(d)
<1>1. CASE s = LzoStart
  <2>1. Len(d) \in Nat
    BY BytesOf
  <2>2. QED BY <1>1, <2>1, LzoStartIs DEF Ok, Running
<1>2. CASE s # LzoStart
  <2> DEFINE n == Byte(d, 0) - 17
             k == IF n < 4 THEN n ELSE 4
             u == [LzoStart EXCEPT !.pos = 1]
  <2>1. s = Literals(d, u, n, k, max) /\ Has(d, 0, 1) /\ Byte(d, 0) > 17
    BY <1>2 DEF FirstState
  <2>2. n \in Nat /\ k \in Nat
    BY <2>1, BytesOf
  <2> HIDE DEF n, k
  <2>3. u \in LzoStates /\ Running(u) /\ u.out <= max
    BY LzoStartIs
  <2> HIDE DEF u
  <2>4. QED BY <2>1, <2>2, <2>3, LiteralsAre
<1>3. QED BY <1>1, <1>2

LEMMA FirstStateWaits ==
  ASSUME NEW d, NEW e, Begins(d, e), Len(d) > 0, NEW max \in Nat,
         NEW x, x = FirstState(d, max), NEW y, y = FirstState(e, max)
  PROVE  PosAlike(x, y, Len(d))
<1> DEFINE t == Byte(d, 0)
           n == t - 17
           k == IF n < 4 THEN n ELSE 4
           u == [LzoStart EXCEPT !.pos = 1]
<1>1. Has(d, 0, 1) /\ Has(e, 0, 1) /\ t = Byte(e, 0) /\ t \in Nat /\ d \in Seq(Nat) /\ e \in Seq(Nat)
  BY SameBytes, BytesOf, SMTT(30) DEF Begins
<1>2. CASE t > 17
  <2>1. x = Literals(d, u, n, k, max)
    BY <1>1, <1>2 DEF FirstState
  <2>2. y = Literals(e, u, n, k, max)
    BY <1>1, <1>2 DEF FirstState
  <2>3. n \in Nat /\ k \in Nat
    BY <1>1, <1>2
  <2>4. u \in LzoStates /\ Running(u)
    BY LzoStartIs
  <2> HIDE DEF n, k, u
  <2>5. QED BY <2>1, <2>2, <2>3, <2>4, LiteralsWait
<1>3. CASE ~ (t > 17)
  BY <1>1, <1>3 DEF FirstState, PosAlike
<1>4. QED BY <1>2, <1>3

LEMMA DecompressFrom ==
  ASSUME NEW d, NEW max
  PROVE  Decompress(d, max) = Instructions(d, max)[FirstState(d, max)]
BY DEF Decompress, FirstState

(* What is decompressed is within the limit, and ends with the marker.      *)
LEMMA DecompressIs ==
  ASSUME NEW d \in Seq(Nat), NEW max \in Nat, NEW s, s = Decompress(d, max)
  PROVE  /\ s \in LzoStates /\ ~ Running(s) /\ s.out <= max
         /\ Ok(s) => EndsAt(d, s.pos)
<1> DEFINE J == {c \in LzoStates : c.out <= max /\ (Ok(c) => EndsAt(d, c.pos))}
           a == FirstState(d, max)
           step == LzoSteps(d, max)
           run == Instructions(d, max)
<1>1. J \in SUBSET LzoStates
  OBVIOUS
<1>2. a \in J
  BY FirstStateIs
<1>3. \A c \in J : Running(c) => step[c] \in J
  <2> SUFFICES ASSUME NEW c \in J, Running(c) PROVE step[c] \in J
    OBVIOUS
  <2>1. c \in LzoStates /\ c.out <= max
    OBVIOUS
  <2> HIDE DEF J
  <2>2. step[c] \in LzoStates /\ (c.out <= max => step[c].out <= max) /\ (Ok(step[c]) => EndsAt(d, step[c].pos))
    BY <2>1, LzoStepIs
  <2> HIDE DEF step
  <2>3. QED BY <2>1, <2>2 DEF J
<1>4. MovesOn(LzoStates, step, Pos(LzoStates), Len(d))
  BY LzoForward, SteppingMoves, BytesOf
<1>5. IsLoop(run, LzoStates, step)
  BY LzoLoops
<1>6. s = run[a]
  BY DecompressFrom
<1> HIDE DEF J, a, step, run
<1>7. s \in J /\ ~ Running(s)
  BY <1>1, <1>2, <1>3, <1>4, <1>5, <1>6, LoopEnds
<1>8. QED BY <1>7 DEF J

(* A longer window decompresses to the same, or the shorter one ran out.    *)
LEMMA DecompressWaits ==
  ASSUME NEW d, NEW e, Begins(d, e), NEW max \in Nat,
         NEW s, s = Decompress(d, max), NEW t, t = Decompress(e, max)
  PROVE  s = t \/ (s.error = "Truncated" /\ (Ok(t) => t.pos > Len(d)))
<1> DEFINE x == FirstState(d, max)
           y == FirstState(e, max)
           run == Instructions(d, max)
           run2 == Instructions(e, max)
<1>1. /\ d \in Seq(Nat) /\ e \in Seq(Nat) /\ Len(d) \in Nat /\ Len(e) \in Nat
  BY BytesOf DEF Begins
<1>2. s = run[x] /\ t = run2[y]
  BY DecompressFrom
<1>3. /\ IsLoop(run, LzoStates, LzoSteps(d, max)) /\ Stepping(LzoSteps(d, max), LzoStates, Pos(LzoStates), Len(d))
      /\ IsLoop(run2, LzoStates, LzoSteps(e, max)) /\ Stepping(LzoSteps(e, max), LzoStates, Pos(LzoStates), Len(e))
  BY <1>1, LzoLoops, LzoForward
<1>4. /\ x \in LzoStates /\ ~ Ok(x)
      /\ y \in LzoStates /\ ~ Ok(y) /\ (Running(y) => y.pos <= Len(e))
  BY <1>1, FirstStateIs
<1>5. t \in LzoStates /\ (Ok(t) => EndsAt(e, t.pos))
  BY <1>1, DecompressIs
<1>6. CASE Len(d) = 0
  <2>1. x = LzoStart /\ ~ Has(d, 0, 1)
    BY <1>6 DEF FirstState, Has
  <2>2. LzoSteps(d, max)[LzoStart] = Stop(LzoStart, "Truncated")
    BY <2>1, LzoStartIs DEF LzoSteps, Instruction
  <2>3. Stop(LzoStart, "Truncated") \in LzoStates /\ Stop(LzoStart, "Truncated").error = "Truncated"
        /\ ~ Running(Stop(LzoStart, "Truncated"))
    BY LzoStartIs, StopIs DEF Errors
  <2> HIDE DEF x, run
  <2>4. run[x] = Stop(LzoStart, "Truncated")
    BY <1>3, <2>1, <2>2, <2>3, LzoStartIs DEF IsLoop
  <2>5. Ok(t) => t.pos > 0
    BY <1>1, <1>5 DEF EndsAt
  <2>6. QED BY <1>2, <1>6, <2>3, <2>4, <2>5
<1>7. CASE Len(d) > 0
  <2>1. PosAlike(x, y, Len(d))
    BY <1>7, FirstStateWaits
  <2>2. \A a \in LzoStates : Running(a) => Alike(LzoSteps(d, max)[a], LzoSteps(e, max)[a], Pos(LzoStates), Len(d), Short(LzoStates))
    <3> SUFFICES ASSUME NEW a \in LzoStates, Running(a)
                 PROVE  Alike(LzoSteps(d, max)[a], LzoSteps(e, max)[a], Pos(LzoStates), Len(d), Short(LzoStates))
      OBVIOUS
    <3>1. LzoSteps(d, max)[a] = Instruction(d, a, max) /\ LzoSteps(e, max)[a] = Instruction(e, a, max)
      BY DEF LzoSteps
    <3>2. LzoSteps(d, max)[a] \in LzoStates /\ LzoSteps(e, max)[a] \in LzoStates
      BY <1>1, LzoStepIs
    <3>3. PosAlike(Instruction(d, a, max), Instruction(e, a, max), Len(d))
      BY InstructionWaits
    <3>4. QED BY <3>1, <3>2, <3>3, PosAlikeIs
  <2>3. \A a \in Short(LzoStates) : ~ Running(a)
    BY LzoPos
  <2>4. CASE x = y
    <3> HIDE DEF x, y, run, run2
    <3>1. Alike(s, t, Pos(LzoStates), Len(d), Short(LzoStates))
      BY <1>1, <1>2, <1>3, <1>4, <2>2, <2>3, <2>4, SteppingAlike
    <3>2. Pos(LzoStates)[t] = t.pos
      BY <1>5, LzoPos
    <3>3. QED BY <3>1, <3>2 DEF Alike, Past, Short
  <2>5. CASE x.error = "Truncated" /\ (Running(y) => y.pos > Len(d))
    <3> HIDE DEF x, y, run, run2
    <3>1. run[x] = x
      BY <1>3, <1>4, <2>5 DEF IsLoop, Running
    <3>2. CASE Running(y)
      <4>1. Pos(LzoStates)[y] = y.pos /\ y.pos \in Nat /\ y.pos <= Len(e)
        BY <1>4, <3>2, LzoPos
      <4>2. t \in LzoStates /\ (Ok(t) => Pos(LzoStates)[y] <= Pos(LzoStates)[t])
        BY <1>1, <1>2, <1>3, <1>4, <3>2, <4>1, SteppingEnds
      <4>3. Pos(LzoStates)[t] = t.pos /\ t.pos \in Nat
        BY <1>5, LzoPos
      <4>4. Ok(t) => t.pos > Len(d)
        BY <1>1, <2>5, <3>2, <4>1, <4>2, <4>3
      <4>5. QED BY <1>2, <2>5, <3>1, <4>4
    <3>3. CASE ~ Running(y)
      <4>1. run2[y] = y
        BY <1>3, <1>4, <3>3 DEF IsLoop
      <4>2. QED BY <1>2, <1>4, <2>5, <3>1, <4>1
    <3>4. QED BY <3>2, <3>3
  <2>6. QED BY <2>1, <2>4, <2>5 DEF PosAlike
<1>8. QED BY <1>1, <1>6, <1>7

(* A raw LZO stream fits the data and the limit, ends with the marker, and  *)
(* passes the probe.                                                        *)
LEMMA LzoAnswers ==
  ASSUME NEW d \in Seq(Nat), NEW max \in Nat, NEW b, b = LzoDecode(d, max)
  PROVE  /\ b \in Answers /\ ~ Running(b) /\ b.size <= max
         /\ Ok(b) => b.used \in 1 .. Len(d) /\ EndsAt(d, b.used) /\ LzoProbe(d)
<1> DEFINE s == Decompress(d, max)
<1>1. s \in LzoStates /\ ~ Running(s) /\ s.out <= max /\ (Ok(s) => EndsAt(d, s.pos))
  BY DecompressIs
<1>2. b = IF Ok(s) THEN Done(s.pos, s.out) ELSE Fail(s.error)
  BY DEF LzoDecode
<1> HIDE DEF s
<1>3. CASE Ok(s)
  <2>1. s.pos \in Nat /\ s.out \in Nat
    BY <1>1, LzoPos
  <2>2. b \in Answers /\ b.error = "none" /\ b.used = s.pos /\ b.size = s.out
    BY <1>2, <1>3, <2>1, DoneIs
  <2>3. b.used \in 3 .. Len(d) /\ Len(d) \in Nat
    BY <1>1, <1>3, <2>2, BytesOf DEF EndsAt
  <2>4. b.used \in 1 .. Len(d) /\ Len(d) >= 3
    BY <2>3
  <2>5. QED BY <1>1, <1>3, <2>2, <2>4 DEF LzoProbe, Running
<1>4. CASE ~ Ok(s)
  <2>1. s.error \in Errors \ {"going", "none"}
    BY <1>1, <1>4 DEF LzoStates, Ok, Running
  <2>2. QED BY <1>2, <1>4, <2>1, FailIs
<1>5. QED BY <1>3, <1>4

(* A longer window gives the same raw LZO stream, or the shorter one ran    *)
(* out.                                                                     *)
LEMMA LzoWaits ==
  ASSUME NEW d, NEW e, Begins(d, e), NEW max \in Nat
  PROVE  Waited(LzoDecode(d, max), LzoDecode(e, max), Len(d))
<1> DEFINE s == Decompress(d, max)
           t == Decompress(e, max)
           b == LzoDecode(d, max)
           c == LzoDecode(e, max)
<1>1. s = t \/ (s.error = "Truncated" /\ (Ok(t) => t.pos > Len(d)))
  BY DecompressWaits
<1>2. t \in LzoStates /\ ~ Running(t)
  BY DecompressIs DEF Begins
<1>3. b = (IF Ok(s) THEN Done(s.pos, s.out) ELSE Fail(s.error)) /\ c = IF Ok(t) THEN Done(t.pos, t.out) ELSE Fail(t.error)
  BY DEF LzoDecode
<1> SUFFICES Waited(b, c, Len(d))
  OBVIOUS
<1> HIDE DEF s, t, b, c
<1>4. CASE s = t
  BY <1>3, <1>4 DEF Waited
<1>5. CASE s.error = "Truncated" /\ (Ok(t) => t.pos > Len(d))
  <2>1. b = Fail("Truncated")
    BY <1>3, <1>5 DEF Ok
  <2>2. b.error = "Truncated"
    BY <2>1, FailIs DEF Errors
  <2>3. CASE Ok(t)
    <3>1. t.pos \in Nat /\ t.out \in Nat
      BY <1>2, LzoPos
    <3>2. c.used = t.pos
      BY <1>3, <2>3, <3>1, DoneIs
    <3>3. QED BY <1>5, <2>2, <2>3, <3>2 DEF Waited
  <2>4. CASE ~ Ok(t)
    <3>1. t.error \in Errors \ {"going", "none"}
      BY <1>2, <2>4 DEF LzoStates, Ok, Running
    <3>2. ~ Ok(c)
      BY <1>3, <2>4, <3>1, FailIs
    <3>3. QED BY <2>2, <3>2 DEF Waited
  <2>5. QED BY <2>3, <2>4
<1>6. QED BY <1>1, <1>4, <1>5

-----------------------------------------------------------------------------
(* Oodle: blocks.                                                           *)

LEMMA LeastIs ==
  ASSUME NEW a \in Int, NEW b \in Int, NEW c, c = Least(a, b)
  PROVE  c \in Int /\ c <= a /\ c <= b /\ (c = a \/ c = b)
BY DEF Least

(* A block ends behind its header, and what it counts as evidence is in it. *)
LEMMA BlockIs ==
  ASSUME NEW d \in Seq(Nat), NEW pos \in Nat, Has(d, pos, 1), NEW chunk \in Nat, chunk > 0,
         NEW r, NEW b, b = Block(d, pos, chunk, r)
  PROVE  /\ Ok(b) => b.end \in Nat /\ pos < b.end /\ b.evidence \in 0 .. chunk /\ pos + b.evidence <= b.end
         /\ ~ Ok(b) => b.error \in {"Truncated", "InvalidData"}
<1> DEFINE p == pos + 1
           q == Byte(d, p)
           checksum == IF Says(d, pos, 4) THEN 1 ELSE 0
           left == Len(d) - p
           over == IF r # Unknown THEN chunk ELSE Least(chunk, left)
           n == q + 1
           stored == p + over
           last == p + 1 + checksum + n
           filled == p + 2
           found == IF n < chunk THEN n ELSE 0
<1>1. b = IF Says(d, pos, 2) THEN [error |-> "none", evidence |-> 0, end |-> stored]
          ELSE IF ~ Has(d, p, 1) THEN Fail("Truncated")
          ELSE IF q = Filled THEN [error |-> "none", evidence |-> 0, end |-> filled]
          ELSE IF n > chunk THEN Fail("InvalidData")
          ELSE [error |-> "none", evidence |-> found, end |-> last]
  BY DEF Block
<1>2. /\ p \in Nat /\ pos < p /\ checksum \in Nat /\ filled \in Nat /\ pos < filled
      /\ Len(d) \in Nat /\ p <= Len(d)
  BY BytesOf
<1>3. Has(d, p, 1) => q \in Nat
  BY <1>2, BytesOf
<1> HIDE DEF p, q, checksum
<1>4. left \in Nat
  BY <1>2
<1> HIDE DEF left
<1>5. over \in Nat
  BY <1>4 DEF Least
<1> HIDE DEF over
<1>6. stored \in Nat /\ pos < stored
  BY <1>2, <1>5
<1>7. q \in Nat => n \in Nat /\ last \in Nat /\ pos < last /\ found \in 0 .. chunk /\ pos + found <= last
  BY <1>2
<1> HIDE DEF n, stored, last, filled, found
<1>8. CASE Says(d, pos, 2)
  <2>1. b.error = "none" /\ b.evidence = 0 /\ b.end = stored
    BY <1>1, <1>8
  <2>2. QED BY <1>6, <2>1 DEF Ok
<1>9. CASE ~ Says(d, pos, 2) /\ (~ Has(d, p, 1) \/ (q # Filled /\ n > chunk))
  <2>1. b = Fail("Truncated") \/ b = Fail("InvalidData")
    BY <1>1, <1>9
  <2>2. QED BY <2>1, FailIs DEF Errors
<1>10. CASE ~ Says(d, pos, 2) /\ Has(d, p, 1) /\ q = Filled
  <2>1. b.error = "none" /\ b.evidence = 0 /\ b.end = filled
    BY <1>1, <1>10
  <2>2. QED BY <1>2, <2>1 DEF Ok
<1>11. CASE ~ Says(d, pos, 2) /\ Has(d, p, 1) /\ q # Filled /\ ~ (n > chunk)
  <2>1. b.error = "none" /\ b.evidence = found /\ b.end = last
    BY <1>1, <1>11
  <2>2. QED BY <1>3, <1>7, <1>11, <2>1 DEF Ok
<1>12. QED BY <1>8, <1>9, <1>10, <1>11

LEMMA SaysSame ==
  ASSUME NEW d, NEW e, Begins(d, e), NEW p \in Nat, p < Len(d), NEW f
  PROVE  Says(d, p, f) <=> Says(e, p, f)
BY SameBytes DEF Says

(* With a size known, a longer window gives the same block, or the shorter  *)
(* one ran out.                                                             *)
LEMMA BlockWaits ==
  ASSUME NEW d, NEW e, Begins(d, e), NEW pos \in Nat, pos < Len(d), NEW chunk \in Nat, chunk > 0,
         NEW r, r # Unknown,
         NEW x, x = Block(d, pos, chunk, r), NEW y, y = Block(e, pos, chunk, r)
  PROVE  x = y \/ (x.error = "Truncated" /\ (Ok(y) => y.end > Len(d)))
<1> DEFINE p == pos + 1
           q == Byte(e, p)
           checksum == IF Says(e, pos, 4) THEN 1 ELSE 0
           n == q + 1
           stored == p + chunk
           last == p + 1 + checksum + n
           filled == p + 2
           found == IF n < chunk THEN n ELSE 0
           Arm(z) == IF ~ Has(z, p, 1) THEN Fail("Truncated")
                     ELSE IF q = Filled THEN [error |-> "none", evidence |-> 0, end |-> filled]
                     ELSE IF n > chunk THEN Fail("InvalidData")
                     ELSE [error |-> "none", evidence |-> found, end |-> last]
<1>1. /\ d \in Seq(Nat) /\ e \in Seq(Nat) /\ Len(d) \in Nat /\ Len(e) \in Nat /\ Len(d) <= Len(e)
      /\ p \in Nat /\ pos < p /\ filled \in Nat /\ p < filled /\ checksum \in Nat
  BY DEF Begins
<1>2. y = IF Says(e, pos, 2) THEN [error |-> "none", evidence |-> 0, end |-> stored] ELSE Arm(e)
  BY DEF Block
<1>3. /\ Says(d, pos, 2) <=> Says(e, pos, 2)
      /\ Says(d, pos, 4) <=> Says(e, pos, 4)
  BY SaysSame
<1>4. CASE Says(e, pos, 2)
  BY <1>2, <1>3, <1>4 DEF Block
<1>5. CASE ~ Says(e, pos, 2) /\ Has(d, p, 1)
  <2>1. q = Byte(d, p) /\ Has(e, p, 1)
    BY <1>1, <1>5, SameBytes, BytesOf
  <2>2. x = Arm(d)
    BY <1>3, <1>5, <2>1 DEF Block
  <2> HIDE DEF p, q, checksum, n, stored, last, filled, found
  <2>3. QED BY <1>2, <1>5, <2>1, <2>2
<1>6. CASE ~ Says(e, pos, 2) /\ ~ Has(d, p, 1)
  <2>1. x = Fail("Truncated")
    BY <1>3, <1>6 DEF Block
  <2>2. x.error = "Truncated"
    BY <2>1, FailIs DEF Errors
  <2>3. Len(d) <= p
    BY <1>1, <1>6, BytesOf
  <2>4. CASE Has(e, p, 1)
    <3>1. q \in Nat
      BY <1>1, <2>4, BytesOf
    <3> HIDE DEF p, q, checksum
    <3>2. last \in Nat /\ last > p
      BY <1>1, <3>1
    <3> HIDE DEF n, stored, last, filled, found
    <3>3. Ok(y) => y.end = filled \/ y.end = last
      BY <1>2, <1>6, <2>4, FailIs DEF Errors
    <3>4. QED BY <1>1, <2>2, <2>3, <3>2, <3>3
  <2>5. CASE ~ Has(e, p, 1)
    <3>1. y = Fail("Truncated")
      BY <1>2, <1>6, <2>5
    <3>2. QED BY <2>1, <3>1
  <2>6. QED BY <2>4, <2>5
<1>7. QED BY <1>4, <1>5, <1>6

(* The same block, its output's size known, and not.                        *)
LEMMA BlockPair ==
  ASSUME NEW d \in Seq(Nat), NEW pos \in Nat, Has(d, pos, 1), NEW chunk \in 1 .. BlockSize,
         NEW r, r # Unknown,
         NEW x, x = Block(d, pos, chunk, r), NEW y, y = Block(d, pos, BlockSize, Unknown),
         Ok(x), x.end <= Len(d), chunk = BlockSize \/ x.end = Len(d)
  PROVE  /\ Ok(y) /\ y.end = x.end /\ y.evidence \in x.evidence .. x.evidence + BlockSize
         /\ chunk = BlockSize => y.evidence = x.evidence
<1> DEFINE p == pos + 1
           q == Byte(d, p)
           checksum == IF Says(d, pos, 4) THEN 1 ELSE 0
           left == Len(d) - p
           over == Least(BlockSize, left)
           n == q + 1
           last == p + 1 + checksum + n
           filled == p + 2
           found == IF n < chunk THEN n ELSE 0
           found2 == IF n < BlockSize THEN n ELSE 0
           stored == p + chunk
           stored2 == p + over
<1>1. BlockSize \in Nat /\ chunk \in Nat /\ 0 < chunk /\ chunk <= BlockSize
  BY BlocksAssumption
<1>2. x = IF Says(d, pos, 2) THEN [error |-> "none", evidence |-> 0, end |-> stored]
          ELSE IF ~ Has(d, p, 1) THEN Fail("Truncated")
          ELSE IF q = Filled THEN [error |-> "none", evidence |-> 0, end |-> filled]
          ELSE IF n > chunk THEN Fail("InvalidData")
          ELSE [error |-> "none", evidence |-> found, end |-> last]
  BY DEF Block
<1>3. y = IF Says(d, pos, 2) THEN [error |-> "none", evidence |-> 0, end |-> stored2]
          ELSE IF ~ Has(d, p, 1) THEN Fail("Truncated")
          ELSE IF q = Filled THEN [error |-> "none", evidence |-> 0, end |-> filled]
          ELSE IF n > BlockSize THEN Fail("InvalidData")
          ELSE [error |-> "none", evidence |-> found2, end |-> last]
  BY DEF Block
<1>4. p \in Nat /\ Len(d) \in Nat /\ left \in Int
  BY BytesOf
<1>5. stored <= Len(d) /\ (chunk = BlockSize \/ stored = Len(d)) => stored2 = stored
  <2> SUFFICES ASSUME stored <= Len(d), chunk = BlockSize \/ stored = Len(d) PROVE stored2 = stored
    OBVIOUS
  <2>1. chunk <= left /\ (chunk = BlockSize \/ chunk = left)
    BY <1>1, <1>4
  <2> HIDE DEF p, left
  <2>2. over = chunk
    BY <1>1, <1>4, <2>1 DEF Least
  <2>3. QED BY <2>2
<1>6. Has(d, p, 1) => q \in Nat
  BY <1>4, BytesOf
<1> HIDE DEF p, q, checksum, left, over
<1>7. q \in Nat => n \in Nat /\ found \in Nat /\ found2 \in found .. found + BlockSize /\ (chunk = BlockSize => found2 = found)
  BY <1>1
<1>8. q \in Nat /\ n <= chunk => ~ (n > BlockSize) /\ ~ (n > chunk)
  BY <1>1
<1> HIDE DEF n, last, filled, found, found2, stored, stored2
<1>9. CASE Says(d, pos, 2)
  <2>1. x.error = "none" /\ x.evidence = 0 /\ x.end = stored
    BY <1>2, <1>9
  <2>2. y.error = "none" /\ y.evidence = 0 /\ y.end = stored2
    BY <1>3, <1>9
  <2>3. stored2 = stored
    BY <1>5, <2>1
  <2>4. QED BY <1>1, <2>1, <2>2, <2>3 DEF Ok
<1>10. CASE ~ Says(d, pos, 2) /\ (~ Has(d, p, 1) \/ (q # Filled /\ n > chunk))
  <2>1. x = Fail("Truncated") \/ x = Fail("InvalidData")
    BY <1>2, <1>10
  <2>2. QED BY <2>1, FailIs DEF Errors
<1>11. CASE ~ Says(d, pos, 2) /\ Has(d, p, 1) /\ q = Filled
  <2>1. x.error = "none" /\ x.evidence = 0 /\ y = x
    BY <1>2, <1>3, <1>11
  <2>2. QED BY <1>1, <2>1 DEF Ok
<1>12. CASE ~ Says(d, pos, 2) /\ Has(d, p, 1) /\ q # Filled /\ ~ (n > chunk)
  <2>1. n <= chunk
    BY <1>1, <1>6, <1>7, <1>12
  <2>2. ~ (n > BlockSize)
    BY <1>6, <1>8, <1>12, <2>1
  <2>3. x.error = "none" /\ x.evidence = found /\ x.end = last
    BY <1>2, <1>12
  <2>4. y.error = "none" /\ y.evidence = found2 /\ y.end = last
    BY <1>3, <1>12, <2>2
  <2>5. QED BY <1>6, <1>7, <1>12, <2>3, <2>4 DEF Ok
<1>13. QED BY <1>9, <1>10, <1>11, <1>12

-----------------------------------------------------------------------------
(* Oodle: walks along the blocks.                                           *)

Chunk(r, w) == IF r = Unknown THEN BlockSize ELSE Least(r - w.size, BlockSize)
Over(d, r, w) == IF r = Unknown THEN w.used >= Len(d) ELSE w.size >= r

Stepped(d, r, w, chunk, block) ==
  IF Over(d, r, w) THEN EndWalk(w, "none")
  ELSE IF ~ IsHeader(d, w.used) THEN EndWalk(w, "InvalidData")
  ELSE IF w.used = 0 /\ ~ Says(d, 0, 1) THEN EndWalk(w, "BadHeader")
  ELSE IF Says(d, w.used, 8) THEN EndWalk(w, "SizeRequired")
  ELSE IF ~ Ok(block) THEN EndWalk(w, block.error)
  ELSE IF block.end > Len(d) THEN EndWalk(w, "Truncated")
  ELSE [error |-> "going", used |-> block.end, size |-> w.size + chunk,
        evidence |-> w.evidence + block.evidence]

LEMMA WalkStepOf ==
  ASSUME NEW d, NEW r, NEW w
  PROVE  WalkStep(d, r, w) = Stepped(d, r, w, Chunk(r, w), Block(d, w.used, Chunk(r, w), r))
BY DEF WalkStep, Stepped, Chunk, Over

(* A block gives a full block's output, except the last one, which gives    *)
(* the rest.                                                                *)
LEMMA ChunkIs ==
  ASSUME NEW d, NEW r \in Nat \cup {Unknown}, NEW w \in Walks, ~ Over(d, r, w), NEW c, c = Chunk(r, w)
  PROVE  /\ c \in 1 .. BlockSize
         /\ r = Unknown => c = BlockSize
         /\ r # Unknown => w.size < r /\ w.size + c <= r /\ (c = BlockSize \/ w.size + c = r)
<1>1. BlockSize \in Nat /\ BlockSize > 0 /\ w.size \in Nat
  BY BlocksAssumption DEF Walks
<1>2. CASE r = Unknown
  BY <1>1, <1>2 DEF Chunk
<1>3. CASE r # Unknown
  <2>1. r \in Nat /\ w.size < r
    BY <1>1, <1>3 DEF Over
  <2> DEFINE left == r - w.size
  <2>2. left \in Nat /\ left > 0 /\ w.size + left = r
    BY <1>1, <2>1
  <2>3. c = Least(left, BlockSize)
    BY <1>3 DEF Chunk
  <2> HIDE DEF left
  <2>4. QED BY <1>1, <1>3, <2>1, <2>2, <2>3 DEF Least
<1>4. QED BY <1>2, <1>3

LEMMA EndWalkIs ==
  ASSUME NEW w \in Walks, NEW x \in Errors, NEW b, b = EndWalk(w, x)
  PROVE  b \in Walks /\ b.error = x /\ b.used = w.used /\ b.size = w.size /\ b.evidence = w.evidence
BY DEF Walks, EndWalk

(* A step ends where it is, at the end or with an error, or goes over one   *)
(* block.                                                                   *)
LEMMA WalkStepIs ==
  ASSUME NEW d \in Seq(Nat), NEW r \in Nat \cup {Unknown}, NEW w \in Walks,
         NEW c, c = Chunk(r, w), NEW x, x = Block(d, w.used, c, r), NEW b, b = WalkStep(d, r, w)
  PROVE  \/ Over(d, r, w) /\ b = EndWalk(w, "none")
         \/ ~ Over(d, r, w) /\ \E error \in {"InvalidData", "BadHeader", "SizeRequired", "Truncated"} : b = EndWalk(w, error)
         \/ /\ ~ Over(d, r, w) /\ IsHeader(d, w.used) /\ Ok(x) /\ x.end \in Nat /\ w.used < x.end /\ x.end <= Len(d)
            /\ x.evidence \in 0 .. c /\ (w.used = 0 => Says(d, 0, 1)) /\ ~ Says(d, w.used, 8)
            /\ b = [error |-> "going", used |-> x.end, size |-> w.size + c, evidence |-> w.evidence + x.evidence]
<1>1. b = Stepped(d, r, w, c, x)
  BY WalkStepOf
<1>2. w.used \in Nat /\ w.size \in Nat /\ w.evidence \in Nat /\ Len(d) \in Nat
  BY BytesOf DEF Walks
<1>3. CASE Over(d, r, w)
  BY <1>1, <1>3 DEF Stepped
<1>4. CASE ~ Over(d, r, w) /\ (~ IsHeader(d, w.used) \/ (w.used = 0 /\ ~ Says(d, 0, 1)) \/ Says(d, w.used, 8))
  BY <1>1, <1>4 DEF Stepped
<1>5. CASE ~ Over(d, r, w) /\ IsHeader(d, w.used) /\ ~ (w.used = 0 /\ ~ Says(d, 0, 1)) /\ ~ Says(d, w.used, 8)
  <2>1. c \in Nat /\ c > 0
    BY <1>5, ChunkIs, BlocksAssumption
  <2>2. Has(d, w.used, 1)
    BY <1>5 DEF IsHeader
  <2>3. /\ Ok(x) => x.end \in Nat /\ w.used < x.end /\ x.evidence \in 0 .. c
        /\ ~ Ok(x) => x.error \in {"Truncated", "InvalidData"}
    BY <1>2, <2>1, <2>2, BlockIs
  <2>4. b = IF ~ Ok(x) THEN EndWalk(w, x.error)
            ELSE IF x.end > Len(d) THEN EndWalk(w, "Truncated")
            ELSE [error |-> "going", used |-> x.end, size |-> w.size + c, evidence |-> w.evidence + x.evidence]
    BY <1>1, <1>5 DEF Stepped
  <2>5. CASE ~ Ok(x) \/ x.end > Len(d)
    BY <1>5, <2>3, <2>4, <2>5
  <2>6. CASE Ok(x) /\ ~ (x.end > Len(d))
    <3>1. x.end <= Len(d)
      BY <1>2, <2>3, <2>6
    <3>2. b = [error |-> "going", used |-> x.end, size |-> w.size + c, evidence |-> w.evidence + x.evidence]
      BY <2>4, <2>6
    <3>3. QED BY <1>5, <2>3, <2>6, <3>1, <3>2
  <2>7. QED BY <2>5, <2>6
<1>6. QED BY <1>3, <1>4, <1>5

WalkUsed == [w \in Walks |-> w.used]
WalkSteps(d, r) == [w \in Walks |-> WalkStep(d, r, w)]
Walking(d, r) == Loop(Walks, LAMBDA w : WalkStep(d, r, w))

LEMMA WalkUsedIs ==
  /\ WalkUsed \in [Walks -> Nat]
  /\ \A w \in Walks : WalkUsed[w] = w.used /\ w.used \in Nat /\ w.size \in Nat /\ w.evidence \in Nat /\ w.error \in Errors
BY DEF WalkUsed, Walks

LEMMA OverBlockIs ==
  ASSUME NEW u \in Nat, NEW s \in Nat, NEW v \in Nat,
         NEW b, b = [error |-> "going", used |-> u, size |-> s, evidence |-> v]
  PROVE  b \in Walks /\ Running(b) /\ ~ Ok(b) /\ b.used = u /\ b.size = s /\ b.evidence = v
BY DEF Walks, Errors, Running, Ok

LEMMA WalkStartIs ==
  /\ WalkStart \in Walks /\ Running(WalkStart) /\ ~ Ok(WalkStart)
  /\ WalkStart.used = 0 /\ WalkStart.size = 0 /\ WalkStart.evidence = 0
BY DEF WalkStart, Walks, Errors, Running, Ok

(* A walk that ends where it is, and one that goes on over the block x.      *)
Halts(d, r, w, b) ==
  /\ b \in Walks /\ ~ Running(b) /\ b.used = w.used /\ b.size = w.size /\ b.evidence = w.evidence
  /\ Ok(b) <=> Over(d, r, w)

Goes(d, r, w, c, x, b) ==
  /\ ~ Over(d, r, w) /\ IsHeader(d, w.used) /\ Ok(x) /\ x.end \in Nat /\ w.used < x.end /\ x.end <= Len(d)
  /\ w.used = 0 => Says(d, 0, 1)
  /\ ~ Says(d, w.used, 8)
  /\ b \in Walks /\ Running(b) /\ ~ Ok(b)
  /\ b.used = x.end /\ b.size = w.size + c /\ b.evidence = w.evidence + x.evidence

(* A step halts where it is, or goes past one block.                        *)
LEMMA WalkStepEnds ==
  ASSUME NEW d \in Seq(Nat), NEW r \in Nat \cup {Unknown}, NEW w \in Walks,
         NEW c, c = Chunk(r, w), NEW x, x = Block(d, w.used, c, r), NEW b, b = WalkStep(d, r, w)
  PROVE  Halts(d, r, w, b) \/ Goes(d, r, w, c, x, b)
<1>1. \/ Over(d, r, w) /\ b = EndWalk(w, "none")
      \/ ~ Over(d, r, w) /\ \E error \in {"InvalidData", "BadHeader", "SizeRequired", "Truncated"} : b = EndWalk(w, error)
      \/ /\ ~ Over(d, r, w) /\ IsHeader(d, w.used) /\ Ok(x) /\ x.end \in Nat /\ w.used < x.end /\ x.end <= Len(d)
         /\ x.evidence \in 0 .. c /\ (w.used = 0 => Says(d, 0, 1)) /\ ~ Says(d, w.used, 8)
         /\ b = [error |-> "going", used |-> x.end, size |-> w.size + c, evidence |-> w.evidence + x.evidence]
  BY WalkStepIs
<1>2. CASE Over(d, r, w) /\ b = EndWalk(w, "none")
  <2>1. b \in Walks /\ b.error = "none" /\ b.used = w.used /\ b.size = w.size /\ b.evidence = w.evidence
    BY <1>2, EndWalkIs DEF Errors
  <2>2. QED BY <1>2, <2>1 DEF Ok, Running, Halts
<1>3. CASE ~ Over(d, r, w) /\ \E error \in {"InvalidData", "BadHeader", "SizeRequired", "Truncated"} : b = EndWalk(w, error)
  <2>1. PICK error \in {"InvalidData", "BadHeader", "SizeRequired", "Truncated"} : b = EndWalk(w, error)
    BY <1>3
  <2>2. b \in Walks /\ b.error = error /\ b.used = w.used /\ b.size = w.size /\ b.evidence = w.evidence
    BY <2>1, EndWalkIs DEF Errors
  <2>3. QED BY <1>3, <2>1, <2>2 DEF Ok, Running, Halts
<1>4. CASE /\ ~ Over(d, r, w) /\ IsHeader(d, w.used) /\ Ok(x) /\ x.end \in Nat /\ w.used < x.end /\ x.end <= Len(d)
           /\ x.evidence \in 0 .. c /\ (w.used = 0 => Says(d, 0, 1)) /\ ~ Says(d, w.used, 8)
           /\ b = [error |-> "going", used |-> x.end, size |-> w.size + c, evidence |-> w.evidence + x.evidence]
  <2> DEFINE s == w.size + c
             v == w.evidence + x.evidence
  <2>1. c \in Nat
    BY <1>4, ChunkIs, BlocksAssumption
  <2>2. s \in Nat /\ v \in Nat
    BY <1>4, <2>1, WalkUsedIs, SMTT(30)
  <2>3. b = [error |-> "going", used |-> x.end, size |-> s, evidence |-> v]
    BY <1>4
  <2> HIDE DEF s, v
  <2>4. b \in Walks /\ Running(b) /\ ~ Ok(b) /\ b.used = x.end /\ b.size = s /\ b.evidence = v
    BY <1>4, <2>2, <2>3, OverBlockIs
  <2>5. QED BY <1>4, <2>4 DEF s, v, Goes
<1>5. QED BY <1>1, <1>2, <1>3, <1>4

(* A walk goes forward in the data.                                         *)
LEMMA WalkForward ==
  ASSUME NEW d \in Seq(Nat), NEW r \in Nat \cup {Unknown}
  PROVE  Stepping(WalkSteps(d, r), Walks, WalkUsed, Len(d))
<1>1. WalkSteps(d, r) = [w \in Walks |-> WalkSteps(d, r)[w]]
  BY DEF WalkSteps
<1>2. ASSUME NEW w \in Walks
      PROVE  /\ WalkSteps(d, r)[w] \in Walks
             /\ Forward(w, WalkSteps(d, r)[w], WalkUsed, Len(d))
  <2> DEFINE b == WalkSteps(d, r)[w]
  <2>1. b = WalkStep(d, r, w)
    BY DEF WalkSteps
  <2> HIDE DEF b
  <2>2. \E c, x : Halts(d, r, w, b) \/ Goes(d, r, w, c, x, b)
    BY <2>1, WalkStepEnds
  <2>3. Forward(w, b, WalkUsed, Len(d))
    BY <2>2, WalkUsedIs DEF Forward, Halts, Goes, Ok, Running
  <2>4. QED BY <2>2, <2>3 DEF b, Halts, Goes
<1>3. QED BY <1>1, <1>2, WalkUsedIs, Zenon DEF Stepping

LEMMA WalkLoops ==
  ASSUME NEW d \in Seq(Nat), NEW r \in Nat \cup {Unknown}
  PROVE  IsLoop(Walking(d, r), Walks, WalkSteps(d, r))
<1>1. \E run : IsLoop(run, Walks, WalkSteps(d, r))
  BY WalkForward, SteppingMoves, LoopExists, BytesOf
<1>2. QED BY <1>1, ZenonT(40) DEF Walking, Loop, IsLoop, WalkSteps

LEMMA WalkFrom ==
  ASSUME NEW d, NEW r
  PROVE  Walk(d, r) = Walking(d, r)[WalkStart]
BY DEF Walk, Walking

(* A walk ends inside the data and, without an error, with its output       *)
(* whole.                                                                   *)
LEMMA WalkIs ==
  ASSUME NEW d \in Seq(Nat), NEW r \in Nat \cup {Unknown}, NEW w, w = Walk(d, r)
  PROVE  /\ w \in Walks /\ ~ Running(w) /\ w.used <= Len(d)
         /\ w.used = 0 => w.size = 0
         /\ w.used > 0 => OodleProbe(d)
         /\ Ok(w) => Over(d, r, w)
         /\ r # Unknown => w.size <= r
<1> DEFINE Good(v) == /\ v.used <= Len(d)
                      /\ v.used = 0 => v.size = 0
                      /\ v.used > 0 => OodleProbe(d)
                      /\ Ok(v) => Over(d, r, v)
                      /\ r # Unknown => v.size <= r
           J == {v \in Walks : Good(v)}
           step == WalkSteps(d, r)
           run == Walking(d, r)
<1>1. J \in SUBSET Walks
  OBVIOUS
<1>2. WalkStart \in J
  BY WalkStartIs, BytesOf
<1>3. \A v \in J : Running(v) => step[v] \in J
  <2> SUFFICES ASSUME NEW v \in J, Running(v) PROVE step[v] \in J
    OBVIOUS
  <2> DEFINE b == step[v]
             c == Chunk(r, v)
             x == Block(d, v.used, c, r)
  <2>1. v \in Walks /\ Good(v)
    OBVIOUS
  <2>2. b = WalkStep(d, r, v)
    BY DEF WalkSteps
  <2>3. c = Chunk(r, v) /\ x = Block(d, v.used, c, r)
    OBVIOUS
  <2>4. v.used \in Nat /\ v.size \in Nat /\ Len(d) \in Nat
    BY WalkUsedIs, BytesOf
  <2> HIDE DEF b, c, x, Good
  <2>5. CASE Halts(d, r, v, b)
    <3>1. Over(d, r, b) <=> Over(d, r, v)
      BY <2>5 DEF Over, Halts
    <3>2. Good(b)
      BY <2>1, <2>5, <3>1 DEF Good, Halts
    <3>3. QED BY <2>5, <3>2 DEF b, Halts
  <2>6. CASE Goes(d, r, v, c, x, b)
    <3>1. r # Unknown => v.size + c <= r
      BY <2>1, <2>3, <2>6, ChunkIs DEF Goes
    <3>2. OodleProbe(d)
      <4>1. CASE v.used = 0
        BY <2>6, <4>1 DEF OodleProbe, Goes
      <4>2. CASE v.used # 0
        BY <2>1, <2>4, <4>2 DEF Good
      <4>3. QED BY <4>1, <4>2
    <3>3. b.used # 0
      BY <2>4, <2>6 DEF Goes
    <3>4. Good(b)
      BY <2>6, <3>1, <3>2, <3>3 DEF Good, Goes
    <3>5. QED BY <2>6, <3>4 DEF b, Goes
  <2>7. QED BY <2>1, <2>2, <2>3, <2>5, <2>6, WalkStepEnds
<1>4. MovesOn(Walks, step, WalkUsed, Len(d))
  BY WalkForward, SteppingMoves, BytesOf
<1>5. IsLoop(run, Walks, step)
  BY WalkLoops
<1>6. w = run[WalkStart]
  BY WalkFrom
<1> HIDE DEF J, step, run
<1>7. w \in J /\ ~ Running(w)
  BY <1>1, <1>2, <1>3, <1>4, <1>5, <1>6, LoopEnds
<1>8. QED BY <1>7 DEF J

(* A walk that waits for more than n bytes: for the rest of a block, or for *)
(* the header of the next one.                                              *)
WalkWaits(n) == {w \in Walks : w.error = "Truncated" \/ (w.error = "InvalidData" /\ w.used >= n)}

LEMMA WalkStepAlike ==
  ASSUME NEW d, NEW e, Begins(d, e), NEW r \in Nat, NEW w \in Walks
  PROVE  Alike(WalkStep(d, r, w), WalkStep(e, r, w), WalkUsed, Len(d), WalkWaits(Len(d)))
<1> DEFINE c == Chunk(r, w)
           x == Block(d, w.used, c, r)
           y == Block(e, w.used, c, r)
           a == WalkStep(d, r, w)
           b == WalkStep(e, r, w)
<1>1. /\ d \in Seq(Nat) /\ e \in Seq(Nat) /\ Len(d) \in Nat /\ Len(e) \in Nat /\ Len(d) <= Len(e)
      /\ w.used \in Nat /\ r # Unknown /\ r \in Nat \cup {Unknown}
  BY WalkUsedIs DEF Begins, Unknown
<1>2. a = Stepped(d, r, w, c, x) /\ b = Stepped(e, r, w, c, y)
  BY WalkStepOf
<1>3. Over(d, r, w) <=> Over(e, r, w)
  BY <1>1 DEF Over
<1>4. Halts(e, r, w, b) \/ Goes(e, r, w, c, y, b)
  BY <1>1, WalkStepEnds
<1>5. ~ Over(d, r, w) => c \in Nat /\ c > 0
  BY <1>1, ChunkIs, BlocksAssumption
<1>6. \A s \in {"Truncated", "InvalidData"} : EndWalk(w, s) \in Walks /\ EndWalk(w, s).error = s /\ EndWalk(w, s).used = w.used
  BY EndWalkIs DEF Errors
<1>7. Goes(e, r, w, c, y, b) => WalkUsed[b] = y.end /\ w.used < y.end /\ y.end \in Nat /\ Ok(y)
  BY WalkUsedIs DEF Goes
<1>8. CASE Over(d, r, w)
  BY <1>2, <1>3, <1>8 DEF Stepped, Alike
<1>9. CASE ~ Over(d, r, w) /\ Len(d) <= w.used
  <2>1. ~ IsHeader(d, w.used)
    BY <1>1, <1>9, BytesOf DEF IsHeader
  <2>2. a = EndWalk(w, "InvalidData")
    BY <1>2, <1>9, <2>1 DEF Stepped
  <2>3. a \in WalkWaits(Len(d))
    BY <1>1, <1>6, <1>9, <2>2 DEF WalkWaits
  <2>4. CASE Halts(e, r, w, b)
    BY <1>3, <1>9, <2>3, <2>4 DEF Halts, Alike, Past
  <2>5. CASE Goes(e, r, w, c, y, b)
    <3>1. WalkUsed[b] > Len(d)
      BY <1>1, <1>7, <1>9, <2>5
    <3>2. QED BY <2>3, <3>1 DEF Alike, Past
  <2>6. QED BY <1>4, <2>4, <2>5
<1>10. CASE ~ Over(d, r, w) /\ w.used < Len(d)
  <2>1. /\ IsHeader(d, w.used) <=> IsHeader(e, w.used)
        /\ Says(d, w.used, 8) <=> Says(e, w.used, 8)
        /\ w.used = 0 => (Says(d, 0, 1) <=> Says(e, 0, 1))
    <3>1. Has(d, w.used, 1) /\ Has(e, w.used, 1) /\ Byte(e, w.used) = Byte(d, w.used)
      BY <1>1, <1>10, BytesOf, SameBytes
    <3>2. Says(d, w.used, 8) <=> Says(e, w.used, 8)
      BY <1>1, <1>10, SaysSame
    <3>3. w.used = 0 => (Says(d, 0, 1) <=> Says(e, 0, 1))
      BY <1>1, <1>10, SaysSame
    <3>4. QED BY <3>1, <3>2, <3>3 DEF IsHeader
  <2>2. x = y \/ (x.error = "Truncated" /\ (Ok(y) => y.end > Len(d)))
    BY <1>1, <1>5, <1>10, BlockWaits
  <2>3. IsHeader(d, w.used) => Has(e, w.used, 1)
    BY <2>1 DEF IsHeader
  <2> DEFINE stop == ~ IsHeader(d, w.used) \/ (w.used = 0 /\ ~ Says(d, 0, 1)) \/ Says(d, w.used, 8)
  <2>4. CASE stop
    <3>1. a = b
      BY <1>2, <1>3, <1>10, <2>1, <2>4 DEF Stepped
    <3>2. QED BY <3>1 DEF Alike
  <2>5. CASE ~ stop
    <3>1. a = IF ~ Ok(x) THEN EndWalk(w, x.error)
              ELSE IF x.end > Len(d) THEN EndWalk(w, "Truncated")
              ELSE [error |-> "going", used |-> x.end, size |-> w.size + c, evidence |-> w.evidence + x.evidence]
      BY <1>2, <1>10, <2>5 DEF Stepped
    <3>2. b = IF ~ Ok(y) THEN EndWalk(w, y.error)
              ELSE IF y.end > Len(e) THEN EndWalk(w, "Truncated")
              ELSE [error |-> "going", used |-> y.end, size |-> w.size + c, evidence |-> w.evidence + y.evidence]
      BY <1>2, <1>3, <1>10, <2>1, <2>5 DEF Stepped
    <3>3. CASE x.error = "Truncated" \/ (Ok(x) /\ x.end > Len(d))
      <4>1. a = EndWalk(w, "Truncated")
        BY <3>1, <3>3 DEF Ok
      <4>2. a \in WalkWaits(Len(d))
        BY <1>6, <4>1 DEF WalkWaits
      <4>3. Ok(y) => y.end > Len(d)
        BY <2>2, <3>3 DEF Ok
      <4>4. CASE Halts(e, r, w, b)
        BY <1>3, <1>10, <4>2, <4>4 DEF Halts, Alike, Past
      <4>5. CASE Goes(e, r, w, c, y, b)
        BY <1>7, <4>2, <4>3, <4>5 DEF Alike, Past
      <4>6. QED BY <1>4, <4>4, <4>5
    <3>4. CASE x = y /\ ~ Ok(x)
      BY <3>1, <3>2, <3>4 DEF Alike
    <3>5. CASE x = y /\ Ok(x) /\ ~ (x.end > Len(d))
      <4>1. Has(d, w.used, 1)
        BY <1>1, <1>10, BytesOf
      <4>2. x.end \in Nat
        BY <1>1, <1>5, <1>10, <3>5, <4>1, BlockIs
      <4>3. ~ (y.end > Len(e))
        BY <1>1, <3>5, <4>2
      <4> HIDE DEF c, x, y, a, b
      <4>4. a = b
        BY <3>1, <3>2, <3>5, <4>3
      <4>5. Alike(a, b, WalkUsed, Len(d), WalkWaits(Len(d)))
        BY <4>4 DEF Alike
      <4>6. QED BY <4>5 DEF a, b
    <3>6. QED BY <2>2, <3>3, <3>4, <3>5
  <2>6. QED BY <2>4, <2>5
<1>11. QED BY <1>1, <1>8, <1>9, <1>10

(* With a size known, a longer window gives the same walk, or the shorter   *)
(* one ran out: in a block, or in front of one.                             *)
LEMMA WalksAlike ==
  ASSUME NEW d, NEW e, Begins(d, e), NEW r \in Nat,
         NEW a, a = Walk(d, r), NEW b, b = Walk(e, r)
  PROVE  \/ a = b
         \/ /\ a.error = "Truncated" \/ (a.error = "InvalidData" /\ a.used = Len(d))
            /\ Ok(b) => b.used > Len(d)
<1>1. d \in Seq(Nat) /\ e \in Seq(Nat) /\ Len(d) \in Nat /\ Len(e) \in Nat /\ r \in Nat \cup {Unknown}
  BY DEF Begins
<1>2. a = Walking(d, r)[WalkStart] /\ b = Walking(e, r)[WalkStart]
  BY WalkFrom
<1>3. /\ Stepping(WalkSteps(d, r), Walks, WalkUsed, Len(d)) /\ IsLoop(Walking(d, r), Walks, WalkSteps(d, r))
      /\ Stepping(WalkSteps(e, r), Walks, WalkUsed, Len(e)) /\ IsLoop(Walking(e, r), Walks, WalkSteps(e, r))
  BY <1>1, WalkForward, WalkLoops
<1>4. \A w \in Walks : Alike(WalkSteps(d, r)[w], WalkSteps(e, r)[w], WalkUsed, Len(d), WalkWaits(Len(d)))
  BY WalkStepAlike DEF WalkSteps
<1>5. \A w \in WalkWaits(Len(d)) : ~ Running(w)
  BY DEF WalkWaits, Running
<1>6. Alike(a, b, WalkUsed, Len(d), WalkWaits(Len(d)))
  <2> DEFINE n == Len(d)
             n2 == Len(e)
             step == WalkSteps(d, r)
             step2 == WalkSteps(e, r)
             run == Walking(d, r)
             run2 == Walking(e, r)
             W == WalkWaits(n)
  <2>1. /\ n \in Nat /\ n2 \in Nat
        /\ Stepping(step, Walks, WalkUsed, n) /\ Stepping(step2, Walks, WalkUsed, n2)
        /\ \A w \in W : ~ Running(w)
        /\ \A w \in Walks : Running(w) => Alike(step[w], step2[w], WalkUsed, n, W)
        /\ IsLoop(run, Walks, step) /\ IsLoop(run2, Walks, step2) /\ WalkStart \in Walks
        /\ a = run[WalkStart] /\ b = run2[WalkStart]
    BY <1>1, <1>2, <1>3, <1>4, <1>5, WalkStartIs
  <2> HIDE DEF n, n2, step, step2, run, run2, W
  <2>2. Alike(a, b, WalkUsed, n, W)
    BY <2>1, SteppingAlike
  <2>3. QED BY <2>2 DEF n, W
<1>7. a \in Walks /\ a.used <= Len(d) /\ b \in Walks
  BY <1>1, WalkIs
<1>8. WalkUsed[b] = b.used /\ a.used \in Nat
  BY <1>7, WalkUsedIs
<1>9. QED BY <1>1, <1>6, <1>7, <1>8 DEF Alike, Past, WalkWaits

-----------------------------------------------------------------------------
(* Oodle: the walk that knows the size n of the output, and the one that    *)
(* does not.  They are together until the known one has all of it, or is    *)
(* at the end of the data.                                                  *)

LEMMA WalksSame ==
  ASSUME NEW a \in Walks, NEW b \in Walks,
         a.error = b.error, a.used = b.used, a.size = b.size, a.evidence = b.evidence
  PROVE  a = b
BY DEF Walks

(* When a step goes on.                                                     *)
LEMMA WalkGoes ==
  ASSUME NEW d \in Seq(Nat), NEW r \in Nat \cup {Unknown}, NEW w \in Walks,
         NEW c, c = Chunk(r, w), NEW y, y = Block(d, w.used, c, r),
         ~ Over(d, r, w), IsHeader(d, w.used), w.used = 0 => Says(d, 0, 1), ~ Says(d, w.used, 8),
         Ok(y), y.end <= Len(d),
         NEW b, b = WalkStep(d, r, w)
  PROVE  Goes(d, r, w, c, y, b)
<1>1. w.used \in Nat /\ c \in Nat /\ c > 0 /\ Has(d, w.used, 1) /\ Len(d) \in Nat
  BY WalkUsedIs, ChunkIs, BlocksAssumption, BytesOf DEF IsHeader
<1>2. y.end \in Nat
  BY <1>1, BlockIs
<1>3. ~ (y.end > Len(d))
  BY <1>1, <1>2
<1>4. b = Stepped(d, r, w, c, y)
  BY WalkStepOf
<1>5. b.error = "going"
  BY <1>3, <1>4 DEF Stepped
<1>6. Running(b)
  BY <1>5 DEF Running
<1>7. Halts(d, r, w, b) \/ Goes(d, r, w, c, y, b)
  BY WalkStepEnds
<1>8. QED BY <1>6, <1>7 DEF Halts, Goes

Stops(a) == Running(a) \/ Ok(a) \/ a.error = "InvalidData"

Together(a, b, n) == Running(a) /\ a.size < n /\ b = a

Parted(a, b, d, n) ==
  /\ Running(a) => a.size >= n
  /\ Stops(a) /\ a.used = Len(d) =>
       /\ Running(b) \/ Ok(b)
       /\ b.used = Len(d) /\ b.evidence \in a.evidence .. a.evidence + BlockSize

LEMMA Shifted ==
  ASSUME NEW p \in Nat, NEW q \in Nat, NEW s \in Nat, NEW k \in q .. q + s,
         NEW a, a = p + q, NEW b, b = p + k
  PROVE  b \in a .. a + s
OBVIOUS

(* The walks with and without the size go on together up to the last block, *)
(* where they part.                                                         *)
LEMMA TogetherStep ==
  ASSUME NEW d \in Seq(Nat), NEW n \in Nat, NEW w \in Walks, w.size < n,
         NEW a, a = WalkStep(d, n, w), NEW b, b = WalkStep(d, Unknown, w)
  PROVE  Together(a, b, n) \/ Parted(a, b, d, n)
<1> DEFINE c == Chunk(n, w)
           c2 == Chunk(Unknown, w)
           x == Block(d, w.used, c, n)
           y == Block(d, w.used, c2, Unknown)
<1>1. /\ Len(d) \in Nat /\ w.used \in Nat /\ w.size \in Nat /\ w.evidence \in Nat
      /\ n \in Nat \cup {Unknown} /\ Unknown \in Nat \cup {Unknown} /\ n # Unknown
      /\ BlockSize \in Nat
  BY WalkUsedIs, BytesOf, BlocksAssumption DEF Unknown
<1>2. Halts(d, n, w, a) \/ Goes(d, n, w, c, x, a)
  BY <1>1, WalkStepEnds
<1>3. Halts(d, Unknown, w, b) \/ Goes(d, Unknown, w, c2, y, b)
  BY <1>1, WalkStepEnds
<1>4. ~ Over(d, n, w)
  BY <1>1 DEF Over
<1>5. Over(d, Unknown, w) <=> w.used >= Len(d)
  BY DEF Over
<1>6. /\ c \in 1 .. BlockSize
      /\ w.size + c <= n /\ (c = BlockSize \/ w.size + c = n)
  BY <1>1, <1>4, ChunkIs
<1>7. c2 = BlockSize
  BY DEF Chunk
<1>8. x = Block(d, w.used, c, n) /\ y = Block(d, w.used, BlockSize, Unknown)
  BY <1>7
<1>9. c2 = Chunk(Unknown, w) /\ y = Block(d, w.used, c2, Unknown)
  OBVIOUS
<1> HIDE DEF c, c2, x, y
<1>10. CASE Halts(d, n, w, a)
  <2>1. a \in Walks /\ ~ Running(a) /\ a.used = w.used /\ a.evidence = w.evidence
    BY <1>10 DEF Halts
  <2>2. CASE w.used = Len(d)
    <3>1. Over(d, Unknown, w)
      BY <1>1, <1>5, <2>2
    <3>2. Ok(b) /\ b.used = w.used /\ b.evidence = w.evidence
      BY <1>3, <3>1 DEF Halts, Goes
    <3>3. w.evidence \in w.evidence .. w.evidence + BlockSize
      BY <1>1
    <3>4. QED BY <2>1, <2>2, <3>2, <3>3 DEF Parted
  <2>3. CASE w.used # Len(d)
    BY <2>1, <2>3 DEF Parted
  <2>4. QED BY <2>2, <2>3
<1>11. CASE Goes(d, n, w, c, x, a)
  <2>1. /\ IsHeader(d, w.used) /\ Ok(x) /\ x.end \in Nat /\ w.used < x.end /\ x.end <= Len(d)
        /\ w.used = 0 => Says(d, 0, 1)
        /\ ~ Says(d, w.used, 8)
        /\ a \in Walks /\ Running(a) /\ ~ Ok(a)
        /\ a.used = x.end /\ a.size = w.size + c /\ a.evidence = w.evidence + x.evidence
    BY <1>11 DEF Goes
  <2>2. Has(d, w.used, 1)
    BY <2>1 DEF IsHeader
  <2>3. c = BlockSize \/ x.end = Len(d) =>
          /\ Ok(y) /\ y.end = x.end /\ y.evidence \in x.evidence .. x.evidence + BlockSize
          /\ c = BlockSize => y.evidence = x.evidence
    BY <1>1, <1>6, <1>8, <2>1, <2>2, BlockPair, SMTT(30)
  <2>4. ~ Over(d, Unknown, w)
    BY <1>1, <1>5, <2>1
  <2>5. c = BlockSize \/ x.end = Len(d) =>
          /\ b \in Walks /\ Running(b) /\ b.used = y.end
          /\ b.size = w.size + c2 /\ b.evidence = w.evidence + y.evidence
    <3>1. ASSUME c = BlockSize \/ x.end = Len(d) PROVE Goes(d, Unknown, w, c2, y, b)
      <4>1. Ok(y) /\ y.end <= Len(d)
        BY <2>1, <2>3, <3>1
      <4>2. QED BY <1>1, <1>9, <2>1, <2>4, <4>1, WalkGoes
    <3>2. QED BY <3>1 DEF Goes
  <2>6. CASE a.size < n
    <3>1. c = BlockSize
      BY <1>1, <1>6, <2>1, <2>6
    <3>2. /\ b \in Walks /\ Running(b) /\ b.used = a.used /\ b.size = a.size /\ b.evidence = a.evidence
      BY <1>7, <2>1, <2>3, <2>5, <3>1
    <3>3. a = b
      BY <2>1, <3>2, WalksSame DEF Running
    <3>4. QED BY <2>1, <2>6, <3>3 DEF Together
  <2>7. CASE ~ (a.size < n)
    <3>1. a.size \in Nat /\ a.size >= n
      BY <1>1, <2>1, <2>7, WalkUsedIs
    <3>2. ASSUME a.used = Len(d)
          PROVE  Running(b) /\ b.used = Len(d) /\ b.evidence \in a.evidence .. a.evidence + BlockSize
      <4>1. x.end = Len(d)
        BY <2>1, <3>2
      <4>2. /\ Running(b) /\ b.used = Len(d) /\ b.evidence = w.evidence + y.evidence
            /\ y.evidence \in x.evidence .. x.evidence + BlockSize
        BY <2>3, <2>5, <4>1
      <4>3. x.evidence \in Nat
        <5>1. c \in Nat /\ c > 0
          BY <1>1, <1>6
        <5>2. QED BY <1>1, <1>8, <2>1, <2>2, <5>1, BlockIs
      <4>4. b.evidence \in a.evidence .. a.evidence + BlockSize
        BY <1>1, <2>1, <4>2, <4>3, Shifted, ZenonT(40)
      <4>5. QED BY <4>2, <4>4
    <3>3. QED BY <3>1, <3>2 DEF Parted
  <2>8. QED BY <2>6, <2>7
<1>12. QED BY <1>2, <1>10, <1>11

(* Once the walk with the size is at its end, the other one has no step or  *)
(* one more.                                                                *)
LEMMA PartedStep ==
  ASSUME NEW d \in Seq(Nat), NEW n \in Nat, NEW w \in Walks, NEW v \in Walks, Parted(w, v, d, n),
         NEW a, a = WalkStep(d, n, w), NEW b, b = WalkStep(d, Unknown, v)
  PROVE  /\ Running(w) => Parted(a, v, d, n)
         /\ Running(w) /\ Running(v) => Parted(a, b, d, n)
         /\ Running(v) /\ ~ Running(w) => Parted(w, b, d, n)
         /\ Stops(w) /\ w.used = Len(d) => ~ Running(b)
<1>1. /\ Len(d) \in Nat /\ w.used \in Nat /\ w.size \in Nat
      /\ n \in Nat \cup {Unknown} /\ Unknown \in Nat \cup {Unknown} /\ n # Unknown
  BY WalkUsedIs, BytesOf DEF Unknown
<1>2. \E c, x : Halts(d, n, w, a) \/ Goes(d, n, w, c, x, a)
  BY <1>1, WalkStepEnds
<1>3. \E c, x : Halts(d, Unknown, v, b) \/ Goes(d, Unknown, v, c, x, b)
  BY <1>1, WalkStepEnds
<1>4. Running(w) => ~ Running(a) /\ Ok(a) /\ a.used = w.used /\ a.evidence = w.evidence
  <2>1. Running(w) => Over(d, n, w)
    BY <1>1 DEF Parted, Over
  <2>2. QED BY <1>2, <2>1 DEF Halts, Goes
<1>5. v.used = Len(d) => ~ Running(b) /\ Ok(b) /\ b.used = v.used /\ b.evidence = v.evidence
  <2>1. v.used = Len(d) => Over(d, Unknown, v)
    BY <1>1 DEF Over
  <2>2. QED BY <1>3, <2>1 DEF Halts, Goes
<1>6. QED BY <1>4, <1>5 DEF Parted, Stops

(* Where the walk with the size comes to the end of the data, so does the   *)
(* walk without, and its evidence is no less and at most a block more.      *)
LEMMA WalksPaired ==
  ASSUME NEW d \in Seq(Nat), NEW n \in Nat, n > 0,
         NEW a, a = Walk(d, n), NEW b, b = Walk(d, Unknown),
         Ok(a) \/ a.error = "InvalidData", a.used = Len(d)
  PROVE  Ok(b) /\ b.used = Len(d) /\ b.evidence \in a.evidence .. a.evidence + BlockSize
<1> DEFINE R == {z \in Walks \X Walks : Together(z[1], z[2], n) \/ Parted(z[1], z[2], d, n)}
           step == WalkSteps(d, n)
           step2 == WalkSteps(d, Unknown)
           run == Walking(d, n)
           run2 == Walking(d, Unknown)
<1>1. /\ Len(d) \in Nat /\ n \in Nat \cup {Unknown} /\ Unknown \in Nat \cup {Unknown}
  BY BytesOf
<1>2. \A w \in Walks, v \in Walks : <<w, v>> \in R <=> Together(w, v, n) \/ Parted(w, v, d, n)
  OBVIOUS
<1>3. R \in SUBSET (Walks \X Walks)
  OBVIOUS
<1>4. /\ MovesOn(Walks, step, WalkUsed, Len(d)) /\ IsLoop(run, Walks, step)
      /\ MovesOn(Walks, step2, WalkUsed, Len(d)) /\ IsLoop(run2, Walks, step2)
  BY <1>1, WalkForward, SteppingMoves, WalkLoops
<1>5. \A w \in Walks : step[w] = WalkStep(d, n, w) /\ step2[w] = WalkStep(d, Unknown, w)
  BY DEF WalkSteps
<1>6. a = run[WalkStart] /\ b = run2[WalkStart]
  BY WalkFrom
<1> HIDE DEF R, step, step2, run, run2
<1>7. step \in [Walks -> Walks] /\ step2 \in [Walks -> Walks]
  BY <1>4, Zenon DEF MovesOn
<1>8. Keeps(R, Walks, step, Walks, step2, run2)
  <2> SUFFICES ASSUME NEW w \in Walks, NEW v \in Walks, <<w, v>> \in R
               PROVE  /\ Running(w) /\ Running(v) => <<step[w], step2[v]>> \in R
                      /\ Running(w) /\ ~ Running(v) => <<step[w], v>> \in R
                      /\ ~ Running(w) /\ Running(v) => <<w, run2[v]>> \in R
    BY DEF Keeps
  <2>1. Together(w, v, n) \/ Parted(w, v, d, n)
    BY <1>2
  <2>2. step[w] \in Walks /\ step2[v] \in Walks
    BY <1>7
  <2>3. CASE Together(w, v, n)
    <3>1. Running(w) /\ w.size < n /\ v = w
      BY <2>3 DEF Together
    <3>2. Together(step[w], step2[w], n) \/ Parted(step[w], step2[w], d, n)
      BY <1>5, <3>1, TogetherStep
    <3>3. QED BY <1>2, <2>2, <3>1, <3>2
  <2>4. CASE Parted(w, v, d, n)
    <3>1. /\ Running(w) => Parted(step[w], v, d, n)
          /\ Running(w) /\ Running(v) => Parted(step[w], step2[v], d, n)
          /\ Running(v) /\ ~ Running(w) => Parted(w, step2[v], d, n)
          /\ Stops(w) /\ w.used = Len(d) => ~ Running(step2[v])
      BY <1>5, <2>4, PartedStep
    <3>2. ASSUME ~ Running(w), Running(v) PROVE run2[v] \in Walks /\ Parted(w, run2[v], d, n)
      <4>1. \A z \in Walks : Running(z) => step2[z] \in Walks
        BY <1>7
      <4>2. run2[v] \in Walks
        BY <1>4, <4>1, LoopEnds
      <4>3. CASE Stops(w) /\ w.used = Len(d)
        <5>1. run2[v] = run2[step2[v]] /\ run2[step2[v]] = step2[v]
          BY <1>4, <2>2, <3>1, <3>2, <4>3 DEF IsLoop
        <5>2. QED BY <3>1, <3>2, <4>2, <5>1
      <4>4. CASE ~ (Stops(w) /\ w.used = Len(d))
        BY <3>2, <4>2, <4>4 DEF Parted
      <4>5. QED BY <4>3, <4>4
    <3>3. QED BY <1>2, <2>2, <3>1, <3>2
  <2>5. QED BY <2>1, <2>3, <2>4
<1>9. <<WalkStart, WalkStart>> \in R
  <2>1. Together(WalkStart, WalkStart, n)
    BY WalkStartIs DEF Together
  <2>2. QED BY <1>2, <2>1, WalkStartIs
<1>10. <<run[WalkStart], run2[WalkStart]>> \in R
  BY <1>3, <1>4, <1>7, <1>8, <1>9, WalkStartIs, LoopsAlike
<1>11. a \in Walks /\ ~ Running(a) /\ b \in Walks /\ ~ Running(b)
  BY <1>1, WalkIs
<1>12. Parted(a, b, d, n)
  BY <1>2, <1>6, <1>10, <1>11 DEF Together
<1>13. QED BY <1>11, <1>12 DEF Parted, Stops

-----------------------------------------------------------------------------
(* Oodle: streams.                                                          *)

(* The probe looks at one byte.                                             *)
LEMMA ProbeSame ==
  ASSUME NEW d, NEW e, Begins(d, e), Len(d) > 0
  PROVE  OodleProbe(d) <=> OodleProbe(e)
<1>1. Has(d, 0, 1) /\ Has(e, 0, 1) /\ Byte(e, 0) = Byte(d, 0)
  BY SameBytes DEF Has
<1>2. Says(d, 0, 1) <=> Says(e, 0, 1)
  BY SaysSame
<1>3. QED BY <1>1, <1>2 DEF OodleProbe, IsHeader

(* An Oodle stream needs its size, and then has that size, passes the probe *)
(* and ends where the walk does.                                            *)
LEMMA OodleAnswers ==
  ASSUME NEW d \in Seq(Nat), NEW c \in Nat \cup {Unknown}, NEW n \in Nat \cup {Unknown}, NEW max \in Nat,
         NEW w, w = Walk(d, n), NEW b, b = OodleDecode(d, c, n, max)
  PROVE  /\ b \in Answers /\ ~ Running(b)
         /\ b.size <= max
         /\ Ok(b) => /\ n \in Nat /\ 0 < n /\ n <= max /\ b.size = n /\ OodleProbe(d) /\ b.used <= Len(d)
                     /\ c # Unknown => b = Done(c, n)
                     /\ c = Unknown => Ok(w) /\ b = Done(w.used, n) /\ b.used = w.used /\ 0 < w.used
<1>1. CASE n = Unknown
  <2>1. b = Fail("SizeRequired")
    BY <1>1 DEF OodleDecode, Unknown
  <2>2. QED BY <2>1, FailIs DEF Errors
<1>2. CASE n = 0
  <2>1. b = Fail("BadHeader")
    BY <1>2 DEF OodleDecode, Unknown
  <2>2. QED BY <2>1, FailIs DEF Errors
<1>3. CASE n # Unknown /\ n # 0
  <2>1. n \in Nat /\ n > 0
    BY <1>3
  <2>2. b = IF ~ OodleProbe(d) THEN Fail("BadHeader")
            ELSE IF n > max THEN Fail("TooLarge")
            ELSE IF c # Unknown
            THEN IF c > Len(d) THEN Fail("Truncated") ELSE Done(c, n)
            ELSE IF ~ Ok(w) THEN Fail(w.error) ELSE Done(w.used, n)
    BY <1>3, <2>1 DEF OodleDecode
  <2>3. w \in Walks /\ ~ Running(w) /\ w.used <= Len(d) /\ (w.used = 0 => w.size = 0) /\ (Ok(w) => Over(d, n, w))
    BY WalkIs
  <2>4. w.used \in Nat /\ w.error \in Errors /\ Len(d) \in Nat
    BY <2>3, WalkUsedIs, BytesOf
  <2>5. CASE ~ OodleProbe(d) \/ n > max \/ (c # Unknown /\ c > Len(d))
    <3>1. b = Fail("BadHeader") \/ b = Fail("TooLarge") \/ b = Fail("Truncated")
      BY <2>2, <2>5
    <3>2. QED BY <3>1, FailIs DEF Errors
  <2>6. CASE OodleProbe(d) /\ ~ (n > max) /\ c # Unknown /\ ~ (c > Len(d))
    <3>1. b = Done(c, n) /\ c \in Nat
      BY <2>2, <2>6
    <3>2. b \in Answers /\ b.error = "none" /\ b.used = c /\ b.size = n
      BY <2>1, <3>1, DoneIs
    <3>3. n <= max /\ c <= Len(d)
      BY <2>1, <2>4, <2>6, <3>1
    <3>4. QED BY <2>1, <2>6, <3>1, <3>2, <3>3 DEF Running
  <2>7. CASE OodleProbe(d) /\ ~ (n > max) /\ c = Unknown /\ ~ Ok(w)
    <3>1. b = Fail(w.error)
      BY <2>2, <2>7
    <3>2. w.error \in Errors \ {"going", "none"}
      BY <2>3, <2>4, <2>7 DEF Ok, Running
    <3>3. QED BY <3>1, <3>2, FailIs
  <2>8. CASE OodleProbe(d) /\ ~ (n > max) /\ c = Unknown /\ Ok(w)
    <3>1. b = Done(w.used, n)
      BY <2>2, <2>8
    <3>2. b \in Answers /\ b.error = "none" /\ b.used = w.used /\ b.size = n
      BY <2>1, <2>4, <3>1, DoneIs
    <3>3. n <= max
      BY <2>1, <2>8
    <3>4. 0 < w.used
      <4>1. w.size >= n
        BY <1>3, <2>3, <2>8 DEF Over
      <4>2. w.size # 0
        BY <2>1, <4>1
      <4>3. QED BY <2>3, <2>4, <4>2
    <3>5. QED BY <2>1, <2>3, <2>8, <3>1, <3>2, <3>3, <3>4 DEF Running
  <2>9. QED BY <2>5, <2>6, <2>7, <2>8
<1>4. QED BY <1>1, <1>2, <1>3

(* What is known of a stream that was found with its size alone.            *)
LEMMA OodleFound ==
  ASSUME NEW d \in Seq(Nat), NEW n \in Nat \cup {Unknown}, NEW max \in Nat,
         Ok(OodleDecode(d, Unknown, n, max))
  PROVE  /\ n \in Nat /\ 0 < n /\ n <= max /\ OodleProbe(d)
         /\ Ok(Walk(d, n)) /\ 0 < Walk(d, n).used /\ Walk(d, n).used <= Len(d)
         /\ OodleDecode(d, Unknown, n, max) = Done(Walk(d, n).used, n)
         /\ OodleDecode(d, Unknown, n, max).used = Walk(d, n).used
         /\ OodleDecode(d, Unknown, n, max).size = n
<1> DEFINE c == Unknown
           w == Walk(d, n)
           b == OodleDecode(d, c, n, max)
<1>1. c \in Nat \cup {Unknown} /\ c = Unknown /\ w = Walk(d, n) /\ b = OodleDecode(d, c, n, max)
  OBVIOUS
<1>2. Ok(b)
  OBVIOUS
<1> HIDE DEF c, w, b
<1>3. /\ n \in Nat /\ 0 < n /\ n <= max /\ b.size = n /\ OodleProbe(d) /\ b.used <= Len(d)
      /\ c = Unknown => Ok(w) /\ b = Done(w.used, n) /\ b.used = w.used /\ 0 < w.used
  BY <1>1, <1>2, OodleAnswers, SMTT(30)
<1>4. QED BY <1>1, <1>3

(* What a longer file changes: an answer of a walk that waits.              *)
LEMMA OodleWaits ==
  ASSUME NEW d, NEW e, Begins(d, e), Len(d) > 0, NEW n \in Nat \cup {Unknown}, NEW max \in Nat,
         NEW w, w = Walk(d, n),
         NEW x, x = OodleDecode(d, Unknown, n, max), NEW y, y = OodleDecode(e, Unknown, n, max)
  PROVE  \/ x = y
         \/ /\ w.error = "Truncated" \/ (w.error = "InvalidData" /\ w.used = Len(d))
            /\ x = Fail(w.error) /\ n \in Nat /\ 0 < n
            /\ Ok(y) => y.used > Len(d)
<1> DEFINE v == Walk(e, n)
<1>1. d \in Seq(Nat) /\ e \in Seq(Nat)
  BY DEF Begins
<1>2. CASE n = Unknown \/ n = 0
  BY <1>2 DEF OodleDecode, Unknown
<1>3. CASE n # Unknown /\ n # 0
  <2>1. n \in Nat /\ n > 0
    BY <1>3
  <2>2. x = IF ~ OodleProbe(d) THEN Fail("BadHeader")
            ELSE IF n > max THEN Fail("TooLarge")
            ELSE IF ~ Ok(w) THEN Fail(w.error) ELSE Done(w.used, n)
    BY <1>3, <2>1 DEF OodleDecode
  <2>3. y = IF ~ OodleProbe(e) THEN Fail("BadHeader")
            ELSE IF n > max THEN Fail("TooLarge")
            ELSE IF ~ Ok(v) THEN Fail(v.error) ELSE Done(v.used, n)
    BY <1>3, <2>1 DEF OodleDecode
  <2>4. OodleProbe(d) <=> OodleProbe(e)
    BY ProbeSame
  <2>5. \/ w = v
        \/ /\ w.error = "Truncated" \/ (w.error = "InvalidData" /\ w.used = Len(d))
           /\ Ok(v) => v.used > Len(d)
    BY <2>1, WalksAlike
  <2>6. Ok(y) => Ok(v) /\ y.used = v.used
    BY <1>1, OodleFound
  <2> HIDE DEF v
  <2>7. CASE w = v \/ ~ OodleProbe(d) \/ n > max
    BY <2>2, <2>3, <2>4, <2>7
  <2>8. CASE ~ (w = v) /\ OodleProbe(d) /\ ~ (n > max)
    <3>1. ~ Ok(w)
      BY <2>5, <2>8 DEF Ok
    <3>2. x = Fail(w.error)
      BY <2>2, <2>8, <3>1
    <3>3. QED BY <2>1, <2>5, <2>6, <2>8, <3>2
  <2>9. QED BY <2>7, <2>8
<1>4. QED BY <1>2, <1>3

-----------------------------------------------------------------------------
(* A stream, cut from its file.                                             *)

LEMMA SameSequence ==
  ASSUME NEW s \in Seq(Nat), NEW t \in Seq(Nat), Len(s) = Len(t), \A i \in 1 .. Len(s) : s[i] = t[i]
  PROVE  s = t
OBVIOUS

(* The recorded bytes are a window that the file continues.                 *)
LEMMA CutIs ==
  ASSUME NEW d \in Seq(Nat), NEW n \in 0 .. Len(d), NEW s, s = Cut(d, n)
  PROVE  Begins(s, d) /\ Len(s) = n /\ s \in Seq(Nat) /\ Cut(s, n) = s /\ \A i \in 1 .. n : s[i] = d[i]
<1>1. Len(d) \in Nat /\ n \in Nat /\ n <= Len(d)
  BY BytesOf
<1>2. s \in Seq(Nat) /\ Len(s) = n /\ \A i \in 1 .. n : s[i] = d[i]
  BY <1>1 DEF Cut
<1>3. Begins(s, d)
  BY <1>1, <1>2 DEF Begins
<1>4. Cut(s, n) = s
  <2>1. Cut(s, n) \in Seq(Nat) /\ Len(Cut(s, n)) = n /\ \A i \in 1 .. n : Cut(s, n)[i] = s[i]
    BY <1>1, <1>2 DEF Cut
  <2>2. QED BY <1>2, <2>1, SameSequence
<1>5. QED BY <1>2, <1>3, <1>4

(* A stream's bytes are the same in a longer window.                        *)
LEMMA CutSame ==
  ASSUME NEW d, NEW e, Begins(d, e), NEW n \in 0 .. Len(d)
  PROVE  Cut(e, n) = Cut(d, n)
<1>1. d \in Seq(Nat) /\ e \in Seq(Nat) /\ Len(d) \in Nat /\ Len(e) \in Nat /\ n \in 0 .. Len(e)
      /\ \A i \in 1 .. n : e[i] = d[i]
  BY DEF Begins
<1> DEFINE s == Cut(d, n)
           t == Cut(e, n)
<1>2. s \in Seq(Nat) /\ t \in Seq(Nat) /\ Len(s) = n /\ Len(t) = n /\ (\A i \in 1 .. n : s[i] = d[i]) /\ \A i \in 1 .. n : t[i] = e[i]
  BY <1>1, CutIs
<1> HIDE DEF s, t
<1>3. s = t
  BY <1>1, <1>2, SameSequence
<1>4. QED BY <1>3 DEF s, t

-----------------------------------------------------------------------------
(* Streams are decoded again from their own bytes.                          *)

(* A stream that ends with the recorded bytes cannot have run out of them.  *)
LEMMA FoundAgain ==
  ASSUME NEW d \in Seq(Nat), NEW u \in 1 .. Len(d), NEW s, s = Cut(d, u),
         NEW x, x.used = u, Ok(x), NEW y, Waited(y, x, Len(s))
  PROVE  y = x
<1>1. Len(d) \in Nat /\ u \in Nat
  BY BytesOf
<1>2. Len(s) = u
  BY <1>1, CutIs
<1>3. QED BY <1>1, <1>2 DEF Waited

(* The formats that find their own end decode the recorded bytes to the     *)
(* same.                                                                    *)
LEMMA OwnFraming ==
  ASSUME NEW d \in Seq(Nat), NEW max \in Nat, NEW u \in 1 .. Len(d), NEW s, s = Cut(d, u)
  PROVE  /\ Ok(GzipDecode(d, max)) /\ GzipDecode(d, max).used = u => GzipDecode(s, max) = GzipDecode(d, max)
         /\ Ok(ZlibDecode(d, max)) /\ ZlibDecode(d, max).used = u => ZlibDecode(s, max) = ZlibDecode(d, max)
         /\ Ok(Lz4Decode(d, max)) /\ Lz4Decode(d, max).used = u => Lz4Decode(s, max) = Lz4Decode(d, max)
         /\ Ok(LzoDecode(d, max)) /\ LzoDecode(d, max).used = u => LzoDecode(s, max) = LzoDecode(d, max)
<1>1. Len(d) \in Nat /\ u \in 0 .. Len(d) /\ u > 0
  BY BytesOf
<1>2. Begins(s, d) /\ Len(s) > 0
  BY <1>1, CutIs
<1>3. /\ Waited(GzipDecode(s, max), GzipDecode(d, max), Len(s))
      /\ Waited(ZlibDecode(s, max), ZlibDecode(d, max), Len(s))
      /\ Waited(Lz4Decode(s, max), Lz4Decode(d, max), Len(s))
      /\ Waited(LzoDecode(s, max), LzoDecode(d, max), Len(s))
  BY <1>2, GzipWaits, ZlibWaits, Lz4Waits, LzoWaits
<1>4. QED BY <1>3, FoundAgain

(* The marker where a stream ends is the one decode_with_hint looks for.    *)
LEMMA MarkerAt ==
  ASSUME NEW s \in Seq(Nat), EndsAt(s, Len(s))
  PROVE  SubSeq(s, Len(s) - 2, Len(s)) = <<17, 0, 0>> /\ ~ (Len(s) < 3)
<1> DEFINE u == Len(s)
           m == SubSeq(s, u - 2, u)
<1>1. u \in Nat /\ u >= 3 /\ s[u - 2] = 17 /\ s[u - 1] = 0 /\ s[u] = 0
  BY DEF EndsAt, Byte
<1>2. m \in Seq(Nat) /\ Len(m) = 3 /\ m[1] = s[u - 2] /\ m[2] = s[u - 1] /\ m[3] = s[u]
  BY <1>1
<1>3. m = <<17, 0, 0>>
  <2> DEFINE k == <<17, 0, 0>>
  <2>1. k \in Seq(Nat) /\ Len(k) = 3 /\ k[1] = 17 /\ k[2] = 0 /\ k[3] = 0
    OBVIOUS
  <2> HIDE DEF m, k
  <2>2. \A i \in 1 .. 3 : i = 1 \/ i = 2 \/ i = 3
    OBVIOUS
  <2>3. \A i \in 1 .. Len(m) : m[i] = k[i]
    BY <1>1, <1>2, <2>1, <2>2
  <2>4. m = k
    BY <1>2, <2>1, <2>3, SameSequence
  <2>5. QED BY <2>4 DEF k
<1>4. QED BY <1>1, <1>3

(* A raw LZO stream is decoded again with its length, and from its bytes    *)
(* alone.                                                                   *)
LEMMA LzoAgain ==
  ASSUME NEW d \in Seq(Nat), NEW c \in Nat \cup {Unknown}, NEW max \in Nat,
         NEW x, x = LzoDecodeWithHint(d, c, max), Ok(x), c # Unknown => c = x.used
  PROVE  /\ x.used \in 1 .. Len(d) /\ x.size \in 0 .. max
         /\ x = LzoDecode(Cut(d, x.used), max)
         /\ LzoDecodeWithHint(Cut(d, x.used), x.used, max) = x
<1> DEFINE u == x.used
           s == Cut(d, u)
<1>1. Len(d) \in Nat
  BY BytesOf
<1>2. u \in 1 .. Len(d) /\ x = LzoDecode(s, max)
  <2>1. CASE c = Unknown
    <3>1. x = LzoDecode(d, max)
      BY <2>1 DEF LzoDecodeWithHint, Unknown
    <3>2. u \in 1 .. Len(d)
      BY <3>1, LzoAnswers
    <3>3. QED BY <3>1, <3>2, OwnFraming
  <2>2. CASE c # Unknown
    <3>1. c \in Nat /\ c = u
      BY <2>2
    <3>2. CASE c > Len(d)
      <4>1. x = Fail("Truncated")
        <5>1. c \notin 0 .. Len(d)
          BY <1>1, <3>1, <3>2
        <5>2. QED BY <2>2, <3>2, <5>1 DEF LzoDecodeWithHint
      <4>2. QED BY <4>1, FailIs DEF Errors
    <3>3. CASE ~ (c > Len(d))
      <4>1. c \in 0 .. Len(d) /\ c \in Nat
        BY <1>1, <3>1, <3>3
      <4>2. x = IF c < 3 \/ SubSeq(d, c - 2, c) # <<17, 0, 0>> THEN Fail("InvalidData") ELSE LzoDecode(Cut(d, c), max)
        BY <2>2, <3>3, <4>1 DEF LzoDecodeWithHint
      <4>3. x # Fail("InvalidData")
        BY FailIs DEF Errors
      <4>4. x = LzoDecode(Cut(d, c), max) /\ ~ (c < 3)
        BY <4>2, <4>3
      <4>5. c \in 1 .. Len(d)
        BY <4>1, <4>4
      <4>6. QED BY <3>1, <4>4, <4>5
    <3>4. QED BY <3>2, <3>3
  <2>3. QED BY <2>1, <2>2
<1>3. u \in 0 .. Len(d) /\ u \in Nat
  BY <1>1, <1>2
<1>4. s \in Seq(Nat) /\ Len(s) = u /\ Cut(s, u) = s
  BY <1>3, CutIs
<1> HIDE DEF s
<1>5. x \in Answers /\ x.size <= max /\ EndsAt(s, u)
  BY <1>2, <1>4, LzoAnswers
<1>6. x.size \in 0 .. max
  BY <1>5 DEF Answers
<1>7. SubSeq(s, u - 2, u) = <<17, 0, 0>> /\ ~ (u < 3)
  BY <1>4, <1>5, MarkerAt
<1>8. LzoDecodeWithHint(s, u, max) = LzoDecode(Cut(s, u), max)
  <2>1. u \in 0 .. Len(s) /\ ~ (u > Len(s)) /\ u # Unknown
    BY <1>3, <1>4 DEF Unknown
  <2>2. QED BY <1>7, <2>1 DEF LzoDecodeWithHint
<1>9. QED BY <1>2, <1>4, <1>6, <1>8 DEF s

(* An Oodle stream is decoded again with its sizes.                         *)
LEMMA OodleAgain ==
  ASSUME NEW d \in Seq(Nat), NEW c \in Nat \cup {Unknown}, NEW n \in Nat \cup {Unknown}, NEW max \in Nat,
         NEW x, x = OodleDecode(d, c, n, max), Ok(x), c # Unknown => c = x.used /\ c # 0
  PROVE  /\ x.used \in 1 .. Len(d) /\ x.size \in 0 .. max
         /\ OodleDecode(Cut(d, x.used), x.used, x.size, max) = x
<1> DEFINE u == x.used
           w == Walk(d, n)
<1>1. Len(d) \in Nat /\ w = Walk(d, n)
  BY BytesOf
<1> HIDE DEF w
<1>2. /\ x \in Answers /\ x.size <= max /\ n \in Nat /\ 0 < n /\ n <= max /\ x.size = n /\ OodleProbe(d) /\ u <= Len(d)
      /\ c # Unknown => x = Done(c, n)
      /\ c = Unknown => Ok(w) /\ x = Done(w.used, n) /\ u = w.used /\ 0 < w.used
  BY <1>1, OodleAnswers
<1>3. u \in Nat
  BY <1>2 DEF Answers
<1>4. x = Done(u, n) /\ 0 < u
  BY <1>2, <1>3
<1>5. u \in 1 .. Len(d) /\ u \in 0 .. Len(d)
  BY <1>1, <1>2, <1>3, <1>4
<1> DEFINE s == Cut(d, u)
<1>6. Begins(s, d) /\ Len(s) = u
  BY <1>5, CutIs, SMTT(30)
<1> HIDE DEF s
<1>7. OodleProbe(s)
  BY <1>2, <1>4, <1>6, ProbeSame
<1>8. ~ (n > max) /\ ~ (u > Len(s)) /\ u # Unknown /\ n # Unknown /\ n # 0 /\ n > 0
  BY <1>2, <1>3, <1>6 DEF Unknown
<1>9. OodleDecode(s, u, n, max) = Done(u, n)
  BY <1>7, <1>8 DEF OodleDecode
<1>10. QED BY <1>2, <1>4, <1>5, <1>9 DEF s

(* Each format decodes what it found again, with both sizes, from the bytes *)
(* alone.                                                                   *)
LEMMA DecodedAgain ==
  ASSUME NEW f \in Formats, NEW d \in Seq(Nat), NEW c \in Nat \cup {Unknown}, NEW n \in Nat \cup {Unknown},
         NEW max \in Nat, NEW x, x = Decode(f, d, c, n, max), Ok(x), c # Unknown => c = x.used /\ c # 0
  PROVE  /\ x.used \in 1 .. Len(d) /\ x.size \in 0 .. max
         /\ Decode(f, Cut(d, x.used), x.used, x.size, max) = x
<1> DEFINE s == Cut(d, x.used)
<1>1. CASE f = "gzip"
  <2>1. x = GzipDecode(d, max) /\ Decode(f, s, x.used, x.size, max) = GzipDecode(s, max)
    BY <1>1 DEF Decode
  <2>2. x \in Answers /\ x.size <= max /\ x.used \in 1 .. Len(d)
    BY <2>1, GzipAnswers
  <2>3. QED BY <2>1, <2>2, OwnFraming DEF Answers
<1>2. CASE f = "zlib"
  <2>1. x = ZlibDecode(d, max) /\ Decode(f, s, x.used, x.size, max) = ZlibDecode(s, max)
    BY <1>2 DEF Decode
  <2>2. x \in Answers /\ x.size <= max /\ x.used \in 1 .. Len(d)
    BY <2>1, ZlibAnswers
  <2>3. QED BY <2>1, <2>2, OwnFraming DEF Answers
<1>3. CASE f = "lz4"
  <2>1. x = Lz4Decode(d, max) /\ Decode(f, s, x.used, x.size, max) = Lz4Decode(s, max)
    BY <1>3 DEF Decode
  <2>2. x \in Answers /\ x.size <= max /\ x.used \in 1 .. Len(d)
    BY <2>1, Lz4Answers
  <2>3. QED BY <2>1, <2>2, OwnFraming DEF Answers
<1>4. CASE f = "lzo"
  <2>1. x = LzoDecodeWithHint(d, c, max) /\ Decode(f, s, x.used, x.size, max) = LzoDecodeWithHint(s, x.used, max)
    BY <1>4 DEF Decode
  <2>2. QED BY <2>1, LzoAgain
<1>5. CASE f = "oodle"
  <2>1. x = OodleDecode(d, c, n, max) /\ Decode(f, s, x.used, x.size, max) = OodleDecode(s, x.used, x.size, max)
    BY <1>5 DEF Decode
  <2>2. QED BY <2>1, OodleAgain
<1>6. QED BY <1>1, <1>2, <1>3, <1>4, <1>5 DEF Formats

-----------------------------------------------------------------------------
(* Oodle: where a walk for a size comes to its end, one for a smaller size  *)
(* does not wait for more.                                                  *)

(* A block that is whole in a walk to a larger size does not wait in one to *)
(* a smaller.                                                               *)
LEMMA BlockLonger ==
  ASSUME NEW d \in Seq(Nat), NEW pos \in Nat, Has(d, pos, 1), NEW chunk \in Nat, NEW chunk2 \in Nat,
         0 < chunk, chunk <= chunk2, NEW r, r # Unknown, NEW r2, r2 # Unknown,
         NEW x, x = Block(d, pos, chunk, r), NEW y, y = Block(d, pos, chunk2, r2), Ok(y)
  PROVE  /\ x.error # "Truncated"
         /\ Ok(x) => x.end \in Nat /\ y.end \in Nat /\ x.end <= y.end
         /\ chunk = chunk2 => x = y
<1> DEFINE p == pos + 1
           q == Byte(d, p)
           checksum == IF Says(d, pos, 4) THEN 1 ELSE 0
           n == q + 1
           last == p + 1 + checksum + n
           filled == p + 2
           found == IF n < chunk THEN n ELSE 0
           found2 == IF n < chunk2 THEN n ELSE 0
           stored == p + chunk
           stored2 == p + chunk2
<1>1. x = IF Says(d, pos, 2) THEN [error |-> "none", evidence |-> 0, end |-> stored]
          ELSE IF ~ Has(d, p, 1) THEN Fail("Truncated")
          ELSE IF q = Filled THEN [error |-> "none", evidence |-> 0, end |-> filled]
          ELSE IF n > chunk THEN Fail("InvalidData")
          ELSE [error |-> "none", evidence |-> found, end |-> last]
  BY DEF Block
<1>2. y = IF Says(d, pos, 2) THEN [error |-> "none", evidence |-> 0, end |-> stored2]
          ELSE IF ~ Has(d, p, 1) THEN Fail("Truncated")
          ELSE IF q = Filled THEN [error |-> "none", evidence |-> 0, end |-> filled]
          ELSE IF n > chunk2 THEN Fail("InvalidData")
          ELSE [error |-> "none", evidence |-> found2, end |-> last]
  BY DEF Block
<1>3. chunk = chunk2 => x = y
  BY DEF Block
<1>4. stored <= stored2 /\ chunk2 > 0
  OBVIOUS
<1>5. /\ Ok(x) => x.end \in Nat
      /\ y.end \in Nat
  BY <1>4, BlockIs
<1> HIDE DEF p, q, checksum, n, last, filled, found, found2, stored, stored2
<1>6. CASE Says(d, pos, 2)
  <2>1. x.error = "none" /\ x.end = stored /\ y.end = stored2
    BY <1>1, <1>2, <1>6
  <2>2. QED BY <1>3, <1>4, <1>5, <2>1
<1>7. CASE ~ Says(d, pos, 2) /\ ~ Has(d, p, 1)
  <2>1. y = Fail("Truncated")
    BY <1>2, <1>7
  <2>2. QED BY <2>1, FailIs DEF Errors
<1>8. CASE ~ Says(d, pos, 2) /\ Has(d, p, 1) /\ q = Filled
  <2>1. x.error = "none" /\ x.end = filled /\ y.end = filled
    BY <1>1, <1>2, <1>8
  <2>2. y.end <= y.end
    BY <1>5
  <2>3. QED BY <1>3, <1>5, <2>1, <2>2
<1>9. CASE ~ Says(d, pos, 2) /\ Has(d, p, 1) /\ q # Filled
  <2>1. n > chunk2 => y = Fail("InvalidData")
    BY <1>2, <1>9
  <2>2. ~ (n > chunk2)
    BY <2>1, FailIs DEF Errors
  <2>3. y.end = last
    BY <1>2, <1>9, <2>2
  <2>4. CASE n > chunk
    <3>1. x = Fail("InvalidData")
      BY <1>1, <1>9, <2>4
    <3>2. x.error = "InvalidData" /\ ~ Ok(x)
      BY <3>1, FailIs DEF Errors
    <3>3. QED BY <1>3, <3>2
  <2>5. CASE ~ (n > chunk)
    <3>1. x.error = "none" /\ x.end = last
      BY <1>1, <1>9, <2>5
    <3>2. y.end <= y.end
      BY <1>5
    <3>3. QED BY <1>3, <1>5, <2>3, <3>1, <3>2
  <2>6. QED BY <2>4, <2>5
<1>10. QED BY <1>6, <1>7, <1>8, <1>9

(* It is at the end of the data, and not of its output.                     *)
WaitsIn(a, d) == a.error = "Truncated" \/ (a.error = "InvalidData" /\ a.used >= Len(d))

Ahead(a, b, d, n) ==
  /\ Running(a) => a.size >= n
  /\ WaitsIn(a, d) => ~ Running(b) /\ ~ Ok(b)

(* Walks to two sizes go on together until the smaller one is at its end or *)
(* wrong.                                                                   *)
LEMMA SmallerStep ==
  ASSUME NEW d \in Seq(Nat), NEW n \in Nat, NEW n2 \in Nat, n <= n2, NEW w \in Walks, w.size < n,
         NEW a, a = WalkStep(d, n, w), NEW b, b = WalkStep(d, n2, w)
  PROVE  Together(a, b, n) \/ Ahead(a, b, d, n)
<1> DEFINE c == Chunk(n, w)
           c2 == Chunk(n2, w)
           x == Block(d, w.used, c, n)
           y == Block(d, w.used, c2, n2)
<1>1. /\ Len(d) \in Nat /\ w.used \in Nat /\ w.size \in Nat /\ w.evidence \in Nat
      /\ n \in Nat \cup {Unknown} /\ n2 \in Nat \cup {Unknown} /\ n # Unknown /\ n2 # Unknown
      /\ BlockSize \in Nat
  BY WalkUsedIs, BytesOf, BlocksAssumption DEF Unknown
<1>2. Halts(d, n, w, a) \/ Goes(d, n, w, c, x, a)
  BY <1>1, WalkStepEnds
<1>3. Halts(d, n2, w, b) \/ Goes(d, n2, w, c2, y, b)
  BY <1>1, WalkStepEnds
<1>4. ~ Over(d, n, w) /\ ~ Over(d, n2, w)
  BY <1>1 DEF Over
<1>5. /\ c \in 1 .. BlockSize /\ w.size + c <= n /\ (c = BlockSize \/ w.size + c = n)
      /\ c2 \in 1 .. BlockSize /\ w.size + c2 <= n2 /\ (c2 = BlockSize \/ w.size + c2 = n2)
  BY <1>1, <1>4, ChunkIs
<1>6. /\ c = Chunk(n, w) /\ x = Block(d, w.used, c, n)
      /\ c2 = Chunk(n2, w) /\ y = Block(d, w.used, c2, n2)
      /\ a = Stepped(d, n, w, c, x)
  BY WalkStepOf
<1> HIDE DEF c, c2, x, y
<1>7. c \in Nat /\ c2 \in Nat /\ 0 < c /\ c <= c2
  BY <1>1, <1>5
<1>8. Has(d, w.used, 1) /\ Ok(y) =>
        /\ x.error # "Truncated" /\ (Ok(x) => x.end \in Nat /\ y.end \in Nat /\ x.end <= y.end)
        /\ c = c2 => x = y
  BY <1>1, <1>6, <1>7, BlockLonger
<1>9. CASE Halts(d, n2, w, b)
  <2>1. ~ Running(b) /\ ~ Ok(b)
    BY <1>4, <1>9 DEF Halts
  <2>2. CASE Halts(d, n, w, a)
    BY <2>1, <2>2 DEF Halts, Ahead
  <2>3. CASE Goes(d, n, w, c, x, a)
    <3>1. /\ IsHeader(d, w.used) /\ Ok(x) /\ x.end \in Nat /\ w.used < x.end /\ x.end <= Len(d)
          /\ w.used = 0 => Says(d, 0, 1)
          /\ ~ Says(d, w.used, 8)
          /\ a \in Walks /\ Running(a) /\ a.size = w.size + c
      BY <2>3 DEF Goes
    <3>2. CASE c = BlockSize
      <4>1. c2 = c
        BY <1>1, <1>5, <1>7, <3>2
      <4>2. x = Block(d, w.used, c2, n2)
        BY <1>1, <1>6, <4>1 DEF Block
      <4>3. Goes(d, n2, w, c2, x, b)
        BY <1>1, <1>4, <1>6, <3>1, <4>2, WalkGoes
      <4>4. QED BY <2>1, <4>3 DEF Goes
    <3>3. CASE w.size + c = n
      <4>1. ~ WaitsIn(a, d)
        BY <3>1 DEF WaitsIn, Running
      <4>2. a.size >= n
        BY <3>1, <3>3
      <4>3. QED BY <4>1, <4>2 DEF Ahead
    <3>4. QED BY <1>5, <3>2, <3>3
  <2>4. QED BY <1>2, <2>2, <2>3
<1>10. CASE Goes(d, n2, w, c2, y, b)
  <2>1. /\ IsHeader(d, w.used) /\ Ok(y) /\ y.end \in Nat /\ w.used < y.end /\ y.end <= Len(d)
        /\ w.used = 0 => Says(d, 0, 1)
        /\ ~ Says(d, w.used, 8)
        /\ b \in Walks /\ Running(b)
        /\ b.used = y.end /\ b.size = w.size + c2 /\ b.evidence = w.evidence + y.evidence
    BY <1>10 DEF Goes
  <2>2. /\ x.error # "Truncated" /\ (Ok(x) => x.end \in Nat /\ x.end <= y.end)
        /\ c = c2 => x = y
    BY <1>8, <2>1 DEF IsHeader
  <2>3. CASE Halts(d, n, w, a)
    <3>1. a = IF ~ Ok(x) THEN EndWalk(w, x.error)
              ELSE IF x.end > Len(d) THEN EndWalk(w, "Truncated")
              ELSE [error |-> "going", used |-> x.end, size |-> w.size + c, evidence |-> w.evidence + x.evidence]
      BY <1>4, <1>6, <2>1 DEF Stepped
    <3>2. Ok(x) => ~ (x.end > Len(d))
      BY <1>1, <2>1, <2>2
    <3>3. Ok(x) => a.error = "going"
      BY <3>1, <3>2
    <3>4. ~ Running(a) /\ a.used = w.used
      BY <2>3 DEF Halts
    <3>5. a = EndWalk(w, x.error)
      BY <3>1, <3>3, <3>4 DEF Running
    <3>6. a.error = x.error
      BY <3>5 DEF EndWalk, Walks
    <3>7. ~ (a.used >= Len(d))
      BY <1>1, <2>1, <3>4
    <3>8. QED BY <2>2, <3>4, <3>6, <3>7 DEF Ahead, WaitsIn
  <2>4. CASE Goes(d, n, w, c, x, a)
    <3>1. a \in Walks /\ Running(a) /\ a.used = x.end /\ a.size = w.size + c /\ a.evidence = w.evidence + x.evidence
      BY <2>4 DEF Goes
    <3>2. CASE c = BlockSize
      <4>1. c2 = c
        BY <1>1, <1>5, <1>7, <3>2
      <4>2. a = b
        BY <2>1, <2>2, <3>1, <4>1, WalksSame DEF Running
      <4>3. CASE a.size < n
        BY <3>1, <4>2, <4>3 DEF Together
      <4>4. CASE ~ (a.size < n)
        <5>1. a.size >= n
          BY <3>1, <4>4, WalkUsedIs
        <5>2. ~ WaitsIn(a, d)
          BY <3>1 DEF WaitsIn, Running
        <5>3. QED BY <5>1, <5>2 DEF Ahead
      <4>5. QED BY <4>3, <4>4
    <3>3. CASE w.size + c = n
      <4>1. ~ WaitsIn(a, d)
        BY <3>1 DEF WaitsIn, Running
      <4>2. a.size >= n
        BY <3>1, <3>3
      <4>3. QED BY <4>1, <4>2 DEF Ahead
    <3>4. QED BY <1>5, <3>2, <3>3
  <2>5. QED BY <1>2, <2>3, <2>4
<1>11. QED BY <1>3, <1>9, <1>10

(* Data that is long enough for a size is long enough for a smaller one.    *)
LEMMA SmallerDoesNotWait ==
  ASSUME NEW d \in Seq(Nat), NEW n \in Nat, NEW n2 \in Nat, 0 < n, n <= n2,
         NEW a, a = Walk(d, n), NEW b, b = Walk(d, n2), Ok(b)
  PROVE  a.error # "Truncated" /\ ~ (a.error = "InvalidData" /\ a.used = Len(d))
<1> DEFINE R == {z \in Walks \X Walks : Together(z[1], z[2], n) \/ Ahead(z[1], z[2], d, n)}
           step == WalkSteps(d, n)
           step2 == WalkSteps(d, n2)
           run == Walking(d, n)
           run2 == Walking(d, n2)
<1>1. /\ Len(d) \in Nat /\ n \in Nat \cup {Unknown} /\ n2 \in Nat \cup {Unknown} /\ n # Unknown
  BY BytesOf DEF Unknown
<1>2. \A w \in Walks, v \in Walks : <<w, v>> \in R <=> Together(w, v, n) \/ Ahead(w, v, d, n)
  OBVIOUS
<1>3. R \in SUBSET (Walks \X Walks)
  OBVIOUS
<1>4. /\ MovesOn(Walks, step, WalkUsed, Len(d)) /\ IsLoop(run, Walks, step)
      /\ MovesOn(Walks, step2, WalkUsed, Len(d)) /\ IsLoop(run2, Walks, step2)
  BY <1>1, WalkForward, SteppingMoves, WalkLoops
<1>5. \A w \in Walks : step[w] = WalkStep(d, n, w) /\ step2[w] = WalkStep(d, n2, w)
  BY DEF WalkSteps
<1>6. a = run[WalkStart] /\ b = run2[WalkStart]
  BY WalkFrom
<1> HIDE DEF R, step, step2, run, run2
<1>7. step \in [Walks -> Walks] /\ step2 \in [Walks -> Walks]
  BY <1>4, Zenon DEF MovesOn
<1>8. Keeps(R, Walks, step, Walks, step2, run2)
  <2> SUFFICES ASSUME NEW w \in Walks, NEW v \in Walks, <<w, v>> \in R
               PROVE  /\ Running(w) /\ Running(v) => <<step[w], step2[v]>> \in R
                      /\ Running(w) /\ ~ Running(v) => <<step[w], v>> \in R
                      /\ ~ Running(w) /\ Running(v) => <<w, run2[v]>> \in R
    BY DEF Keeps
  <2>1. Together(w, v, n) \/ Ahead(w, v, d, n)
    BY <1>2
  <2>2. step[w] \in Walks /\ step2[v] \in Walks
    BY <1>7
  <2>3. CASE Together(w, v, n)
    <3>1. Running(w) /\ w.size < n /\ v = w
      BY <2>3 DEF Together
    <3>2. Together(step[w], step2[w], n) \/ Ahead(step[w], step2[w], d, n)
      BY <1>5, <3>1, SmallerStep
    <3>3. QED BY <1>2, <2>2, <3>1, <3>2
  <2>4. CASE Ahead(w, v, d, n)
    <3>1. ASSUME Running(w) PROVE \A z \in Walks : Ahead(step[w], z, d, n)
      <4>1. Over(d, n, w)
        BY <1>1, <2>4, <3>1 DEF Ahead, Over
      <4>2. \E c, x : Halts(d, n, w, step[w]) \/ Goes(d, n, w, c, x, step[w])
        BY <1>1, <1>5, WalkStepEnds
      <4>3. ~ Running(step[w]) /\ Ok(step[w])
        BY <4>1, <4>2 DEF Halts, Goes
      <4>4. QED BY <4>3 DEF Ahead, WaitsIn, Ok
    <3>2. ASSUME ~ Running(w), Running(v) PROVE run2[v] \in Walks /\ Ahead(w, run2[v], d, n)
      <4>1. \A z \in Walks : Running(z) => step2[z] \in Walks
        BY <1>7
      <4>2. run2[v] \in Walks
        BY <1>4, <4>1, LoopEnds
      <4>3. QED BY <2>4, <3>2, <4>2 DEF Ahead
    <3>3. QED BY <1>2, <2>2, <3>1, <3>2
  <2>5. QED BY <2>1, <2>3, <2>4
<1>9. <<WalkStart, WalkStart>> \in R
  <2>1. Together(WalkStart, WalkStart, n)
    BY WalkStartIs DEF Together
  <2>2. QED BY <1>2, <2>1, WalkStartIs
<1>10. <<run[WalkStart], run2[WalkStart]>> \in R
  BY <1>3, <1>4, <1>7, <1>8, <1>9, WalkStartIs, LoopsAlike, SMTT(30)
<1>11. a \in Walks /\ ~ Running(a) /\ b \in Walks /\ a.used \in Nat
  BY <1>1, WalkIs, WalkUsedIs
<1>12. Ahead(a, b, d, n)
  BY <1>2, <1>6, <1>10, <1>11 DEF Together
<1>13. QED BY <1>1, <1>11, <1>12 DEF Ahead, WaitsIn

-----------------------------------------------------------------------------
(* Oodle: a longer stream has no less evidence.                             *)

(* Without a size, only a stored block at the end of the data changes with  *)
(* more of it, and that counts nothing.                                     *)
LEMMA BlockGrows ==
  ASSUME NEW d, NEW e, Begins(d, e), NEW pos \in Nat, pos < Len(d),
         NEW x, x = Block(d, pos, BlockSize, Unknown), NEW y, y = Block(e, pos, BlockSize, Unknown), Ok(x)
  PROVE  x = y \/ (x.end = Len(d) /\ x.evidence = 0)
<1> DEFINE p == pos + 1
           left == Len(d) - p
           left2 == Len(e) - p
           stored == p + Least(BlockSize, left)
           stored2 == p + Least(BlockSize, left2)
<1>1. /\ d \in Seq(Nat) /\ e \in Seq(Nat) /\ Len(d) \in Nat /\ Len(e) \in Nat /\ Len(d) <= Len(e)
      /\ p \in Nat /\ BlockSize \in Nat
  BY BlocksAssumption DEF Begins
<1>2. /\ Says(d, pos, 2) <=> Says(e, pos, 2)
      /\ Says(d, pos, 4) <=> Says(e, pos, 4)
  BY SaysSame
<1>3. CASE Says(d, pos, 2)
  <2>1. x = [error |-> "none", evidence |-> 0, end |-> stored]
    BY <1>3 DEF Block
  <2>2. y = [error |-> "none", evidence |-> 0, end |-> stored2]
    BY <1>2, <1>3 DEF Block
  <2>3. stored = stored2 \/ stored = Len(d)
    <3>1. left \in Int /\ left2 \in Int /\ left <= left2 /\ p + left = Len(d)
      BY <1>1
    <3> HIDE DEF p, left, left2
    <3>2. Least(BlockSize, left) = Least(BlockSize, left2) \/ Least(BlockSize, left) = left
      BY <1>1, <3>1 DEF Least
    <3>3. QED BY <3>1, <3>2
  <2> HIDE DEF stored, stored2
  <2>4. x.end = stored /\ x.evidence = 0
    BY <2>1
  <2>5. QED BY <2>1, <2>2, <2>3, <2>4
<1>4. CASE ~ Says(d, pos, 2)
  <2>1. CASE ~ Has(d, p, 1)
    <3>1. x = Fail("Truncated")
      BY <1>4, <2>1 DEF Block
    <3>2. QED BY <3>1, FailIs DEF Errors
  <2>2. CASE Has(d, p, 1)
    <3>1. Byte(d, p) = Byte(e, p) /\ Has(e, p, 1)
      BY <1>1, <2>2, SameBytes, BytesOf
    <3>2. x = y
      BY <1>2, <1>4, <2>2, <3>1 DEF Block
    <3>3. QED BY <3>2
  <2>3. QED BY <2>1, <2>2
<1>5. QED BY <1>3, <1>4

(* Evidence never falls, and is no more than what was walked.               *)
LEMMA EvidenceOfStep ==
  ASSUME NEW d \in Seq(Nat), NEW r \in Nat \cup {Unknown}, NEW w \in Walks, NEW b, b = WalkStep(d, r, w)
  PROVE  /\ b \in Walks /\ w.evidence <= b.evidence
         /\ w.evidence <= w.used => b.evidence <= b.used
<1> DEFINE c == Chunk(r, w)
           x == Block(d, w.used, c, r)
<1>1. w.used \in Nat /\ w.evidence \in Nat
  BY WalkUsedIs
<1>2. Halts(d, r, w, b) \/ Goes(d, r, w, c, x, b)
  BY WalkStepEnds
<1>3. c = Chunk(r, w) /\ x = Block(d, w.used, c, r)
  OBVIOUS
<1> HIDE DEF c, x
<1>4. CASE Halts(d, r, w, b)
  BY <1>1, <1>4 DEF Halts
<1>5. CASE Goes(d, r, w, c, x, b)
  <2>1. /\ ~ Over(d, r, w) /\ Has(d, w.used, 1) /\ Ok(x)
        /\ b \in Walks /\ b.used = x.end /\ b.evidence = w.evidence + x.evidence
    BY <1>5 DEF Goes, IsHeader
  <2>2. c \in Nat /\ c > 0
    BY <1>3, <2>1, ChunkIs, BlocksAssumption
  <2>3. x.end \in Nat /\ x.evidence \in Nat /\ w.used + x.evidence <= x.end
    BY <1>1, <1>3, <2>1, <2>2, BlockIs
  <2>4. QED BY <1>1, <2>1, <2>3
<1>6. QED BY <1>2, <1>4, <1>5

(* Evidence never falls, and is no more than what there is.                 *)
LEMMA EvidenceOfWalk ==
  ASSUME NEW d \in Seq(Nat), NEW r \in Nat \cup {Unknown}, NEW v \in Walks
  PROVE  /\ Walking(d, r)[v] \in Walks /\ v.evidence <= Walking(d, r)[v].evidence
         /\ Walk(d, r).evidence <= Len(d)
<1> DEFINE step == WalkSteps(d, r)
           run == Walking(d, r)
           J == {z \in Walks : v.evidence <= z.evidence}
           K == {z \in Walks : z.evidence <= z.used}
<1>1. MovesOn(Walks, step, WalkUsed, Len(d)) /\ IsLoop(run, Walks, step)
  BY WalkForward, SteppingMoves, WalkLoops, BytesOf
<1>2. \A z \in Walks : /\ step[z] \in Walks /\ z.evidence <= step[z].evidence
                       /\ z.evidence <= z.used => step[z].evidence <= step[z].used
  BY EvidenceOfStep DEF WalkSteps
<1>3. \A z \in Walks : z.evidence \in Nat /\ z.used \in Nat
  BY WalkUsedIs
<1> HIDE DEF step, run
<1>4. run[v] \in J
  <2>1. J \in SUBSET Walks /\ v \in J /\ \A z \in J : Running(z) => step[z] \in J
    BY <1>2, <1>3
  <2> HIDE DEF J
  <2>2. QED BY <1>1, <2>1, LoopEnds
<1>5. run[WalkStart] \in K
  <2>1. K \in SUBSET Walks /\ WalkStart \in K /\ \A z \in K : Running(z) => step[z] \in K
    BY <1>2, <1>3, WalkStartIs
  <2> HIDE DEF K
  <2>2. QED BY <1>1, <2>1, LoopEnds
<1>6. Walk(d, r) = run[WalkStart]
  BY WalkFrom DEF run
<1>7. Walk(d, r).used <= Len(d) /\ Len(d) \in Nat
  BY WalkIs, BytesOf
<1>8. Walk(d, r).evidence <= Len(d)
  BY <1>3, <1>5, <1>6, <1>7
<1>9. QED BY <1>4, <1>8 DEF run

Alongside(a, b) == Running(a) /\ b = a

Behind(a, b, d) ==
  /\ Running(a) => a.used >= Len(d)
  /\ Running(a) \/ Ok(a) => a.evidence <= b.evidence

(* Walks over a window and a longer one go on together up to the last block *)
(* of the first.                                                            *)
LEMMA AlongsideStep ==
  ASSUME NEW d, NEW e, Begins(d, e), NEW w \in Walks, Running(w),
         NEW a, a = WalkStep(d, Unknown, w), NEW b, b = WalkStep(e, Unknown, w)
  PROVE  Alongside(a, b) \/ Behind(a, b, d)
<1> DEFINE c == Chunk(Unknown, w)
           x == Block(d, w.used, c, Unknown)
           y == Block(e, w.used, c, Unknown)
<1>1. /\ d \in Seq(Nat) /\ e \in Seq(Nat) /\ Len(d) \in Nat /\ Len(e) \in Nat /\ Len(d) <= Len(e)
      /\ w.used \in Nat /\ w.evidence \in Nat /\ Unknown \in Nat \cup {Unknown}
  BY WalkUsedIs DEF Begins
<1>2. Halts(d, Unknown, w, a) \/ Goes(d, Unknown, w, c, x, a)
  BY <1>1, WalkStepEnds
<1>3. w.evidence <= b.evidence /\ b \in Walks /\ b.evidence \in Nat
  BY <1>1, EvidenceOfStep, WalkUsedIs
<1>4. c = BlockSize /\ c = Chunk(Unknown, w)
  BY DEF Chunk
<1>5. x = Block(d, w.used, c, Unknown) /\ y = Block(e, w.used, c, Unknown)
  OBVIOUS
<1> HIDE DEF c, x, y
<1>6. CASE Halts(d, Unknown, w, a)
  BY <1>3, <1>6 DEF Halts, Behind
<1>7. CASE Goes(d, Unknown, w, c, x, a)
  <2>1. /\ ~ Over(d, Unknown, w) /\ IsHeader(d, w.used) /\ Ok(x) /\ x.end \in Nat /\ w.used < x.end /\ x.end <= Len(d)
        /\ w.used = 0 => Says(d, 0, 1)
        /\ ~ Says(d, w.used, 8)
        /\ a \in Walks /\ Running(a) /\ ~ Ok(a)
        /\ a.used = x.end /\ a.size = w.size + c /\ a.evidence = w.evidence + x.evidence
    BY <1>7 DEF Goes
  <2>2. w.used < Len(d)
    BY <1>1, <2>1
  <2>3. x = y \/ (x.end = Len(d) /\ x.evidence = 0)
    BY <1>1, <1>4, <1>5, <2>1, <2>2, BlockGrows
  <2>4. CASE x = y
    <3>1. Has(d, w.used, 1) /\ Has(e, w.used, 1) /\ Byte(e, w.used) = Byte(d, w.used)
      BY <1>1, <2>2, BytesOf, SameBytes
    <3>2. IsHeader(e, w.used)
      BY <2>1, <3>1 DEF IsHeader
    <3>3. ~ Says(e, w.used, 8) /\ (w.used = 0 => Says(e, 0, 1))
      BY <1>1, <2>1, <2>2, SaysSame
    <3>4. ~ Over(e, Unknown, w)
      BY <1>1, <2>2 DEF Over
    <3>5. Ok(y) /\ y.end <= Len(e)
      BY <1>1, <2>1, <2>4
    <3>6. Goes(e, Unknown, w, c, y, b)
      BY <1>1, <1>4, <1>5, <3>2, <3>3, <3>4, <3>5, WalkGoes
    <3>7. b \in Walks /\ Running(b) /\ b.used = y.end /\ b.size = w.size + c /\ b.evidence = w.evidence + y.evidence
      BY <3>6 DEF Goes
    <3>8. a = b
      BY <2>1, <2>4, <3>7, WalksSame DEF Running
    <3>9. QED BY <2>1, <3>8 DEF Alongside
  <2>5. CASE x.end = Len(d) /\ x.evidence = 0
    <3>1. a.used >= Len(d) /\ a.evidence = w.evidence
      BY <1>1, <2>1, <2>5
    <3>2. QED BY <1>3, <3>1 DEF Behind
  <2>6. QED BY <2>3, <2>4, <2>5
<1>8. QED BY <1>2, <1>6, <1>7

(* A longer stream has no less evidence.                                    *)
LEMMA EvidenceGrows ==
  ASSUME NEW d, NEW e, Begins(d, e),
         NEW a, a = Walk(d, Unknown), NEW b, b = Walk(e, Unknown), Ok(a)
  PROVE  a.evidence <= b.evidence
<1> DEFINE R == {z \in Walks \X Walks : Alongside(z[1], z[2]) \/ Behind(z[1], z[2], d)}
           step == WalkSteps(d, Unknown)
           step2 == WalkSteps(e, Unknown)
           run == Walking(d, Unknown)
           run2 == Walking(e, Unknown)
<1>1. d \in Seq(Nat) /\ e \in Seq(Nat) /\ Len(d) \in Nat /\ Len(e) \in Nat /\ Unknown \in Nat \cup {Unknown}
  BY DEF Begins
<1>2. \A w \in Walks, v \in Walks : <<w, v>> \in R <=> Alongside(w, v) \/ Behind(w, v, d)
  OBVIOUS
<1>3. R \in SUBSET (Walks \X Walks)
  OBVIOUS
<1>4. /\ MovesOn(Walks, step, WalkUsed, Len(d)) /\ IsLoop(run, Walks, step)
      /\ MovesOn(Walks, step2, WalkUsed, Len(e)) /\ IsLoop(run2, Walks, step2)
  BY <1>1, WalkForward, SteppingMoves, WalkLoops
<1>5. \A w \in Walks : /\ step[w] = WalkStep(d, Unknown, w)
                       /\ step2[w] = WalkStep(e, Unknown, w)
                       /\ w.evidence <= step2[w].evidence
                       /\ run2[w] \in Walks /\ w.evidence <= run2[w].evidence
                       /\ w.evidence \in Nat
  BY <1>1, EvidenceOfStep, EvidenceOfWalk, WalkUsedIs DEF WalkSteps
<1>6. a = run[WalkStart] /\ b = run2[WalkStart]
  BY WalkFrom
<1> HIDE DEF R, step, step2, run, run2
<1>7. step \in [Walks -> Walks] /\ step2 \in [Walks -> Walks]
  BY <1>4, Zenon DEF MovesOn
<1>8. Keeps(R, Walks, step, Walks, step2, run2)
  <2> SUFFICES ASSUME NEW w \in Walks, NEW v \in Walks, <<w, v>> \in R
               PROVE  /\ Running(w) /\ Running(v) => <<step[w], step2[v]>> \in R
                      /\ Running(w) /\ ~ Running(v) => <<step[w], v>> \in R
                      /\ ~ Running(w) /\ Running(v) => <<w, run2[v]>> \in R
    BY DEF Keeps
  <2>1. Alongside(w, v) \/ Behind(w, v, d)
    BY <1>2
  <2>2. step[w] \in Walks /\ step2[v] \in Walks
    BY <1>7
  <2>3. CASE Alongside(w, v)
    <3>1. Running(w) /\ v = w
      BY <2>3 DEF Alongside
    <3>2. Alongside(step[w], step2[w]) \/ Behind(step[w], step2[w], d)
      BY <1>5, <3>1, AlongsideStep
    <3>3. QED BY <1>2, <2>2, <3>1, <3>2
  <2>4. CASE Behind(w, v, d)
    <3>1. ASSUME Running(w) PROVE ~ Running(step[w]) /\ step[w].evidence = w.evidence
      <4>1. Over(d, Unknown, w)
        BY <2>4, <3>1 DEF Behind, Over
      <4>2. \E c, x : Halts(d, Unknown, w, step[w]) \/ Goes(d, Unknown, w, c, x, step[w])
        BY <1>1, <1>5, WalkStepEnds
      <4>3. QED BY <4>1, <4>2 DEF Halts, Goes
    <3>2. \A z \in Walks : w.evidence <= v.evidence /\ v.evidence <= z.evidence => w.evidence <= z.evidence
      BY <1>5
    <3>3. ASSUME NEW z \in Walks, v.evidence <= z.evidence
          PROVE  /\ Running(w) => Behind(step[w], z, d)
                 /\ ~ Running(w) => Behind(w, z, d)
      BY <2>4, <3>1, <3>2, <3>3 DEF Behind
    <3>4. v.evidence <= v.evidence
      BY <1>5
    <3>5. QED BY <1>2, <1>5, <2>2, <3>3, <3>4
  <2>5. QED BY <2>1, <2>3, <2>4
<1>9. <<WalkStart, WalkStart>> \in R
  BY <1>2, WalkStartIs DEF Alongside
<1>10. <<run[WalkStart], run2[WalkStart]>> \in R
  BY <1>3, <1>4, <1>7, <1>8, <1>9, WalkStartIs, LoopsAlike
<1>11. a \in Walks /\ ~ Running(a) /\ b \in Walks
  BY <1>1, WalkIs
<1>12. Behind(a, b, d)
  BY <1>2, <1>6, <1>10, <1>11 DEF Alongside
<1>13. QED BY <1>12 DEF Behind

-----------------------------------------------------------------------------
(* What a scan makes of the answers.                                        *)

CodecIs ==
  codec \in [format : Formats, fields : Seq(Nat), max : Nat, begin : Nat, minSize : Nat, rawMin : Nat]

(* The bytes at an offset: some, where streams begin with a byte.           *)
Window(d) == d \in Seq(Nat) /\ (codec.format # "lzo" => 0 < Len(d))

LEMMA CodecParts ==
  ASSUME CodecIs
  PROVE  /\ codec.format \in Formats /\ codec.fields \in Seq(Nat) /\ codec.max \in Nat
         /\ codec.minSize \in Nat /\ codec.rawMin \in Nat
BY DEF CodecIs

(* The sizes in front are the fields that are in range.                     *)
LEMMA SizesAre ==
  ASSUME CodecIs, NEW limit \in Nat, NEW sizes, sizes = SizesBefore(limit)
  PROVE  /\ DOMAIN sizes = {k \in DOMAIN codec.fields : codec.fields[k] \in 1 .. limit}
         /\ DOMAIN sizes \in SUBSET Nat
         /\ \A k \in DOMAIN sizes : sizes[k] = codec.fields[k] /\ sizes[k] \in 1 .. limit /\ sizes[k] \in Nat
<1>1. codec.fields \in Seq(Nat)
  BY CodecParts
<1>2. DOMAIN codec.fields \in SUBSET Nat
  BY <1>1
<1>3. QED BY <1>1, <1>2 DEF SizesBefore

(* The first of several is there.                                           *)
LEMMA FirstExists ==
  ASSUME NEW K \in SUBSET Nat, K # {}
  PROVE  \E k \in K : k = (CHOOSE j \in K : IsFirst(j, K)) /\ \A j \in K : k <= j
<1>1. PICK k \in K : \A j \in K : k <= j
  BY LeastNumber
<1>2. IsFirst(k, K)
  BY <1>1 DEF IsFirst
<1> DEFINE c == CHOOSE j \in K : IsFirst(j, K)
<1>3. c \in K /\ IsFirst(c, K)
  BY <1>2
<1>4. \A j \in K : c <= j
  BY <1>3 DEF IsFirst
<1>5. QED BY <1>3, <1>4

(* The first answer that is none of an error.                               *)
LEMMA FirstOkIs ==
  ASSUME NEW a, DOMAIN a \in SUBSET Nat, NEW x, x = FirstOk(a)
  PROVE  \/ x = Fail("Rejected") /\ \A k \in DOMAIN a : ~ Ok(a[k])
         \/ \E k \in DOMAIN a : Ok(a[k]) /\ x = a[k] /\ \A j \in DOMAIN a : Ok(a[j]) => k <= j
<1> DEFINE good == {k \in DOMAIN a : Ok(a[k])}
<1>1. x = IF good = {} THEN Fail("Rejected") ELSE a[CHOOSE k \in good : IsFirst(k, good)]
  BY DEF FirstOk
<1>2. good \in SUBSET Nat
  OBVIOUS
<1>3. CASE good = {}
  BY <1>1, <1>3
<1>4. CASE good # {}
  <2> HIDE DEF good
  <2>1. PICK k \in good : k = (CHOOSE j \in good : IsFirst(j, good)) /\ \A j \in good : k <= j
    BY <1>2, <1>4, FirstExists
  <2>2. x = a[k]
    BY <1>1, <1>4, <2>1
  <2>3. QED BY <2>1, <2>2 DEF good
<1>5. QED BY <1>3, <1>4

LEMMA RejectedIs ==
  /\ ~ Ok(Fail("Rejected")) /\ Fail("Rejected").error = "Rejected"
BY FailIs DEF Errors

(* The first size in front is a size, or there is none.                     *)
LEMMA FieldSizeIs ==
  ASSUME CodecIs
  PROVE  FieldSize \in Nat \cup {Unknown}
<1> DEFINE sizes == SizesBefore(codec.max)
           K == DOMAIN sizes
<1>1. /\ K \in SUBSET Nat
      /\ \A k \in K : sizes[k] \in Nat
  BY CodecParts, SizesAre
<1>2. FieldSize = IF K = {} THEN Unknown ELSE sizes[CHOOSE k \in K : IsFirst(k, K)]
  BY DEF FieldSize
<1> HIDE DEF sizes
<1>3. CASE K = {}
  BY <1>2, <1>3
<1>4. CASE K # {}
  <2>1. (CHOOSE k \in K : IsFirst(k, K)) \in K
    BY <1>1, <1>4, FirstExists
  <2>2. QED BY <1>1, <1>2, <1>4, <2>1
<1>5. QED BY <1>3, <1>4

-----------------------------------------------------------------------------
(* What a longer window changes.                                            *)

(* A longer window gives the same answer, whatever the format, unless the   *)
(* shorter one ran out.                                                     *)
LEMMA AnswerIsFinal ==
  ASSUME CodecIs, NEW d, NEW e, Begins(d, e), Window(d), ~ Waiting(d)
  PROVE  Answer(e) = Answer(d)
<1> DEFINE max == codec.max
           f == codec.format
           n == FieldSize
<1>1. f \in Formats /\ max \in Nat /\ n \in Nat \cup {Unknown}
  BY CodecParts, FieldSizeIs
<1>2. Answer(d).error # "Truncated"
  BY DEF Waiting
<1>3. \A x, y : Waited(x, y, Len(d)) /\ x.error # "Truncated" => y = x
  BY DEF Waited
<1>4. CASE f = "gzip"
  <2>1. Answer(d) = GzipDecode(d, max) /\ Answer(e) = GzipDecode(e, max)
    BY <1>4 DEF Answer, Decode
  <2>2. Waited(GzipDecode(d, max), GzipDecode(e, max), Len(d))
    BY <1>1, <1>4, GzipWaits DEF Window
  <2>3. QED BY <1>2, <1>3, <2>1, <2>2
<1>5. CASE f = "zlib"
  <2>1. Answer(d) = ZlibDecode(d, max) /\ Answer(e) = ZlibDecode(e, max)
    BY <1>5 DEF Answer, Decode
  <2>2. Waited(ZlibDecode(d, max), ZlibDecode(e, max), Len(d))
    BY <1>1, <1>5, ZlibWaits DEF Window
  <2>3. QED BY <1>2, <1>3, <2>1, <2>2
<1>6. CASE f = "lz4"
  <2>1. Answer(d) = Lz4Decode(d, max) /\ Answer(e) = Lz4Decode(e, max)
    BY <1>6 DEF Answer, Decode
  <2>2. Waited(Lz4Decode(d, max), Lz4Decode(e, max), Len(d))
    BY <1>1, <1>6, Lz4Waits DEF Window
  <2>3. QED BY <1>2, <1>3, <2>1, <2>2
<1>7. CASE f = "lzo"
  <2>1. Answer(d) = LzoDecode(d, max) /\ Answer(e) = LzoDecode(e, max)
    BY <1>7 DEF Answer, Decode, LzoDecodeWithHint, Unknown
  <2>2. Waited(LzoDecode(d, max), LzoDecode(e, max), Len(d))
    BY <1>1, LzoWaits
  <2>3. QED BY <1>2, <1>3, <2>1, <2>2
<1>8. CASE f = "oodle"
  <2> DEFINE w == Walk(d, n)
             v == Walk(d, Unknown)
             x == OodleDecode(d, Unknown, n, max)
             y == OodleDecode(e, Unknown, n, max)
  <2>1. Answer(d) = x /\ Answer(e) = y
    BY <1>8 DEF Answer, Decode, NeedsSize
  <2>2. d \in Seq(Nat) /\ 0 < Len(d) /\ Len(d) \in Nat
    BY <1>8, BytesOf DEF Window
  <2>3. w = Walk(d, n) /\ v = Walk(d, Unknown) /\ x = OodleDecode(d, Unknown, n, max) /\ y = OodleDecode(e, Unknown, n, max)
    OBVIOUS
  <2>4. ~ (x.error = "InvalidData" /\ Ok(v) /\ v.used = Len(d))
    BY <1>8, <2>1 DEF Waiting
  <2> HIDE DEF w, v, x, y, n, max
  <2>5. \/ x = y
        \/ /\ w.error = "Truncated" \/ (w.error = "InvalidData" /\ w.used = Len(d))
           /\ x = Fail(w.error) /\ n \in Nat /\ 0 < n
    BY <1>1, <2>2, <2>3, OodleWaits
  <2>6. CASE x = Fail(w.error) /\ w.error = "Truncated"
    BY <1>2, <2>1, <2>6, FailIs DEF Errors
  <2>7. CASE x = Fail(w.error) /\ w.error = "InvalidData" /\ w.used = Len(d) /\ n \in Nat /\ 0 < n
    <3>1. x.error = "InvalidData"
      BY <2>7, FailIs DEF Errors
    <3>2. Ok(v) /\ v.used = Len(d)
      BY <2>2, <2>3, <2>7, WalksPaired
    <3>3. QED BY <2>4, <3>1, <3>2
  <2>8. QED BY <2>1, <2>5, <2>6, <2>7
<1>9. QED BY <1>1, <1>4, <1>5, <1>6, <1>7, <1>8 DEF Formats

Tried(d, n) == Decode(codec.format, Cut(d, n), n, Unknown, codec.max)
Fits(d, n) == IF Tried(d, n).used = n THEN Tried(d, n) ELSE Fail("Rejected")

LEMMA ByLengthOf ==
  ASSUME NEW d, NEW sizes, sizes = SizesBefore(Len(d))
  PROVE  ByLength(d) = FirstOk([k \in DOMAIN sizes |-> Fits(d, sizes[k])])
BY DEF ByLength, Fits, Tried

(* A length that fits is that of the stream that the bytes up to it hold.   *)
LEMMA FitsIs ==
  ASSUME CodecIs, codec.format = "lzo", NEW d \in Seq(Nat), NEW n \in 1 .. Len(d),
         NEW x, x = Fits(d, n), Ok(x)
  PROVE  /\ x.used = n /\ x = LzoDecode(Cut(d, n), codec.max)
         /\ x = Decode("lzo", Cut(d, n), n, Unknown, codec.max)
<1> DEFINE s == Cut(d, n)
<1>1. x = Tried(d, n) /\ x.used = n
  BY RejectedIs DEF Fits
<1>2. Tried(d, n) = LzoDecodeWithHint(s, n, codec.max) /\ Tried(d, n) = Decode("lzo", s, n, Unknown, codec.max)
  BY DEF Tried, Decode
<1>3. n \in Nat /\ n \in 0 .. Len(d) /\ codec.max \in Nat /\ n \in Nat \cup {Unknown}
  BY BytesOf, CodecParts
<1>4. s \in Seq(Nat) /\ Cut(s, n) = s
  BY <1>3, CutIs
<1> DEFINE c == n
           max == codec.max
<1>5. c \in Nat \cup {Unknown} /\ c = n /\ max \in Nat /\ max = codec.max /\ x = LzoDecodeWithHint(s, c, max)
  BY <1>1, <1>2, <1>3
<1> HIDE DEF s, c, max
<1>6. x = LzoDecode(Cut(s, x.used), max)
  BY <1>1, <1>4, <1>5, LzoAgain
<1>7. x = LzoDecode(s, max)
  BY <1>1, <1>4, <1>6
<1>8. QED BY <1>1, <1>2, <1>5, <1>7 DEF s

(* The bytes of a shorter stream begin those of a longer one.               *)
LEMMA CutBegins ==
  ASSUME NEW d, NEW e, Begins(d, e), NEW m \in 0 .. Len(d), NEW n \in 0 .. Len(e), m <= n
  PROVE  Begins(Cut(d, m), Cut(e, n)) /\ Len(Cut(d, m)) = m /\ Len(Cut(e, n)) = n
<1> DEFINE s == Cut(d, m)
           t == Cut(e, n)
<1> SUFFICES Begins(s, t) /\ Len(s) = m /\ Len(t) = n
  OBVIOUS
<1>1. d \in Seq(Nat) /\ e \in Seq(Nat) /\ Len(d) \in Nat /\ Len(e) \in Nat /\ Len(d) <= Len(e)
  BY DEF Begins
<1>2. \A i \in 1 .. Len(d) : e[i] = d[i]
  BY DEF Begins
<1>3. s \in Seq(Nat) /\ Len(s) = m /\ \A i \in 1 .. m : s[i] = d[i]
  BY <1>1, CutIs
<1>4. t \in Seq(Nat) /\ Len(t) = n /\ \A i \in 1 .. n : t[i] = e[i]
  BY <1>1, CutIs
<1>5. m \in Nat /\ n \in Nat /\ m <= Len(d)
  BY <1>1
<1> HIDE DEF s, t
<1>6. \A i \in 1 .. m : t[i] = s[i]
  <2> SUFFICES ASSUME NEW i \in 1 .. m PROVE t[i] = s[i]
    OBVIOUS
  <2>1. i \in 1 .. Len(d) /\ i \in 1 .. n
    BY <1>1, <1>5
  <2>2. QED BY <1>2, <1>3, <1>4, <2>1
<1>7. QED BY <1>3, <1>4, <1>6 DEF Begins

(* A shorter length that is right stays the first: the longer ones that     *)
(* come to be in front of the window's end find the same end.               *)
LEMMA LengthsAreFinal ==
  ASSUME CodecIs, codec.format = "lzo", NEW d, NEW e, Begins(d, e),
         NEW x, x = ByLength(d), Ok(x), NEW y, y = ByLength(e)
  PROVE  /\ y = x /\ x.used \in 1 .. Len(d)
         /\ x = LzoDecode(Cut(d, x.used), codec.max)
         /\ x = Decode("lzo", Cut(d, x.used), x.used, Unknown, codec.max)
<1> DEFINE sizes == SizesBefore(Len(d))
           sizes2 == SizesBefore(Len(e))
           a == [k \in DOMAIN sizes |-> Fits(d, sizes[k])]
           b == [k \in DOMAIN sizes2 |-> Fits(e, sizes2[k])]
           K == DOMAIN sizes
           K2 == DOMAIN sizes2
<1>1. d \in Seq(Nat) /\ e \in Seq(Nat) /\ Len(d) \in Nat /\ Len(e) \in Nat /\ Len(d) <= Len(e) /\ codec.max \in Nat
  BY CodecParts DEF Begins
<1>2. x = FirstOk(a) /\ y = FirstOk(b)
  BY ByLengthOf
<1>3. /\ K = {k \in DOMAIN codec.fields : codec.fields[k] \in 1 .. Len(d)} /\ K \in SUBSET Nat
      /\ \A k \in K : sizes[k] = codec.fields[k] /\ sizes[k] \in 1 .. Len(d) /\ sizes[k] \in Nat
  BY <1>1, SizesAre
<1>4. /\ K2 = {k \in DOMAIN codec.fields : codec.fields[k] \in 1 .. Len(e)} /\ K2 \in SUBSET Nat
      /\ \A k \in K2 : sizes2[k] = codec.fields[k] /\ sizes2[k] \in 1 .. Len(e) /\ sizes2[k] \in Nat
  BY <1>1, SizesAre
<1>5. DOMAIN a = K /\ DOMAIN b = K2 /\ (\A k \in K : a[k] = Fits(d, sizes[k])) /\ \A k \in K2 : b[k] = Fits(e, sizes2[k])
  OBVIOUS
<1> HIDE DEF sizes, sizes2, a, b, K, K2
<1>6. PICK k \in K : Ok(a[k]) /\ x = a[k] /\ \A j \in K : Ok(a[j]) => k <= j
  BY <1>2, <1>3, <1>5, FirstOkIs, RejectedIs
<1>7. \A j \in K : j \in K2 /\ b[j] = a[j]
  <2> SUFFICES ASSUME NEW j \in K PROVE j \in K2 /\ b[j] = a[j]
    OBVIOUS
  <2>1. j \in K2 /\ sizes2[j] = sizes[j]
    BY <1>1, <1>3, <1>4, SMTT(30)
  <2>2. sizes[j] \in 0 .. Len(d)
    BY <1>1, <1>3, SMTT(30)
  <2>3. Cut(e, sizes[j]) = Cut(d, sizes[j])
    BY <2>2, CutSame
  <2>4. QED BY <1>5, <2>1, <2>3 DEF Fits, Tried
<1>8. PICK j \in K2 : Ok(b[j]) /\ y = b[j] /\ \A i \in K2 : Ok(b[i]) => j <= i
  <2>1. k \in K2 /\ Ok(b[k])
    BY <1>6, <1>7
  <2>2. QED BY <1>2, <1>4, <1>5, <2>1, FirstOkIs
<1> DEFINE n == sizes[k]
           m == sizes2[j]
<1>9. /\ x.used = n /\ x = LzoDecode(Cut(d, n), codec.max) /\ n \in 1 .. Len(d)
      /\ x = Decode("lzo", Cut(d, n), n, Unknown, codec.max)
  BY <1>1, <1>3, <1>5, <1>6, FitsIs
<1>10. y.used = m /\ y = LzoDecode(Cut(e, m), codec.max) /\ m \in 1 .. Len(e)
  BY <1>1, <1>4, <1>5, <1>8, FitsIs
<1> HIDE DEF n, m
<1>11. j \in K
  <2>1. ASSUME ~ (m <= Len(d)) PROVE FALSE
    <3>1. n \in 0 .. Len(d) /\ m \in 0 .. Len(e) /\ n <= m /\ n # m
      BY <1>1, <1>9, <1>10, <2>1
    <3>2. Begins(Cut(d, n), Cut(e, m))
      BY <3>1, CutBegins
    <3>3. Waited(x, y, Len(Cut(d, n)))
      BY <1>1, <1>9, <1>10, <3>2, LzoWaits
    <3>4. x = y
      BY <3>3 DEF Waited, Ok
    <3>5. QED BY <1>9, <1>10, <3>1, <3>4
  <2>2. m \in 1 .. Len(d)
    BY <1>1, <1>10, <2>1
  <2>3. QED BY <1>3, <1>4, <2>2 DEF m
<1>12. k <= j /\ j <= k
  BY <1>6, <1>7, <1>8, <1>11
<1>13. k = j
  <2>1. k \in Nat /\ j \in Nat
    BY <1>3, <1>4
  <2>2. QED BY <1>12, <2>1
<1>14. QED BY <1>6, <1>7, <1>8, <1>9, <1>13

-----------------------------------------------------------------------------
(* Oodle: what the recorded bytes say of their end, and what a longer       *)
(* window makes of the sizes.                                               *)

(* The bytes of an Oodle stream, walked without its size, end where it      *)
(* ends.                                                                    *)
LEMMA KnowsTheEnd ==
  ASSUME NEW d \in Seq(Nat), NEW n \in Nat \cup {Unknown}, NEW max \in Nat,
         NEW x, x = OodleDecode(d, Unknown, n, max), Ok(x), NEW s, s = Cut(d, x.used)
  PROVE  /\ n \in Nat /\ 0 < n /\ n <= max /\ x.size = n /\ x.used \in 1 .. Len(d) /\ OodleProbe(d)
         /\ Ok(Walk(d, n)) /\ Ok(Walk(s, Unknown)) /\ OodleEvidence(s) = Walk(s, Unknown).evidence
         /\ OodleEvidence(s) \in Walk(s, n).evidence .. Walk(s, n).evidence + BlockSize
<1> DEFINE w == Walk(d, n)
           v == Walk(s, n)
           u == Walk(s, Unknown)
<1>1. /\ n \in Nat /\ 0 < n /\ n <= max /\ x.size = n /\ OodleProbe(d)
      /\ Ok(w) /\ 0 < w.used /\ w.used <= Len(d) /\ x.used = w.used
  BY OodleFound
<1>2. Len(d) \in Nat /\ w.used \in Nat
  <2>1. w \in Walks
    BY WalkIs
  <2>2. QED BY <2>1 DEF Walks
<1>3. x.used \in 0 .. Len(d) /\ x.used \in 1 .. Len(d)
  BY <1>1, <1>2
<1>4. Begins(s, d) /\ Len(s) = w.used /\ s \in Seq(Nat)
  BY <1>1, <1>3, CutIs
<1>5. v = w
  <2>1. v = w \/ (Ok(w) => w.used > Len(s))
    BY <1>1, <1>4, WalksAlike
  <2>2. QED BY <1>1, <1>2, <1>4, <2>1
<1>6. Ok(u) /\ u.evidence \in v.evidence .. v.evidence + BlockSize
  <2>1. v = Walk(s, n) /\ u = Walk(s, Unknown) /\ Ok(v) /\ v.used = Len(s)
    BY <1>1, <1>4, <1>5
  <2> HIDE DEF v, u, w
  <2>2. QED BY <1>1, <1>4, <2>1, WalksPaired
<1>7. OodleEvidence(s) = u.evidence
  BY <1>6 DEF OodleEvidence
<1>8. QED BY <1>1, <1>3, <1>6, <1>7

(* Which sizes try_at looks for.                                            *)
LEMMA CandidateIs ==
  ASSUME CodecIs, NEW d
  PROVE  /\ codec.format = "oodle" => DecodeCandidate(d) = BySizes(d)
         /\ codec.format = "lzo" => DecodeCandidate(d) = ByLength(d)
         /\ codec.format \notin {"oodle", "lzo"} => DecodeCandidate(d) = Answer(d)
<1>1. CASE codec.format = "oodle"
  BY <1>1 DEF DecodeCandidate, NeedsSize
<1>2. CASE codec.format = "lzo"
  BY <1>2 DEF DecodeCandidate, NeedsSize, ScanNeedsSizeField
<1>3. CASE codec.format \notin {"oodle", "lzo"}
  <2>1. Answer(d) = Decode(codec.format, d, Unknown, Unknown, codec.max)
    BY <1>3 DEF Answer, NeedsSize
  <2>2. QED BY <1>3, <2>1 DEF DecodeCandidate, NeedsSize, ScanNeedsSizeField
<1>4. QED BY <1>1, <1>2, <1>3

(* What try_at finds has passed the probe and the filters, and what passes  *)
(* them is found.                                                           *)
LEMMA TryAtIs ==
  ASSUME NEW d, NEW x, x = DecodeCandidate(d)
  PROVE  /\ Ok(TryAt(d)) => TryAt(d) = x /\ Probe(codec.format, d) /\ Accepts(d, x) /\ Ok(x)
         /\ Probe(codec.format, d) /\ Accepts(d, x) => TryAt(d) = x /\ Ok(x)
<1>1. TryAt(d) = IF Probe(codec.format, d) /\ Accepts(d, x) THEN x ELSE Fail("Rejected")
  BY DEF TryAt
<1>2. Accepts(d, x) => Ok(x)
  BY DEF Accepts
<1>3. QED BY <1>1, <1>2, RejectedIs

(* One size after the other, as the fields give them.                       *)
FoundBy(x, d, sizes, k) ==
  /\ k \in DOMAIN sizes /\ Ok(x) /\ x = OodleDecode(d, Unknown, sizes[k], codec.max)
  /\ \A i \in DOMAIN sizes : Ok(OodleDecode(d, Unknown, sizes[i], codec.max)) => k <= i

LEMMA BySizesIs ==
  ASSUME CodecIs, codec.format = "oodle", NEW d, NEW x, x = BySizes(d),
         NEW sizes, sizes = SizesBefore(codec.max)
  PROVE  \/ \E k \in DOMAIN sizes : FoundBy(x, d, sizes, k)
         \/ ~ Ok(x) /\ \A k \in DOMAIN sizes : ~ Ok(OodleDecode(d, Unknown, sizes[k], codec.max))
<1> DEFINE a == [i \in DOMAIN sizes |-> OodleDecode(d, Unknown, sizes[i], codec.max)]
<1>1. x = FirstOk(a)
  <2>1. \A i \in DOMAIN sizes : Decode("oodle", d, Unknown, sizes[i], codec.max) = OodleDecode(d, Unknown, sizes[i], codec.max)
    BY DEF Decode
  <2>2. BySizes(d) = FirstOk([i \in DOMAIN sizes |-> Decode(codec.format, d, Unknown, sizes[i], codec.max)])
    BY DEF BySizes
  <2>3. [i \in DOMAIN sizes |-> Decode(codec.format, d, Unknown, sizes[i], codec.max)] = a
    BY <2>1
  <2>4. QED BY <2>2, <2>3
<1>2. DOMAIN sizes \in SUBSET Nat
  BY CodecParts, SizesAre
<1>3. DOMAIN a = DOMAIN sizes /\ \A i \in DOMAIN sizes : a[i] = OodleDecode(d, Unknown, sizes[i], codec.max)
  OBVIOUS
<1> HIDE DEF a
<1>4. \/ x = Fail("Rejected") /\ \A k \in DOMAIN a : ~ Ok(a[k])
      \/ \E k \in DOMAIN a : Ok(a[k]) /\ x = a[k] /\ \A j \in DOMAIN a : Ok(a[j]) => k <= j
  BY <1>1, <1>2, <1>3, FirstOkIs
<1>5. CASE x = Fail("Rejected") /\ \A k \in DOMAIN a : ~ Ok(a[k])
  BY <1>3, <1>5, RejectedIs
<1>6. ASSUME NEW k \in DOMAIN a, Ok(a[k]), x = a[k], \A j \in DOMAIN a : Ok(a[j]) => k <= j
      PROVE  FoundBy(x, d, sizes, k)
  BY <1>3, <1>6 DEF FoundBy
<1>7. QED BY <1>3, <1>4, <1>5, <1>6

(* What a longer window may find instead is longer.                         *)
LEMMA SizesStay ==
  ASSUME CodecIs, codec.format = "oodle", NEW d, NEW e, Begins(d, e), Window(d),
         NEW x, x = BySizes(d), Ok(x), NEW y, y = BySizes(e), NEW max, max = codec.max
  PROVE  /\ Ok(y)
         /\ \E n \in Nat, m \in Nat :
              /\ x = OodleDecode(d, Unknown, n, max) /\ y = OodleDecode(e, Unknown, m, max)
              /\ \E j \in DOMAIN codec.fields : codec.fields[j] = m
              /\ y = x \/ (y.used > Len(d) /\ n <= m)
<1> DEFINE sizes == SizesBefore(max)
           K == DOMAIN sizes
<1>1. max \in Nat /\ d \in Seq(Nat) /\ e \in Seq(Nat) /\ Len(d) \in Nat /\ 0 < Len(d)
  BY CodecParts DEF Begins, Window
<1>2. /\ K = {k \in DOMAIN codec.fields : codec.fields[k] \in 1 .. max} /\ K \in SUBSET Nat
      /\ \A k \in K : sizes[k] = codec.fields[k] /\ sizes[k] \in 1 .. max /\ sizes[k] \in Nat
  BY <1>1, SizesAre
<1>3. sizes = SizesBefore(codec.max) /\ K = DOMAIN sizes
  OBVIOUS
<1> HIDE DEF sizes, K
<1>4. PICK k \in K : FoundBy(x, d, sizes, k)
  BY <1>3, BySizesIs
<1>5. x = OodleDecode(d, Unknown, sizes[k], max) /\ \A i \in K : Ok(OodleDecode(d, Unknown, sizes[i], max)) => k <= i
  BY <1>3, <1>4 DEF FoundBy
<1>6. OodleDecode(e, Unknown, sizes[k], max) = x
  <2> DEFINE n == sizes[k]
             w == Walk(d, n)
             z == OodleDecode(e, Unknown, n, max)
  <2>1. n \in Nat \cup {Unknown} /\ w = Walk(d, n) /\ z = OodleDecode(e, Unknown, n, max) /\ x = OodleDecode(d, Unknown, n, max)
    BY <1>2, <1>5
  <2> SUFFICES z = x
    OBVIOUS
  <2> HIDE DEF n, w, z
  <2>2. x = z \/ ((w.error = "Truncated" \/ w.error = "InvalidData") /\ x = Fail(w.error))
    BY <1>1, <2>1, OodleWaits
  <2>3. QED BY <2>2, FailIs DEF Errors
<1>7. PICK j \in K : FoundBy(y, e, sizes, j)
  <2>1. k \in DOMAIN sizes /\ Ok(OodleDecode(e, Unknown, sizes[k], codec.max))
    BY <1>3, <1>6
  <2>2. QED BY <1>3, <2>1, BySizesIs
<1>8. y = OodleDecode(e, Unknown, sizes[j], max) /\ Ok(y) /\ j <= k
  BY <1>3, <1>6, <1>7 DEF FoundBy
<1> DEFINE n == sizes[k]
           m == sizes[j]
<1>9. n \in Nat /\ m \in Nat /\ n \in Nat \cup {Unknown} /\ m \in Nat \cup {Unknown} /\ m > 0
      /\ codec.fields[j] = m /\ j \in DOMAIN codec.fields
      /\ x = OodleDecode(d, Unknown, n, max) /\ y = OodleDecode(e, Unknown, m, max)
  BY <1>2, <1>5, <1>8
<1> HIDE DEF n, m
<1>10. y = x \/ (y.used > Len(d) /\ n <= m)
  <2> DEFINE w == Walk(d, m)
             b == Walk(d, n)
             z == OodleDecode(d, Unknown, m, max)
  <2>1. w = Walk(d, m) /\ z = OodleDecode(d, Unknown, m, max) /\ b = Walk(d, n)
    OBVIOUS
  <2>2. Ok(b)
    BY <1>1, <1>9, OodleFound
  <2> HIDE DEF w, z, b
  <2>3. \/ z = y
        \/ /\ w.error = "Truncated" \/ (w.error = "InvalidData" /\ w.used = Len(d))
           /\ y.used > Len(d)
    <3>1. Len(d) > 0 /\ m \in Nat \cup {Unknown} /\ max \in Nat /\ w = Walk(d, m)
          /\ z = OodleDecode(d, Unknown, m, max) /\ y = OodleDecode(e, Unknown, m, max)
      BY <1>1, <1>9, <2>1
    <3>2. \/ z = y
          \/ /\ w.error = "Truncated" \/ (w.error = "InvalidData" /\ w.used = Len(d))
             /\ Ok(y) => y.used > Len(d)
      BY <3>1, OodleWaits
    <3>3. QED BY <1>8, <3>2
  <2>4. CASE z = y
    <3>1. k <= j
      BY <1>5, <1>8, <2>1, <2>4 DEF m
    <3>2. k = j
      <4>1. k \in Nat /\ j \in Nat
        BY <1>2
      <4>2. QED BY <1>8, <3>1, <4>1
    <3>3. QED BY <1>6, <1>8, <3>2
  <2>5. CASE (w.error = "Truncated" \/ (w.error = "InvalidData" /\ w.used = Len(d))) /\ y.used > Len(d)
    <3>1. ASSUME ~ (n <= m) PROVE FALSE
      <4>1. m <= n /\ 0 < m
        BY <1>9, <3>1
      <4>2. QED BY <1>1, <1>9, <2>1, <2>2, <2>5, <4>1, SmallerDoesNotWait
    <3>2. QED BY <2>5, <3>1
  <2>6. QED BY <2>3, <2>4, <2>5
<1>11. QED BY <1>9, <1>10, <1>8

-----------------------------------------------------------------------------
(* What try_at accepted, in a longer window.                                *)

(* The probe of each format takes what its decoder does.                    *)
LEMMA ProbeOf ==
  ASSUME CodecIs, NEW d, Window(d), Ok(Answer(d))
  PROVE  Probe(codec.format, d)
<1> DEFINE max == codec.max
           f == codec.format
           n == FieldSize
<1>1. f \in Formats /\ max \in Nat /\ n \in Nat \cup {Unknown} /\ d \in Seq(Nat)
  BY CodecParts, FieldSizeIs DEF Window
<1>2. CASE f = "gzip"
  <2>1. Answer(d) = GzipDecode(d, max)
    BY <1>2 DEF Answer, Decode
  <2>2. GzipProbe(d)
    BY <1>1, <2>1, GzipAnswers
  <2>3. QED BY <1>2, <2>2 DEF Probe
<1>3. CASE f = "zlib"
  <2>1. Answer(d) = ZlibDecode(d, max)
    BY <1>3 DEF Answer, Decode
  <2>2. ZlibProbe(d)
    BY <1>1, <2>1, ZlibAnswers
  <2>3. QED BY <1>3, <2>2 DEF Probe
<1>4. CASE f = "lz4"
  <2>1. Answer(d) = Lz4Decode(d, max)
    BY <1>4 DEF Answer, Decode
  <2>2. Lz4Probe(d)
    BY <1>1, <2>1, Lz4Answers
  <2>3. QED BY <1>4, <2>2 DEF Probe
<1>5. CASE f = "lzo"
  <2>1. Answer(d) = LzoDecode(d, max)
    BY <1>5 DEF Answer, Decode, LzoDecodeWithHint, Unknown
  <2>2. LzoProbe(d)
    BY <1>1, <2>1, LzoAnswers
  <2>3. QED BY <1>5, <2>2 DEF Probe
<1>6. CASE f = "oodle"
  <2>1. Answer(d) = OodleDecode(d, Unknown, n, max)
    BY <1>6 DEF Answer, Decode, NeedsSize
  <2> HIDE DEF n, max
  <2>2. OodleProbe(d)
    BY <1>1, <2>1, OodleFound
  <2>3. QED BY <1>6, <2>2 DEF Probe
<1>7. QED BY <1>1, <1>2, <1>3, <1>4, <1>5, <1>6 DEF Formats

(* A nearer size that comes to fit is a larger one, and its stream is       *)
(* longer: it passes the filters that the other passed.                     *)
LEMMA OodleStays ==
  ASSUME CodecIs, codec.format = "oodle", NEW d, NEW e, Begins(d, e), Window(d), Ok(TryAt(d))
  PROVE  Ok(TryAt(e))
<1> DEFINE max == codec.max
           x == BySizes(d)
           y == BySizes(e)
           s == Cut(d, x.used)
           t == Cut(e, y.used)
<1>1. /\ max \in Nat /\ codec.minSize \in Nat /\ codec.rawMin \in Nat
      /\ d \in Seq(Nat) /\ e \in Seq(Nat) /\ Len(d) \in Nat /\ Len(e) \in Nat /\ Len(d) <= Len(e) /\ 0 < Len(d)
  BY CodecParts DEF Begins, Window
<1>2. x = DecodeCandidate(d) /\ y = DecodeCandidate(e) /\ max = codec.max /\ x = BySizes(d) /\ y = BySizes(e)
      /\ s = Cut(d, x.used) /\ t = Cut(e, y.used)
  BY CandidateIs
<1> HIDE DEF max, x, y, s, t
<1>3. Ok(x) /\ OodleProbe(d) /\ Accepts(d, x)
  <2>1. Probe("oodle", d) <=> OodleProbe(d)
    BY DEF Probe
  <2>2. QED BY <1>2, <2>1, TryAtIs
<1>4. OodleProbe(e)
  BY <1>1, <1>3, ProbeSame
<1>5. x.size >= codec.minSize /\ OodleEvidence(s) >= codec.rawMin
  BY <1>2, <1>3 DEF Accepts, SelfVerifying, Evidence
<1>6. PICK n \in Nat, m \in Nat : /\ x = OodleDecode(d, Unknown, n, max) /\ y = OodleDecode(e, Unknown, m, max)
                                  /\ \E j \in DOMAIN codec.fields : codec.fields[j] = m
                                  /\ y = x \/ (y.used > Len(d) /\ n <= m)
  BY <1>2, <1>3, SizesStay
<1>7. Ok(y)
  BY <1>2, <1>3, SizesStay
<1>8. n \in Nat \cup {Unknown} /\ m \in Nat \cup {Unknown}
  BY <1>6
<1>9. x.size = n /\ x.used \in 1 .. Len(d) /\ Ok(Walk(s, Unknown)) /\ OodleEvidence(s) = Walk(s, Unknown).evidence
  <2>1. x = OodleDecode(d, Unknown, n, max) /\ s = Cut(d, x.used) /\ n \in Nat \cup {Unknown} /\ max \in Nat /\ d \in Seq(Nat)
    BY <1>1, <1>2, <1>6, <1>8
  <2>2. Ok(x)
    BY <1>3
  <2>3. QED BY <2>1, <2>2, KnowsTheEnd
<1>10. y.size = m /\ 0 < m /\ y.used \in 1 .. Len(e) /\ Ok(Walk(t, Unknown)) /\ OodleEvidence(t) = Walk(t, Unknown).evidence
  <2>1. y = OodleDecode(e, Unknown, m, max) /\ t = Cut(e, y.used) /\ m \in Nat \cup {Unknown} /\ max \in Nat /\ e \in Seq(Nat)
    BY <1>1, <1>2, <1>6, <1>8
  <2>2. QED BY <1>7, <2>1, KnowsTheEnd
<1>11. y.size >= codec.minSize
  BY <1>1, <1>5, <1>6, <1>9, <1>10, SMTT(30)
<1>12. x.used \in 0 .. Len(d) /\ y.used \in 0 .. Len(e) /\ x.used <= y.used
  <2>1. x.used \in 1 .. Len(d) /\ y.used \in 1 .. Len(e) /\ (y = x \/ y.used > Len(d))
    BY <1>6, <1>9, <1>10
  <2>2. CASE y = x
    BY <1>1, <2>1, <2>2
  <2>3. CASE y.used > Len(d)
    BY <1>1, <2>1, <2>3, SMTT(30)
  <2>4. QED BY <2>1, <2>2, <2>3
<1>13. Begins(s, t)
  BY <1>2, <1>12, CutBegins
<1>14. OodleEvidence(t) >= codec.rawMin
  <2> DEFINE a == Walk(s, Unknown)
             b == Walk(t, Unknown)
             r == Unknown
  <2>1. a = Walk(s, Unknown) /\ b = Walk(t, Unknown) /\ a = Walk(s, r) /\ b = Walk(t, r) /\ r \in Nat \cup {Unknown}
    OBVIOUS
  <2> HIDE DEF a, b, r
  <2>2. a.evidence <= b.evidence
    BY <1>9, <1>13, <2>1, EvidenceGrows
  <2>3. a \in Walks /\ b \in Walks
    <3>1. s \in Seq(Nat) /\ t \in Seq(Nat)
      BY <1>13 DEF Begins
    <3>2. QED BY <2>1, <3>1, WalkIs
  <2>4. a.evidence \in Nat /\ b.evidence \in Nat
    BY <2>3 DEF Walks
  <2>5. OodleEvidence(s) = a.evidence /\ OodleEvidence(t) = b.evidence
    BY <1>9, <1>10, <2>1
  <2>6. QED BY <1>1, <1>5, <2>2, <2>4, <2>5
<1>15. Accepts(e, y)
  <2>1. Evidence("oodle", t) = OodleEvidence(t)
    BY DEF Evidence
  <2>2. \E j \in DOMAIN codec.fields : codec.fields[j] \in {y.used, y.size} \ {0}
    BY <1>6, <1>10
  <2>3. QED BY <1>2, <1>7, <1>11, <1>14, <2>1, <2>2 DEF Accepts
<1>16. Probe("oodle", e)
  BY <1>4 DEF Probe
<1>17. QED BY <1>2, <1>15, <1>16, TryAtIs

LEMMA BeginsItself ==
  ASSUME NEW d \in Seq(Nat)
  PROVE  Begins(d, d)
BY DEF Begins

(* All but Oodle: a longer window finds the same stream.                    *)
LEMMA OthersStay ==
  ASSUME CodecIs, codec.format # "oodle", NEW d, NEW e, Begins(d, e), Window(d), Ok(TryAt(d))
  PROVE  TryAt(e) = TryAt(d)
<1> DEFINE x == DecodeCandidate(d)
           y == DecodeCandidate(e)
<1>1. codec.format \in Formats /\ d \in Seq(Nat) /\ e \in Seq(Nat) /\ Len(d) \in Nat /\ Len(e) \in Nat /\ Len(d) <= Len(e)
  BY CodecParts DEF Begins
<1>2. x = DecodeCandidate(d) /\ y = DecodeCandidate(e)
  OBVIOUS
<1> HIDE DEF x, y
<1>3. TryAt(d) = x /\ Probe(codec.format, d) /\ Accepts(d, x) /\ Ok(x)
  BY <1>2, TryAtIs
<1>4. CASE codec.format = "lzo"
  <2>1. x = ByLength(d) /\ y = ByLength(e)
    BY <1>2, <1>4, CandidateIs
  <2>2. y = x /\ x.used \in 1 .. Len(d)
    BY <1>3, <1>4, <2>1, LengthsAreFinal
  <2>3. x.used \in 0 .. Len(d)
    BY <1>1, <2>2
  <2>4. Cut(e, x.used) = Cut(d, x.used)
    BY <2>3, CutSame
  <2>5. Accepts(e, y)
    BY <1>3, <2>2, <2>4 DEF Accepts
  <2>6. Probe(codec.format, e)
    <3>1. Len(d) >= 3
      BY <1>3, <1>4 DEF Probe, LzoProbe
    <3>2. Len(e) >= 3
      BY <1>1, <3>1
    <3>3. QED BY <1>4, <3>2 DEF Probe, LzoProbe
  <2>7. QED BY <1>2, <1>3, <2>2, <2>5, <2>6, TryAtIs
<1>5. CASE codec.format # "lzo"
  <2>1. x = Answer(d) /\ y = Answer(e)
    BY <1>2, <1>5, CandidateIs
  <2>2. ~ Waiting(d)
    BY <1>3, <2>1 DEF Waiting, Ok
  <2>3. y = x
    BY <2>1, <2>2, AnswerIsFinal
  <2>4. Window(e)
    BY <1>1, <1>5 DEF Window
  <2>5. Probe(codec.format, e)
    BY <1>3, <2>1, <2>3, <2>4, ProbeOf
  <2>6. SelfVerifying(codec.format)
    BY <1>1, <1>5 DEF Formats, SelfVerifying
  <2>7. Accepts(e, y)
    BY <1>3, <2>3, <2>6 DEF Accepts
  <2>8. QED BY <1>2, <1>3, <2>3, <2>5, <2>7, TryAtIs
<1>6. QED BY <1>4, <1>5

-----------------------------------------------------------------------------
(* The properties of one window.                                            *)

Again(d, x) ==
  /\ x.used \in 1 .. Len(d) /\ x.size \in 0 .. codec.max
  /\ Decode(codec.format, Cut(d, x.used), x.used, x.size, codec.max) = x

(* What try_at found is decoded again from its bytes, with both its sizes.  *)
LEMMA FoundIsAgain ==
  ASSUME CodecIs, NEW d, Window(d), Ok(TryAt(d))
  PROVE  Again(d, TryAt(d))
<1> DEFINE f == codec.format
           max == codec.max
           c == Unknown
           x == DecodeCandidate(d)
<1>1. f \in Formats /\ max \in Nat /\ d \in Seq(Nat) /\ Len(d) \in Nat /\ Begins(d, d)
  BY CodecParts, BeginsItself DEF Window
<1>2. c \in Nat \cup {Unknown} /\ ~ (c # Unknown) /\ c = Unknown
  OBVIOUS
<1>3. x = DecodeCandidate(d) /\ f = codec.format /\ max = codec.max
  OBVIOUS
<1> HIDE DEF f, max, c, x
<1>4. TryAt(d) = x /\ Ok(x)
  BY <1>3, TryAtIs
<1> SUFFICES Again(d, x)
  BY <1>4
<1>5. CASE f = "oodle"
  <2>1. x = BySizes(d)
    BY <1>3, <1>5, CandidateIs
  <2>2. PICK n \in Nat : x = OodleDecode(d, Unknown, n, max)
    BY <1>1, <1>3, <1>4, <1>5, <2>1, SizesStay
  <2>3. x = Decode(f, d, c, n, max) /\ n \in Nat \cup {Unknown}
    BY <1>2, <1>5, <2>2 DEF Decode
  <2>4. /\ x.used \in 1 .. Len(d) /\ x.size \in 0 .. max
        /\ Decode(f, Cut(d, x.used), x.used, x.size, max) = x
    BY <1>1, <1>2, <1>4, <2>3, DecodedAgain
  <2>5. QED BY <1>3, <2>4 DEF Again
<1>6. CASE f = "lzo"
  <2> DEFINE s == Cut(d, x.used)
             u == x.used
  <2>1. x = ByLength(d)
    BY <1>3, <1>6, CandidateIs
  <2>2. u \in 1 .. Len(d) /\ x = Decode("lzo", s, u, Unknown, max)
    BY <1>1, <1>3, <1>4, <1>6, <2>1, LengthsAreFinal
  <2>3. u \in 0 .. Len(d) /\ u \in Nat \cup {Unknown} /\ u # 0
    BY <1>1, <2>2
  <2>4. Len(s) = u /\ s \in Seq(Nat) /\ Cut(s, u) = s
    BY <1>1, <2>3, CutIs
  <2>5. x = Decode(f, s, u, c, max)
    BY <1>2, <1>6, <2>2
  <2>6. u = x.used /\ s = Cut(d, x.used)
    OBVIOUS
  <2> HIDE DEF s, u
  <2>7. x.size \in 0 .. max /\ Decode(f, Cut(s, x.used), x.used, x.size, max) = x
    BY <1>1, <1>2, <1>4, <2>3, <2>4, <2>5, <2>6, DecodedAgain
  <2>8. Decode(f, s, x.used, x.size, max) = x
    BY <2>4, <2>6, <2>7
  <2>9. QED BY <1>3, <2>2, <2>6, <2>7, <2>8 DEF Again
<1>7. CASE f \notin {"oodle", "lzo"}
  <2>1. x = Decode(f, d, c, c, max)
    BY <1>2, <1>3, <1>7, CandidateIs DEF Answer, NeedsSize
  <2>2. /\ x.used \in 1 .. Len(d) /\ x.size \in 0 .. max
        /\ Decode(f, Cut(d, x.used), x.used, x.size, max) = x
    BY <1>1, <1>2, <1>4, <2>1, DecodedAgain
  <2>3. QED BY <1>3, <2>2 DEF Again
<1>8. QED BY <1>5, <1>6, <1>7

(* What was added by hand is decoded again from its bytes, with both its    *)
(* sizes.                                                                   *)
LEMMA AddedIsAgain ==
  ASSUME CodecIs, NEW d, Window(d), NEW c \in {Unknown, Len(d)}, NEW n \in Nat \cup {Unknown},
         NEW x, x = DecodeAt(d, c, n), Ok(x)
  PROVE  Again(d, x)
<1> DEFINE f == codec.format
           max == codec.max
           z == Decode(f, d, c, n, max)
<1>1. f \in Formats /\ max \in Nat /\ d \in Seq(Nat) /\ Len(d) \in Nat /\ c \in Nat \cup {Unknown}
  BY CodecParts DEF Window
<1>2. x = IF Ok(z) /\ ~ (c \in {Unknown, z.used} /\ n \in {Unknown, z.size}) THEN Fail("SizeMismatch") ELSE z
  BY DEF DecodeAt
<1>3. ~ Ok(Fail("SizeMismatch"))
  BY DEF Ok, Fail
<1>4. x = z /\ c \in {Unknown, x.used} /\ z = Decode(f, d, c, n, max) /\ f = codec.format /\ max = codec.max
  BY <1>2, <1>3
<1> HIDE DEF f, max, z
<1>5. c # 0
  <2>1. SUFFICES ASSUME c = 0 PROVE FALSE
    OBVIOUS
  <2>2. Len(d) = 0 /\ f = "lzo"
    BY <1>1, <1>4, <2>1 DEF Window, Unknown
  <2>3. z = LzoDecodeWithHint(d, 0, max)
    BY <1>4, <2>1, <2>2 DEF Decode
  <2>4. LzoDecodeWithHint(d, 0, max) = Fail("InvalidData")
    BY <2>2 DEF LzoDecodeWithHint, Unknown
  <2>5. ~ Ok(z)
    BY <2>3, <2>4, FailIs DEF Errors
  <2>6. QED BY <1>4, <2>5
<1>6. c # Unknown => c = x.used /\ c # 0
  BY <1>4, <1>5
<1>7. /\ x.used \in 1 .. Len(d) /\ x.size \in 0 .. max
      /\ Decode(f, Cut(d, x.used), x.used, x.size, max) = x
  BY <1>1, <1>4, <1>6, DecodedAgain
<1>8. QED BY <1>4, <1>7 DEF Again

(* The evidence of an Oodle stream that was found is that of the walk that  *)
(* found it, or at most a block more.                                       *)
LEMMA OodleFoundEvidence ==
  ASSUME CodecIs, codec.format = "oodle", NEW d, Window(d),
         NEW x, x = TryAt(d), Ok(x), NEW s, s = Cut(d, x.used),
         NEW p, p = Walk(s, x.size).evidence
  PROVE  Ok(Walk(s, Unknown)) /\ OodleEvidence(s) \in p .. p + BlockSize
<1> DEFINE max == codec.max
<1>1. max \in Nat /\ d \in Seq(Nat) /\ Begins(d, d)
  BY CodecParts, BeginsItself DEF Window
<1>2. x = BySizes(d)
  BY TryAtIs, CandidateIs
<1>3. PICK n \in Nat : x = OodleDecode(d, Unknown, n, max)
  BY <1>1, <1>2, SizesStay
<1>4. n \in Nat \cup {Unknown}
  OBVIOUS
<1> HIDE DEF max
<1>5. /\ x.size = n /\ Ok(Walk(s, Unknown))
      /\ OodleEvidence(s) \in Walk(s, n).evidence .. Walk(s, n).evidence + BlockSize
  BY <1>1, <1>3, <1>4, KnowsTheEnd
<1>6. QED BY <1>5

-----------------------------------------------------------------------------
(* The specification.                                                       *)

CodecTyped == CodecIs /\ Window(data)

(* A window begins with some byte, except a raw LZO stream's.               *)
LEMMA CodecInitTyped ==
  ASSUME CodecInit
  PROVE  CodecTyped
<1>1. PICK f \in Formats, fields \in FieldsBefore, max \in Limits, options \in Filters :
        \E start \in Starts[f] :
          /\ codec = [format |-> f, fields |-> fields, max |-> max, begin |-> Len(start),
                      minSize |-> options.minSize, rawMin |-> options.rawMin]
          /\ data = start
  BY DEF CodecInit
<1>2. data \in Starts[f]
  BY <1>1
<1>3. codec = [format |-> f, fields |-> fields, max |-> max, begin |-> Len(data),
               minSize |-> options.minSize, rawMin |-> options.rawMin]
  BY <1>1
<1>4. data \in Seq(Nat) /\ fields \in Seq(Nat) /\ max \in Nat /\ options.minSize \in Nat /\ options.rawMin \in Nat
  BY <1>2, CodecsAssumption
<1>5. Len(data) \in Nat
  BY <1>4
<1>6. CodecIs
  BY <1>3, <1>4, <1>5 DEF CodecIs
<1>7. f # "lzo" => data # <<>>
  BY <1>2, CodecsAssumption
<1>8. data # <<>> => 0 < Len(data)
  BY <1>4, <1>5
<1>9. codec.format = f
  BY <1>3
<1>10. QED BY <1>4, <1>6, <1>7, <1>8, <1>9 DEF CodecTyped, Window

(* A step shows one more byte of the same file.                             *)
LEMMA FeedGrows ==
  ASSUME CodecTyped, Feed
  PROVE  CodecTyped' /\ Begins(data, data') /\ codec' = codec
<1>1. PICK b \in Alphabet[codec.format] : data' = Append(data, b)
  BY DEF Feed
<1>2. codec' = codec
  BY DEF Feed
<1>3. b \in Nat /\ data \in Seq(Nat)
  BY CodecsAssumption, CodecParts DEF CodecTyped, Window
<1>4. /\ data' \in Seq(Nat) /\ Len(data) \in Nat /\ Len(data') = Len(data) + 1
      /\ \A i \in 1 .. Len(data) : data'[i] = data[i]
  BY <1>1, <1>3
<1>5. Begins(data, data')
  BY <1>3, <1>4 DEF Begins
<1>6. 0 < Len(data) => 0 < Len(data')
  BY <1>4
<1>7. CodecTyped'
  BY <1>2, <1>4, <1>6 DEF CodecTyped, CodecIs, Window
<1>8. QED BY <1>2, <1>5, <1>7

(* The type of a window and of what it is tried as.  Only the growth of the *)
(* window needs it: a byte is appended, and nothing else changes.           *)
THEOREM CodecInvariant == CodecSpec => []CodecTyped
<1>1. CodecInit => CodecTyped
  BY CodecInitTyped
<1>2. CodecTyped /\ [CodecNext]_codecVars => CodecTyped'
  <2>1. CASE Feed
    BY <2>1, FeedGrows
  <2>2. CASE UNCHANGED codecVars
    BY <2>2 DEF codecVars, CodecTyped, CodecIs, Window
  <2>3. QED BY <2>1, <2>2 DEF CodecNext
<1>3. QED BY <1>1, <1>2, PTL DEF CodecSpec

(* What try_at finds, and what decode_at adds, is decoded again from its    *)
(* recorded bytes alone and with both its sizes, to the same sizes: this is *)
(* what match_params, extract and pack rely on, for each format.            *)
THEOREM SameFromItsSizesAlways == CodecSpec => []SameFromItsSizes
<1>1. CodecTyped => SameFromItsSizes
  <2> SUFFICES ASSUME CodecTyped,
                      NEW x \in {TryAt(data)} \cup {DecodeAt(data, c, n) : c \in {Unknown, Len(data)}, n \in {Unknown, 2, 3}},
                      Ok(x)
               PROVE  Again(data, x)
    BY DEF SameFromItsSizes, Again
  <2>1. CodecIs /\ Window(data)
    BY DEF CodecTyped
  <2>2. CASE x = TryAt(data)
    BY <2>1, <2>2, FoundIsAgain
  <2>3. ASSUME NEW c \in {Unknown, Len(data)}, NEW n \in {Unknown, 2, 3}, x = DecodeAt(data, c, n)
        PROVE  Again(data, x)
    <3>1. n \in Nat \cup {Unknown}
      OBVIOUS
    <3>2. QED BY <2>1, <2>3, <3>1, AddedIsAgain
  <2>4. QED BY <2>2, <2>3
<1>2. QED BY <1>1, CodecInvariant, PTL

(* The probe, which is asked first, refuses no window that begins with a    *)
(* stream: each decoder's first checks ask for no less than its probe does. *)
THEOREM ProbeNeverRejectsAlways == CodecSpec => []ProbeNeverRejects
<1>1. CodecTyped => ProbeNeverRejects
  BY ProbeOf DEF CodecTyped, ProbeNeverRejects
<1>2. QED BY <1>1, CodecInvariant, PTL

(* The evidence of an Oodle stream, worked out without the size that led to *)
(* its end: the walk over the recorded bytes comes to their end, and counts *)
(* at most one block more than the walk that knows the size.                *)
THEOREM EvidenceKnowsTheEndAlways == CodecSpec => []EvidenceKnowsTheEnd
<1>1. CodecTyped => EvidenceKnowsTheEnd
  <2> SUFFICES ASSUME CodecTyped, codec.format = "oodle", NEW x, x = TryAt(data), Ok(x),
                      NEW s, s = Cut(data, x.used), NEW p, p = Walk(s, x.size).evidence
               PROVE  Ok(Walk(s, Unknown)) /\ OodleEvidence(s) \in p .. p + BlockSize
    BY DEF EvidenceKnowsTheEnd
  <2>1. QED BY OodleFoundEvidence DEF CodecTyped
<1>2. QED BY <1>1, CodecInvariant, PTL

(* Bytes that follow a stream never change an answer that did not run out   *)
(* of them, and a longer window accepts what a shorter one accepted: the    *)
(* scan may cut its windows at the end of a gap, and find the same streams. *)
THEOREM AnswersAreFinalAlways == CodecSpec => AnswersAreFinal
<1> DEFINE Final == /\ ~ Waiting(data) => Answer(data') = Answer(data)
                    /\ Ok(TryAt(data)) /\ NeedsSize(codec.format) => Ok(TryAt(data'))
                    /\ Ok(TryAt(data)) /\ ~ NeedsSize(codec.format) => TryAt(data') = TryAt(data)
<1>1. CodecTyped /\ Feed => Final
  <2> SUFFICES ASSUME CodecTyped, Feed PROVE Final
    OBVIOUS
  <2>1. Begins(data, data') /\ CodecIs /\ Window(data)
    BY FeedGrows DEF CodecTyped
  <2>2. ~ Waiting(data) => Answer(data') = Answer(data)
    BY <2>1, AnswerIsFinal
  <2>3. Ok(TryAt(data)) /\ NeedsSize(codec.format) => Ok(TryAt(data'))
    BY <2>1, OodleStays DEF NeedsSize
  <2>4. Ok(TryAt(data)) /\ ~ NeedsSize(codec.format) => TryAt(data') = TryAt(data)
    BY <2>1, OthersStay DEF NeedsSize
  <2>5. QED BY <2>2, <2>3, <2>4
<1>2. CodecTyped /\ [CodecNext]_codecVars => [Final]_codecVars
  BY <1>1 DEF CodecNext
<1>3. QED BY <1>2, CodecInvariant, PTL DEF CodecSpec, AnswersAreFinal
=============================================================================

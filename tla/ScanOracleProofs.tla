-------------------------- MODULE ScanOracleProofs --------------------------
(***************************************************************************)
(* The parallel scan finds what the sequential one finds, for every input,  *)
(* every chunk size and every pool of workers.                              *)
(***************************************************************************)
EXTENDS ScanRefinement, ParallelScanProofs, NaturalsInduction, WellFoundedInduction

-----------------------------------------------------------------------------
(* The recursive functions of the sequential scan exist: each value is made *)
(* of values further to the right.                                          *)

LEMMA LeastOf ==
  ASSUME NEW T \in SUBSET Nat, T # {}
  PROVE  \E x \in T : \A y \in T : x <= y
<1> DEFINE R == OpToRel(<, Nat)
<1>1. IsWellFoundedOn(R, Nat)
  BY NatLessThanWellFounded
<1>2. \A x, y \in Nat : x < y => <<x, y>> \in R
  BY DEF OpToRel
<1> HIDE DEF R
<1>3. PICK x \in T : \A y \in T : ~ (<<y, x>> \in R)
  BY <1>1, WFMin, Zenon
<1>4. ASSUME NEW y \in T PROVE x <= y
  <2>1. x \in Nat /\ y \in Nat OBVIOUS
  <2>2. ~ (<<y, x>> \in R) BY <1>3
  <2>3. ~ (y < x) BY <1>2, <2>1, <2>2, Zenon
  <2>4. QED BY <2>1, <2>3
<1>5. QED BY <1>4, Zenon

(* f is made of A along the steps N, and empty at e.                        *)
Gathers(f, s, e, N, A) == f = [p \in s .. e |-> IF p >= e THEN {} ELSE A[p] \cup f[N[p]]]

(* f keeps b from p to where Stop holds, but for the p that Win over it.    *)
Chooses(f, s, e, M, Stop, Win) ==
  f = [p \in s .. e |-> [b \in s .. e - 1 |->
         IF <<p, b>> \in Stop THEN M[b]
         ELSE IF <<p, b>> \in Win THEN f[p + 1][p] ELSE f[p + 1][b]]]

LEMMA RightToLeft ==
  ASSUME NEW s \in Nat, NEW e \in Nat, s <= e, NEW N, NEW A,
         \A p \in s .. e - 1 : N[p] \in p + 1 .. e
  PROVE  \E f : Gathers(f, s, e, N, A)
<1> DEFINE Is(f, n) == f = [p \in e - n .. e |-> IF p >= e THEN {} ELSE A[p] \cup f[N[p]]]
           T == {n \in 0 .. e - s : ~ \E f : Is(f, n)}
<1>1. \E f : Is(f, 0)
  <2> DEFINE f == [p \in e .. e |-> {}]
  <2>1. f = [p \in e - 0 .. e |-> IF p >= e THEN {} ELSE A[p] \cup f[N[p]]]
    OBVIOUS
  <2> HIDE DEF f
  <2>2. QED BY <2>1
<1>2. ASSUME NEW n \in Nat, n + 1 <= e - s, NEW f, Is(f, n)
      PROVE  \E g : Is(g, n + 1)
  <2> DEFINE g == [p \in e - (n + 1) .. e |-> IF p >= e - n THEN f[p] ELSE A[p] \cup f[N[p]]]
  <2>1. ASSUME NEW p \in e - (n + 1) .. e
        PROVE  g[p] = IF p >= e THEN {} ELSE A[p] \cup g[N[p]]
    <3>1. CASE p >= e
      BY <1>2, <3>1
    <3>2. CASE p < e
      <4>1. p \in s .. e - 1 /\ N[p] \in p + 1 .. e
        BY <1>2, <3>2
      <4>2. g[N[p]] = f[N[p]]
        <5>1. N[p] \in e - (n + 1) .. e /\ N[p] >= e - n
          BY <1>2, <4>1
        <5>2. QED BY <5>1
      <4>3. p >= e - n => f[p] = A[p] \cup f[N[p]]
        BY <1>2, <3>2
      <4>4. g[p] = IF p >= e - n THEN f[p] ELSE A[p] \cup f[N[p]]
        OBVIOUS
      <4> HIDE DEF g
      <4>5. g[p] = A[p] \cup g[N[p]]
        BY <4>2, <4>3, <4>4
      <4>6. QED BY <1>2, <3>2, <4>5
    <3> HIDE DEF g
    <3>3. QED BY <3>1, <3>2
  <2>2. g = [p \in e - (n + 1) .. e |-> g[p]]
    OBVIOUS
  <2> HIDE DEF g
  <2>3. g = [p \in e - (n + 1) .. e |-> IF p >= e THEN {} ELSE A[p] \cup g[N[p]]]
    BY <2>1, <2>2
  <2>4. QED BY <2>3
<1>3. T = {}
  <2> SUFFICES ASSUME T # {} PROVE FALSE
    OBVIOUS
  <2>1. T \in SUBSET Nat
    OBVIOUS
  <2> HIDE DEF Is
  <2>2. PICK x \in T : \A y \in T : x <= y
    <3> HIDE DEF T
    <3> QED BY <2>1, LeastOf
  <2>3. x # 0 /\ x \in Nat
    BY <1>1
  <2>4. x - 1 \in Nat /\ x - 1 \notin T /\ (x - 1) + 1 = x
    <3> HIDE DEF T
    <3> QED BY <2>2, <2>3
  <2>5. x <= e - s /\ x - 1 \in 0 .. e - s
    BY <2>3
  <2>6. PICK f : Is(f, x - 1)
    BY <2>4, <2>5
  <2>7. \E g : Is(g, (x - 1) + 1)
    BY <1>2, <2>4, <2>5, <2>6
  <2>8. QED BY <2>4, <2>7
<1>4. e - s \in 0 .. e - s /\ e - (e - s) = s
  OBVIOUS
<1>5. \E f : Is(f, e - s)
  <2> HIDE DEF Is
  <2> QED BY <1>3, <1>4
<1>6. QED BY <1>4, <1>5 DEF Gathers

(* The same for the search inside a match, whose values are functions.      *)
LEMMA LookRightToLeft ==
  ASSUME NEW s \in Nat, NEW e \in Nat, s <= e, NEW M, NEW Stop, NEW Win,
         \A b \in s .. e - 1 : <<e, b>> \in Stop
  PROVE  \E f : Chooses(f, s, e, M, Stop, Win)
<1> DEFINE Row(f, p) == [b \in s .. e - 1 |->
                           IF <<p, b>> \in Stop THEN M[b]
                           ELSE IF <<p, b>> \in Win THEN f[p + 1][p] ELSE f[p + 1][b]]
           Is(f, n) == f = [p \in e - n .. e |-> Row(f, p)]
           T == {n \in 0 .. e - s : ~ \E f : Is(f, n)}
<1>1. \E f : Is(f, 0)
  <2> DEFINE f == [p \in e .. e |-> [b \in s .. e - 1 |-> M[b]]]
  <2>1. Row(f, e) = [b \in s .. e - 1 |-> M[b]]
    OBVIOUS
  <2>2. f = [p \in e - 0 .. e |-> Row(f, p)]
    <3> HIDE DEF Row
    <3>1. e - 0 = e /\ \A p \in e .. e : p = e
      OBVIOUS
    <3> QED BY <2>1, <3>1
  <2> HIDE DEF f
  <2>3. QED BY <2>2
<1>2. ASSUME NEW n \in Nat, n + 1 <= e - s, NEW f, Is(f, n)
      PROVE  \E g : Is(g, n + 1)
  <2> DEFINE g == [p \in e - (n + 1) .. e |-> IF p >= e - n THEN f[p] ELSE Row(f, p)]
  <2>1. ASSUME NEW p \in e - (n + 1) .. e
        PROVE  g[p] = Row(g, p)
    <3>1. CASE p = e
      <4>1. Row(g, p) = [b \in s .. e - 1 |-> M[b]] /\ Row(f, p) = [b \in s .. e - 1 |-> M[b]]
        BY <3>1
      <4>2. f[p] = Row(f, p)
        <5> HIDE DEF Row
        <5> QED BY <1>2, <3>1
      <4>3. g[p] = f[p]
        <5> HIDE DEF Row
        <5> QED BY <1>2, <3>1
      <4>4. QED BY <4>1, <4>2, <4>3
    <3>2. CASE p < e
      <4>1. g[p + 1] = f[p + 1]
        <5> HIDE DEF Row
        <5> QED BY <1>2, <3>2
      <4>0. g[p] = IF p >= e - n THEN f[p] ELSE Row(f, p)
        <5> HIDE DEF Row
        <5> QED OBVIOUS
      <4> HIDE DEF g
      <4>2. Row(g, p) = Row(f, p)
        <5>1. \A b \in s .. e - 1 :
                (IF <<p, b>> \in Stop THEN M[b] ELSE IF <<p, b>> \in Win THEN g[p + 1][p] ELSE g[p + 1][b])
                  = (IF <<p, b>> \in Stop THEN M[b] ELSE IF <<p, b>> \in Win THEN f[p + 1][p] ELSE f[p + 1][b])
          BY <4>1
        <5>2. QED BY <5>1
      <4> HIDE DEF Row
      <4>3. p >= e - n => f[p] = Row(f, p)
        BY <1>2, <3>2
      <4>4. QED BY <4>0, <4>2, <4>3
    <3> HIDE DEF g, Row
    <3>3. QED BY <3>1, <3>2
  <2> HIDE DEF Row
  <2>2. g = [p \in e - (n + 1) .. e |-> g[p]]
    OBVIOUS
  <2> HIDE DEF g
  <2>3. g = [p \in e - (n + 1) .. e |-> Row(g, p)]
    BY <2>1, <2>2
  <2>4. QED BY <2>3
<1>3. T = {}
  <2> SUFFICES ASSUME T # {} PROVE FALSE
    OBVIOUS
  <2>1. T \in SUBSET Nat
    OBVIOUS
  <2> HIDE DEF Is
  <2>2. PICK x \in T : \A y \in T : x <= y
    <3> HIDE DEF T
    <3> QED BY <2>1, LeastOf
  <2>3. x # 0 /\ x \in Nat
    BY <1>1
  <2>4. x - 1 \in Nat /\ x - 1 \notin T /\ (x - 1) + 1 = x
    <3> HIDE DEF T
    <3> QED BY <2>2, <2>3
  <2>5. x <= e - s /\ x - 1 \in 0 .. e - s
    BY <2>3
  <2>6. PICK f : Is(f, x - 1)
    BY <2>4, <2>5
  <2>7. \E g : Is(g, (x - 1) + 1)
    BY <1>2, <2>4, <2>5, <2>6
  <2>8. QED BY <2>4, <2>7
<1>4. e - s \in 0 .. e - s /\ e - (e - s) = s
  OBVIOUS
<1>5. \E f : Is(f, e - s)
  <2> HIDE DEF Is
  <2> QED BY <1>3, <1>4
<1>6. QED BY <1>4, <1>5 DEF Chooses

-----------------------------------------------------------------------------
(* What the loops of the sequential scan compute, offset by offset.         *)

LEMMA TryAtType ==
  ASSUME NEW d \in Input, NEW pass \in Pass, NEW p \in Pos, NEW e \in 0 .. DataLen
  PROVE  /\ TryAt(d, pass, p, e) \in 0 .. e
         /\ IsMatch(d, pass, p, e) => p < TryAt(d, pass, p, e)
<1>1. DataLen \in Nat
  BY ScanAssumption
<1>2. d.try[pass] \in TryTable
  BY DEF Input
<1>3. LET f == d.try[pass] IN f[p][e] \in 0 .. DataLen /\ (f[p][e] = 0 \/ (p < f[p][e] /\ f[p][e] <= e))
  BY <1>1, <1>2 DEF TryTable
<1>4. QED BY <1>1, <1>3 DEF TryAt, IsMatch

LEMMA LookDef ==
  ASSUME NEW d \in Input, NEW s \in 0 .. DataLen, NEW e \in s .. DataLen,
         NEW p \in s .. e, NEW b \in s .. e - 1
  PROVE  LET M(x) == MatchAt(d, "Unverified", x, e)
         IN  Look(d, s, e)[p][b] =
               IF p >= M(b).end THEN M(b)
               ELSE IF /\ IsMatch(d, "Unverified", p, e)
                       /\ LaterMatchWins(MatchesIn(d, "Unverified", s, e), M(b), M(p))
                    THEN Look(d, s, e)[p + 1][p]
                    ELSE Look(d, s, e)[p + 1][b]
<1> DEFINE M(x) == MatchAt(d, "Unverified", x, e)
           wins(x, y) == /\ IsMatch(d, "Unverified", x, e)
                         /\ LaterMatchWins(MatchesIn(d, "Unverified", s, e), M(y), M(x))
           Row(f, x) == [y \in s .. e - 1 |->
                           IF x >= M(y).end THEN M(y)
                           ELSE IF wins(x, y) THEN f[x + 1][x] ELSE f[x + 1][y]]
           Stop == {z \in (s .. e) \X (s .. e - 1) : z[1] >= M(z[2]).end}
           Win == {z \in (s .. e) \X (s .. e - 1) : wins(z[1], z[2])}
           Table == [y \in s .. e - 1 |-> M(y)]
<1>1. s \in Nat /\ e \in Nat /\ s <= e /\ e <= DataLen /\ DataLen \in Nat
  BY ScanAssumption
<1>2. \A y \in s .. e - 1 : M(y).end \in 0 .. e
  <2> TAKE y \in s .. e - 1
  <2>1. y \in Pos
    BY <1>1 DEF Pos
  <2>2. QED BY <1>1, <2>1, TryAtType DEF MatchAt, Pass
<1>3. Look(d, s, e) = CHOOSE f : f = [x \in s .. e |-> Row(f, x)]
  BY DEF Look
<1> HIDE DEF M, wins
<1>4. \A y \in s .. e - 1 : <<e, y>> \in Stop
  BY <1>1, <1>2
<1>5. \E f : Chooses(f, s, e, Table, Stop, Win)
  <2> HIDE DEF Stop, Win, Table
  <2> QED BY <1>1, <1>4, LookRightToLeft
<1>6. \E f : f = [x \in s .. e |-> Row(f, x)]
  <2>1. PICK f : f = [x \in s .. e |-> [y \in s .. e - 1 |->
           IF <<x, y>> \in Stop THEN Table[y]
           ELSE IF <<x, y>> \in Win THEN f[x + 1][x] ELSE f[x + 1][y]]]
    BY <1>5 DEF Chooses
  <2>2. \A x \in s .. e, y \in s .. e - 1 :
          /\ <<x, y>> \in Stop <=> x >= M(y).end
          /\ <<x, y>> \in Win <=> wins(x, y)
          /\ Table[y] = M(y)
    OBVIOUS
  <2> HIDE DEF Stop, Win, Table
  <2>3. f = [x \in s .. e |-> Row(f, x)]
    <3>1. ASSUME NEW x \in s .. e
          PROVE  [y \in s .. e - 1 |->
                    IF <<x, y>> \in Stop THEN Table[y]
                    ELSE IF <<x, y>> \in Win THEN f[x + 1][x] ELSE f[x + 1][y]] = Row(f, x)
      BY <2>2
    <3> HIDE DEF Row
    <3>2. QED BY <2>1, <3>1
  <2> HIDE DEF Row
  <2>4. QED BY <2>3
<1>7. Look(d, s, e) = [x \in s .. e |-> Row(Look(d, s, e), x)]
  <2> HIDE DEF Row
  <2> QED BY <1>3, <1>6
<1>8. Look(d, s, e)[p] = Row(Look(d, s, e), p)
  <2> HIDE DEF Row
  <2> QED BY <1>7
<1>9. Look(d, s, e)[p][b] = IF p >= M(b).end THEN M(b)
                            ELSE IF wins(p, b) THEN Look(d, s, e)[p + 1][p] ELSE Look(d, s, e)[p + 1][b]
  BY <1>8
<1>10. QED BY <1>9, Zenon DEF M, wins

(* The match kept is a match that starts no earlier than the first one.     *)
LEMMA LookResult ==
  ASSUME NEW d \in Input, NEW s \in 0 .. DataLen, NEW e \in s .. DataLen,
         NEW p \in s .. e, NEW b \in s .. e - 1, b < p, IsMatch(d, "Unverified", b, e)
  PROVE  \E x \in s .. e - 1 :
           /\ b <= x /\ IsMatch(d, "Unverified", x, e)
           /\ Look(d, s, e)[p][b] = MatchAt(d, "Unverified", x, e)
<1> DEFINE Good(q, c) == \E x \in s .. e - 1 :
                           /\ c <= x /\ IsMatch(d, "Unverified", x, e)
                           /\ Look(d, s, e)[q][c] = MatchAt(d, "Unverified", x, e)
           Bad(q) == \E c \in s .. e - 1 : c < q /\ IsMatch(d, "Unverified", c, e) /\ ~ Good(q, c)
           T == {n \in 0 .. e - s : Bad(e - n)}
<1>1. s \in Nat /\ e \in Nat /\ s <= e /\ e <= DataLen /\ DataLen \in Nat
  BY ScanAssumption
<1>2. ASSUME NEW n \in T PROVE n - 1 \in T
  <2> DEFINE q == e - n
  <2>1. n \in 0 .. e - s /\ q \in s .. e
    BY <1>1
  <2>2. PICK c \in s .. e - 1 : c < q /\ IsMatch(d, "Unverified", c, e) /\ ~ Good(q, c)
    OBVIOUS
  <2> DEFINE M(x) == MatchAt(d, "Unverified", x, e)
             win == /\ IsMatch(d, "Unverified", q, e)
                    /\ LaterMatchWins(MatchesIn(d, "Unverified", s, e), M(c), M(q))
  <2>3. Look(d, s, e)[q][c] =
          IF q >= M(c).end THEN M(c)
          ELSE IF win THEN Look(d, s, e)[q + 1][q] ELSE Look(d, s, e)[q + 1][c]
    <3> HIDE DEF q
    <3> QED BY <2>1, <2>2, LookDef, Zenon
  <2> HIDE DEF win
  <2>4. q < M(c).end /\ ~ (q >= M(c).end)
    <3> HIDE DEF M
    <3>1. q >= M(c).end => Look(d, s, e)[q][c] = M(c)
      BY <2>3
    <3>2. M(c).end \in Int /\ q \in Int
      BY <1>1, <2>1, TryAtType DEF M, MatchAt, Pos, Pass
    <3>3. ~ (q >= M(c).end)
      BY <1>1, <2>2, <3>1 DEF M
    <3>4. QED BY <3>2, <3>3
  <2>5. q \in s .. e - 1 /\ q < e
    BY <1>1, <2>1, <2>4, TryAtType DEF MatchAt, Pos, Pass
  <2>6. CASE win
    <3>1. IsMatch(d, "Unverified", q, e)
      BY <2>6 DEF win
    <3>2. Look(d, s, e)[q][c] = Look(d, s, e)[q + 1][q]
      <4> HIDE DEF M, q
      <4> QED BY <2>3, <2>4, <2>6
    <3>3. ~ Good(q + 1, q)
      BY <1>1, <2>2, <2>5, <3>2
    <3>4. Bad(q + 1)
      <4> HIDE DEF Good, q
      <4> QED BY <2>5, <3>1, <3>3
    <3>5. QED BY <1>1, <2>1, <2>5, <3>4
  <2>7. CASE ~ win
    <3>2. Look(d, s, e)[q][c] = Look(d, s, e)[q + 1][c]
      <4> HIDE DEF M, q
      <4> QED BY <2>3, <2>4, <2>7
    <3>3. ~ Good(q + 1, c)
      BY <1>1, <2>2, <2>5, <3>2
    <3>4. Bad(q + 1)
      <4> HIDE DEF Good, q
      <4> QED BY <2>2, <2>5, <3>3
    <3>5. QED BY <1>1, <2>1, <2>5, <3>4
  <2>8. QED BY <2>6, <2>7
<1>3. T = {}
  <2> SUFFICES ASSUME T # {} PROVE FALSE
    OBVIOUS
  <2>1. T \in SUBSET Nat
    OBVIOUS
  <2> HIDE DEF T
  <2>2. PICK x \in T : \A y \in T : x <= y
    BY <2>1, LeastOf
  <2>3. QED BY <1>2, <2>1, <2>2
<1>4. ~ Bad(p)
  <2>1. e - p \in 0 .. e - s /\ e - (e - p) = p
    BY <1>1
  <2> HIDE DEF Bad
  <2>2. QED BY <1>3, <2>1
<1>5. QED BY <1>4

(* Offsets without a match change nothing.                                  *)
LEMMA LookSkip ==
  ASSUME NEW d \in Input, NEW s \in 0 .. DataLen, NEW e \in s .. DataLen,
         NEW p \in s .. e, NEW q \in p .. e, NEW b \in s .. e - 1,
         q <= MatchAt(d, "Unverified", b, e).end,
         \A x \in p .. q - 1 : ~ IsMatch(d, "Unverified", x, e)
  PROVE  Look(d, s, e)[p][b] = Look(d, s, e)[q][b]
<1> DEFINE L(x) == Look(d, s, e)[x][b]
           T == {n \in 0 .. q - p : L(q - n) # L(q)}
<1>1. s \in Nat /\ e \in Nat /\ s <= e /\ e <= DataLen /\ DataLen \in Nat
  BY ScanAssumption
<1>a. MatchAt(d, "Unverified", b, e).end \in Int
  BY <1>1, TryAtType DEF MatchAt, Pos, Pass
<1>2. ASSUME NEW n \in T PROVE n - 1 \in T
  <2> DEFINE x == q - n
  <2>1. n # 0 /\ n \in 0 .. q - p
    BY <1>1
  <2>2. x \in s .. e /\ x \in p .. q - 1 /\ ~ (x >= MatchAt(d, "Unverified", b, e).end)
    BY <1>1, <1>a, <2>1
  <2>3. L(x) = L(x + 1)
    <3> HIDE DEF x
    <3>1. ~ IsMatch(d, "Unverified", x, e)
      BY <2>2
    <3>2. QED BY <2>2, <3>1, LookDef, Zenon
  <2>4. x + 1 = q - (n - 1)
    BY <1>1, <2>1
  <2>5. L(q - (n - 1)) # L(q)
    BY <2>3, <2>4
  <2>6. QED BY <1>1, <2>1, <2>5
<1>3. T = {}
  <2> SUFFICES ASSUME T # {} PROVE FALSE
    OBVIOUS
  <2>1. T \in SUBSET Nat
    OBVIOUS
  <2> HIDE DEF T
  <2>2. PICK x \in T : \A y \in T : x <= y
    BY <2>1, LeastOf
  <2>3. QED BY <1>2, <2>1, <2>2
<1>4. q - p \in 0 .. q - p /\ q - (q - p) = p
  BY <1>1
<1>5. L(p) = L(q)
  <2> HIDE DEF L
  <2> QED BY <1>3, <1>4
<1>6. QED BY <1>5

(* The stream the sequential scan keeps for a match at an offset: it ends   *)
(* past the offset and within the range.                                    *)
Kept(d, pass, s, e, p) ==
  IF pass = "Verified" THEN MatchAt(d, pass, p, e) ELSE BestMatch(d, s, e, p)

LEMMA KeptType ==
  ASSUME NEW d \in Input, NEW pass \in Pass, NEW s \in 0 .. DataLen, NEW e \in s .. DataLen,
         NEW p \in s .. e - 1, IsMatch(d, pass, p, e)
  PROVE  Kept(d, pass, s, e, p).end \in p + 1 .. e
<1>1. s \in Nat /\ e \in Nat /\ s <= e /\ e <= DataLen /\ DataLen \in Nat
  BY ScanAssumption
<1>2. ASSUME NEW x \in s .. e - 1, p <= x, IsMatch(d, pass, x, e)
      PROVE  MatchAt(d, pass, x, e).end \in p + 1 .. e
  <2>1. x \in Pos
    BY <1>1 DEF Pos
  <2>2. TryAt(d, pass, x, e) \in 0 .. e /\ x < TryAt(d, pass, x, e)
    BY <1>1, <1>2, <2>1, TryAtType
  <2>3. QED BY <1>1, <1>2, <2>2 DEF MatchAt
<1>3. CASE pass = "Verified"
  BY <1>1, <1>2, <1>3 DEF Kept
<1>4. CASE pass # "Verified"
  <2>1. pass = "Unverified"
    BY <1>4 DEF Pass
  <2>2. p + 1 \in s .. e /\ p < p + 1
    BY <1>1
  <2>3. PICK x \in s .. e - 1 :
          /\ p <= x /\ IsMatch(d, pass, x, e)
          /\ Look(d, s, e)[p + 1][p] = MatchAt(d, pass, x, e)
    BY <2>1, <2>2, LookResult
  <2>4. Kept(d, pass, s, e, p) = MatchAt(d, pass, x, e)
    BY <1>4, <2>3 DEF Kept, BestMatch
  <2>5. QED BY <1>2, <2>3, <2>4
<1>5. QED BY <1>3, <1>4

LEMMA ScanDef ==
  ASSUME NEW d \in Input, NEW pass \in Pass, NEW s \in 0 .. DataLen, NEW e \in s .. DataLen,
         NEW p \in s .. e
  PROVE  /\ p = e => Scan(d, pass, s, e)[p] = {}
         /\ p < e /\ ~ IsMatch(d, pass, p, e) => Scan(d, pass, s, e)[p] = Scan(d, pass, s, e)[p + 1]
         /\ p < e /\ IsMatch(d, pass, p, e) =>
              Scan(d, pass, s, e)[p] =
                {Kept(d, pass, s, e, p)} \cup Scan(d, pass, s, e)[Kept(d, pass, s, e, p).end]
<1> DEFINE K(x) == Kept(d, pass, s, e, x)
           hit(x) == IsMatch(d, pass, x, e)
           N == [x \in s .. e - 1 |-> IF hit(x) THEN K(x).end ELSE x + 1]
           A == [x \in s .. e - 1 |-> IF hit(x) THEN {K(x)} ELSE {}]
           At(f, x) == IF x >= e THEN {} ELSE IF ~ hit(x) THEN f[x + 1] ELSE {K(x)} \cup f[K(x).end]
           S == Scan(d, pass, s, e)
<1>1. s \in Nat /\ e \in Nat /\ s <= e /\ e <= DataLen /\ DataLen \in Nat
  BY ScanAssumption
<1>2. \A x \in s .. e - 1 : N[x] \in x + 1 .. e
  <2> TAKE x \in s .. e - 1
  <2>1. hit(x) => K(x).end \in x + 1 .. e
    BY KeptType
  <2> HIDE DEF hit, K
  <2>2. QED BY <1>1, <2>1
<1>3. S = CHOOSE f : f = [x \in s .. e |-> At(f, x)]
  BY DEF Scan, Kept
<1> HIDE DEF hit, K
<1>4. \E f : f = [x \in s .. e |-> At(f, x)]
  <2>1. PICK f : Gathers(f, s, e, N, A)
    <3> HIDE DEF N, A
    <3> QED BY <1>1, <1>2, RightToLeft
  <2>2. ASSUME NEW x \in s .. e PROVE (IF x >= e THEN {} ELSE A[x] \cup f[N[x]]) = At(f, x)
    <3>1. CASE x >= e
      BY <3>1
    <3>2. CASE ~ (x >= e)
      <4>1. x \in s .. e - 1
        BY <1>1, <3>2
      <4>2. hit(x) => A[x] = {K(x)} /\ N[x] = K(x).end
        BY <4>1
      <4>3. ~ hit(x) => A[x] = {} /\ N[x] = x + 1
        BY <4>1
      <4> HIDE DEF A, N
      <4>4. QED BY <3>2, <4>2, <4>3
    <3>3. QED BY <3>1, <3>2
  <2> HIDE DEF At
  <2>3. f = [x \in s .. e |-> At(f, x)]
    BY <2>1, <2>2 DEF Gathers
  <2>4. QED BY <2>3
<1> HIDE DEF S
<1>5. S = [x \in s .. e |-> At(S, x)]
  <2> HIDE DEF At
  <2> QED BY <1>3, <1>4
<1>6. S[p] = At(S, p)
  <2> HIDE DEF At
  <2> QED BY <1>5
<1>7. /\ p = e => S[p] = {}
      /\ p < e /\ ~ hit(p) => S[p] = S[p + 1]
      /\ p < e /\ hit(p) => S[p] = {K(p)} \cup S[K(p).end]
  BY <1>1, <1>6
<1>8. QED BY <1>7 DEF S, hit, K

LEMMA ScanSkip ==
  ASSUME NEW d \in Input, NEW pass \in Pass, NEW s \in 0 .. DataLen, NEW e \in s .. DataLen,
         NEW p \in s .. e, NEW q \in p .. e,
         \A x \in p .. q - 1 : ~ IsMatch(d, pass, x, e)
  PROVE  Scan(d, pass, s, e)[p] = Scan(d, pass, s, e)[q]
<1> DEFINE S(x) == Scan(d, pass, s, e)[x]
           T == {n \in 0 .. q - p : S(q - n) # S(q)}
<1>1. s \in Nat /\ e \in Nat /\ s <= e /\ e <= DataLen /\ DataLen \in Nat
  BY ScanAssumption
<1>2. ASSUME NEW n \in T PROVE n - 1 \in T
  <2> DEFINE x == q - n
  <2>1. n # 0 /\ n \in 0 .. q - p
    BY <1>1
  <2>2. x \in s .. e /\ x \in p .. q - 1 /\ x < e
    BY <1>1, <2>1
  <2>3. S(x) = S(x + 1)
    <3> HIDE DEF x
    <3> QED BY <2>2, ScanDef
  <2>4. x + 1 = q - (n - 1)
    BY <1>1, <2>1
  <2>5. S(q - (n - 1)) # S(q)
    BY <2>3, <2>4
  <2>6. QED BY <1>1, <2>1, <2>5
<1>3. T = {}
  <2> SUFFICES ASSUME T # {} PROVE FALSE
    OBVIOUS
  <2>1. T \in SUBSET Nat
    OBVIOUS
  <2> HIDE DEF T
  <2>2. PICK x \in T : \A y \in T : x <= y
    BY <2>1, LeastOf
  <2>3. QED BY <1>2, <2>1, <2>2
<1>4. q - p \in 0 .. q - p /\ q - (q - p) = p
  BY <1>1
<1>5. S(p) = S(q)
  <2>1. S(q - (q - p)) = S(q)
    <3> HIDE DEF S
    <3> QED BY <1>3, <1>4
  <2>2. QED BY <1>4, <2>1
<1>6. QED BY <1>5

-----------------------------------------------------------------------------
(* Matches and gaps.                                                        *)

LEMMA MatchFacts ==
  ASSUME NEW d \in Input, NEW pass \in Pass, NEW s \in 0 .. DataLen, NEW e \in s .. DataLen,
         NEW m \in MatchesIn(d, pass, s, e)
  PROVE  /\ m.offset \in s .. e - 1 /\ m.end \in m.offset + 1 .. e
         /\ IsMatch(d, pass, m.offset, e) /\ m = MatchAt(d, pass, m.offset, e)
         /\ m \in Stream /\ (m.verified <=> pass = "Verified")
<1>1. s \in Nat /\ e \in Nat /\ s <= e /\ e <= DataLen /\ DataLen \in Nat
  BY ScanAssumption
<1>2. PICK p \in s .. e - 1 : IsMatch(d, pass, p, e) /\ m = MatchAt(d, pass, p, e)
  BY DEF MatchesIn
<1>3. p \in Pos
  BY <1>1 DEF Pos
<1>4. TryAt(d, pass, p, e) \in 0 .. e /\ p < TryAt(d, pass, p, e)
  BY <1>1, <1>2, <1>3, TryAtType
<1>5. m.offset = p /\ m.end = TryAt(d, pass, p, e) /\ (m.verified <=> pass = "Verified")
  BY <1>2 DEF MatchAt
<1>6. TryAt(d, pass, p, e) \in 1 .. DataLen /\ (pass = "Verified") \in BOOLEAN
  BY <1>1, <1>3, <1>4 DEF Pos
<1>7. m \in Stream
  BY <1>2, <1>3, <1>6 DEF MatchAt, Stream
<1>8. QED BY <1>1, <1>2, <1>4, <1>5, <1>7

LEMMA MatchIsIn ==
  ASSUME NEW d, NEW pass, NEW s, NEW e, NEW p \in s .. e - 1, IsMatch(d, pass, p, e)
  PROVE  MatchAt(d, pass, p, e) \in MatchesIn(d, pass, s, e) /\ MatchAt(d, pass, p, e).offset = p
BY DEF MatchesIn, MatchAt

(* A gap does not end before it starts.                                     *)
LEMMA GapOrdered ==
  ASSUME NEW F \in SUBSET Stream,
         \A s \in F : s.offset < s.end,
         \A s, t \in F : s # t => Disjoint(s, t),
         NEW g \in Gaps(F)
  PROVE  g.start \in 0 .. DataLen /\ g.end \in g.start .. DataLen
<1>1. DataLen \in Nat /\ \A s \in F : s.offset \in Nat /\ s.end \in Nat /\ s.offset < s.end /\ s.end <= DataLen
  BY ScanAssumption DEF Stream, Pos
<1>2. g.start \in 0 .. DataLen /\ g.end \in 0 .. DataLen
  BY GapTypes DEF Spans
<1>3. CASE g.start = 0
  BY <1>1, <1>2, <1>3
<1>4. CASE \E s \in F : g.start = s.end /\ IsPrevious(F, s, g.end)
                         /\ g.end \in {t.offset : t \in F} \cup {DataLen}
  <2>1. PICK s \in F : /\ g.start = s.end /\ IsPrevious(F, s, g.end)
                       /\ g.end \in {t.offset : t \in F} \cup {DataLen}
    BY <1>4
  <2>2. CASE g.end = DataLen
    <3>1. g.start = s.end /\ s.end \in Nat /\ s.end <= DataLen
      BY <1>1, <2>1
    <3>2. QED BY <1>2, <2>2, <3>1
  <2>3. CASE \E t \in F : g.end = t.offset
    <3>1. PICK t \in F : g.end = t.offset
      BY <2>3
    <3>2. s.offset < t.offset
      BY <2>1, <3>1 DEF IsPrevious
    <3>3. s.end <= t.offset \/ t.end <= s.offset
      BY <1>1, <3>2 DEF Disjoint
    <3>4. QED BY <1>1, <1>2, <2>1, <3>1, <3>2, <3>3
  <2>4. QED BY <2>1, <2>2, <2>3
<1>5. QED BY <1>3, <1>4 DEF Gaps

(* The gaps the unverified pass works on, at any moment.                    *)
LEMMA GapFacts ==
  ASSUME IInv
  PROVE  /\ VerifiedFound \in SUBSET Stream
         /\ Gaps(VerifiedFound) \in SUBSET Spans
         /\ \A g \in Gaps(VerifiedFound) : g.start \in 0 .. DataLen /\ g.end \in g.start .. DataLen
         /\ \A g, h \in Gaps(VerifiedFound) : g # h => g.end <= h.start \/ h.end <= g.start
<1>1. VerifiedFound \in SUBSET Stream
  BY DEF IInv, TypeOK, VerifiedFound
<1>2. /\ \A s \in VerifiedFound : s.offset < s.end
      /\ \A s, t \in VerifiedFound : s # t => Disjoint(s, t)
  BY DEF IInv, Kinds, NoOverlap, Disjoint, VerifiedFound
<1>3. Gaps(VerifiedFound) \in SUBSET Spans
  BY <1>1, GapTypes
<1>4. \A g \in Gaps(VerifiedFound) : g.start \in 0 .. DataLen /\ g.end \in g.start .. DataLen
  BY <1>1, <1>2, GapOrdered
<1>5. \A g, h \in Gaps(VerifiedFound) : g # h => g.end <= h.start \/ h.end <= g.start
  BY <1>1, <1>2, GapsDisjoint
<1>6. QED BY <1>1, <1>3, <1>4, <1>5

(* An offset is in one gap at most.                                         *)
LEMMA OneGap ==
  ASSUME IInv, NEW g \in Gaps(VerifiedFound), NEW h \in Gaps(VerifiedFound), NEW p \in Int,
         g.start <= p, p < g.end, h.start <= p, p < h.end
  PROVE  g = h
<1>1. g.start \in Int /\ g.end \in Int /\ h.start \in Int /\ h.end \in Int
  BY GapFacts, ScanAssumption
<1>2. QED BY <1>1, GapFacts

LEMMA RawMatchFacts ==
  ASSUME IInv, NEW g \in Gaps(VerifiedFound), NEW m \in RawMatches(g)
  PROVE  /\ m.offset \in g.start .. g.end - 1 /\ m.end \in m.offset + 1 .. g.end
         /\ IsMatch(data, "Unverified", m.offset, g.end)
         /\ m = MatchAt(data, "Unverified", m.offset, g.end)
         /\ m \in Stream /\ ~ m.verified /\ m # None
         /\ m.offset \in Int /\ m.end \in Int /\ g.start \in Int /\ g.end \in Int
<1>1. data \in Input /\ g.start \in 0 .. DataLen /\ g.end \in g.start .. DataLen
  BY GapFacts DEF IInv, TypeOK
<1>2. "Unverified" \in Pass
  BY DEF Pass
<1>3. QED BY <1>1, <1>2, MatchFacts, ParallelAssumption, ScanAssumption DEF RawMatches

-----------------------------------------------------------------------------
(* Each step keeps the parallel scan beside the sequential one.             *)

LEMMA SameInput ==
  ASSUME data' = data
  PROVE  /\ VerifiedMatches' = VerifiedMatches /\ VerifiedScan' = VerifiedScan
         /\ \A g : RawMatches(g)' = RawMatches(g) /\ RawScan(g)' = RawScan(g)
         /\ ScanSequential(data)' = ScanSequential(data)
BY DEF VerifiedMatches, VerifiedScan, RawMatches, RawScan

(* The steps before and after the merges, and a cancellation.               *)
LEMMA CancelFollows ==
  ASSUME OracleInv, Cancel
  PROVE  Collected' /\ VerifiedMerged' /\ UnverifiedMerged' /\ Resolved'
<1>1. /\ UNCHANGED <<data, pc, todo, busy, hits, pending, best, lastEnd, found, matched, outcome>>
      /\ cancelled'
  BY DEF Cancel, merge
<1>2. VerifiedFound' = VerifiedFound /\ InHand' = InHand
  BY <1>1 DEF VerifiedFound, InHand
<1>3. Collected'
  BY <1>1, <1>2, SameInput DEF OracleInv, Collected
<1>4. VerifiedMerged' /\ UnverifiedMerged'
  BY <1>1 DEF VerifiedMerged, UnverifiedMerged
<1>5. Resolved'
  BY <1>1, SameInput DEF OracleInv, Resolved
<1>6. QED BY <1>3, <1>4, <1>5

LEMMA StutterFollows ==
  ASSUME OracleInv, UNCHANGED vars
  PROVE  Collected' /\ VerifiedMerged' /\ UnverifiedMerged' /\ Resolved'
<1>1. UNCHANGED <<data, pc, cancelled, todo, busy, hits, pending, best, lastEnd, found, matched, outcome>>
  BY DEF vars, merge
<1>2. VerifiedFound' = VerifiedFound /\ InHand' = InHand /\ \A g : RawFound(g)' = RawFound(g)
  BY <1>1 DEF VerifiedFound, InHand, RawFound
<1>3. Collected'
  BY <1>1, <1>2, SameInput DEF OracleInv, Collected
<1>4. VerifiedMerged'
  BY <1>1, <1>2, SameInput DEF OracleInv, VerifiedMerged
<1>5. UnverifiedMerged'
  BY <1>1, <1>2, SameInput DEF OracleInv, UnverifiedMerged, GapMerged
<1>6. Resolved'
  BY <1>1, SameInput DEF OracleInv, Resolved
<1>7. QED BY <1>3, <1>4, <1>5, <1>6

LEMMA CheckFormatsFollows ==
  ASSUME OracleInv, CheckFormats
  PROVE  Collected' /\ VerifiedMerged' /\ UnverifiedMerged' /\ Resolved'
<1>1. /\ UNCHANGED <<data, found, matched>> /\ pc' \in {"StartVerified", "Returned"}
      /\ outcome = "None" /\ outcome' \in {"None", "Unavailable"}
  BY DEF CheckFormats, OracleInv, IInv, Accounted
<1>2. QED BY <1>1 DEF OracleInv, Collected, VerifiedMerged, UnverifiedMerged, Resolved

LEMMA StartVerifiedFollows ==
  ASSUME OracleInv, StartVerified
  PROVE  Collected' /\ VerifiedMerged' /\ UnverifiedMerged' /\ Resolved'
<1>1. /\ UNCHANGED <<data, hits, found, matched, outcome>> /\ pc' \in {"CollectVerified", "StartUnverified"}
      /\ pc = "StartVerified" /\ hits = {} /\ found = {} /\ outcome = "None"
      /\ pc' = "CollectVerified" => "Verified" \in data.passes
      /\ pc' = "StartUnverified" => "Verified" \notin data.passes
  BY DEF StartVerified, OracleInv, IInv, AtRest, Accounted, Collecting
<1>2. VerifiedFound' = {}
  BY <1>1 DEF VerifiedFound
<1>3. Collected' /\ UnverifiedMerged'
  BY <1>1 DEF Collected, UnverifiedMerged
<1>4. VerifiedMerged' /\ Resolved'
  BY <1>1, <1>2 DEF OracleInv, VerifiedMerged, Resolved
<1>5. QED BY <1>3, <1>4

(* The units of the gaps cover every match in a gap.                        *)
LEMMA StartUnverifiedFollows ==
  ASSUME OracleInv, StartUnverified
  PROVE  Collected' /\ VerifiedMerged' /\ UnverifiedMerged' /\ Resolved'
<1>1. /\ UNCHANGED <<data, cancelled, busy, hits, found, matched, outcome>>
      /\ pc = "StartUnverified" /\ hits = {} /\ outcome = "None" /\ IInv
  BY DEF StartUnverified, OracleInv, IInv, AtRest, Accounted, Collecting, merge
<1>2. VerifiedFound = found /\ VerifiedFound' = found
  BY <1>1 DEF IInv, Kinds, VerifiedFound
<1>3. CASE "Unverified" \in data.passes
  <2>1. pc' = "CollectUnverified" /\ todo' = Work(Gaps(found)) /\ InHand' = {}
    BY <1>1, <1>3 DEF StartUnverified, IInv, AtRest, Idle, Collecting, InHand
  <2>2. ASSUME NEW g \in Gaps(found), NEW m \in RawMatches(g)
        PROVE  \E u \in Work(Gaps(found)) : u.from <= m.offset /\ m.offset < u.to
    <3>1. m.offset \in g.start .. g.end - 1 /\ m \in Stream /\ g.start \in Int /\ g.end \in Int
      BY <1>1, <1>2, RawMatchFacts
    <3>2. m.offset \in Pos /\ g.start <= m.offset /\ m.offset < g.end
      BY <3>1 DEF Stream
    <3>3. QED BY <1>1, <1>2, <3>2, GapFacts, UnitsPartition
  <2>3. Collected'
    BY <1>1, <1>2, <2>1, <2>2, SameInput DEF Collected
  <2>4. VerifiedMerged' /\ UnverifiedMerged' /\ Resolved'
    BY <1>1, <1>2, <1>3, <2>1, SameInput DEF OracleInv, VerifiedMerged, UnverifiedMerged, Resolved
  <2>5. QED BY <2>3, <2>4
<1>4. CASE "Unverified" \notin data.passes
  <2>1. pc' = "StartParams"
    BY <1>4 DEF StartUnverified
  <2>2. ~ cancelled => found = ScanSequential(data)
    BY <1>1, <1>2, <1>4 DEF OracleInv, VerifiedMerged, VerifiedScan, ScanSequential, ScanRange
  <2>3. QED BY <1>1, <2>1, <2>2, SameInput
            DEF OracleInv, Collected, VerifiedMerged, UnverifiedMerged, Resolved
<1>5. QED BY <1>3, <1>4

LEMMA AfterwardsFollows ==
  ASSUME OracleInv, StartParams \/ EndParams \/ Return
  PROVE  Collected' /\ VerifiedMerged' /\ UnverifiedMerged' /\ Resolved'
<1>1. /\ UNCHANGED <<data, cancelled, found, matched>> /\ outcome = "None"
      /\ pc \in {"StartParams", "Params", "Return"} /\ pc' \in {"Params", "Return", "Returned"}
      /\ pc' = "Params" => data.matchParams
      /\ outcome' = "Ok" => ~ cancelled
  BY DEF StartParams, EndParams, Return, OracleInv, IInv, Accounted
<1>2. Collected' /\ VerifiedMerged' /\ UnverifiedMerged'
  BY <1>1 DEF Collected, VerifiedMerged, UnverifiedMerged
<1>3. Resolved'
  BY <1>1, SameInput DEF OracleInv, Resolved
<1>4. QED BY <1>2, <1>3

(* A unit is lost only when the scan is cancelled.                          *)
LEMMA TakeFollows ==
  ASSUME OracleInv, NEW w \in Workers, Take(w)
  PROVE  Collected' /\ VerifiedMerged' /\ UnverifiedMerged' /\ Resolved'
<1>1. /\ UNCHANGED <<data, pc, cancelled, hits, found, matched, outcome>>
      /\ Collecting \/ pc = "Params"
      /\ busy[w] = None /\ IInv
  BY DEF Take, OracleInv
<1>2. PICK item \in todo :
        /\ todo' = todo \ {item}
        /\ busy' = IF cancelled THEN busy ELSE [busy EXCEPT ![w] = item]
  BY DEF Take
<1>3. todo' \cup InHand' \subseteq todo \cup InHand
  BY <1>1, <1>2 DEF IInv, TypeOK, InHand
<1>4. ~ cancelled => todo' \cup InHand' = todo \cup InHand
  <2> SUFFICES ASSUME ~ cancelled PROVE todo' \cup InHand' = todo \cup InHand
    OBVIOUS
  <2>1. item # None
    BY <1>1, <1>2, ParallelAssumption DEF IInv, TypeOK, Unit
  <2>2. busy'[w] = item /\ \A v \in Workers : v # w => busy'[v] = busy[v]
    BY <1>1, <1>2 DEF IInv, TypeOK
  <2>3. item \in InHand' /\ InHand \subseteq InHand'
    BY <1>1, <2>1, <2>2 DEF InHand
  <2>4. QED BY <1>2, <1>3, <2>3
<1>5. VerifiedFound' = VerifiedFound
  BY <1>1 DEF VerifiedFound
<1>6. Collected'
  BY <1>1, <1>3, <1>4, <1>5, SameInput DEF OracleInv, Collected
<1>7. VerifiedMerged' /\ UnverifiedMerged' /\ Resolved'
  BY <1>1, <1>5, SameInput DEF OracleInv, VerifiedMerged, UnverifiedMerged, Resolved, Collecting
<1>8. QED BY <1>6, <1>7

(* A unit of a gap keeps to it.                                             *)
LEMMA UnitOfGap ==
  ASSUME IInv, NEW u \in Work(Gaps(VerifiedFound))
  PROVE  \E g \in Gaps(VerifiedFound) :
           /\ u \in Unit /\ g.start <= u.from /\ u.from < u.to /\ u.to <= u.window /\ u.window = g.end
<1>1. PICK g \in Gaps(VerifiedFound) : u \in Work({g})
  BY DEF Work
<1>2. {g} \in SUBSET Spans
  BY GapFacts
<1>3. QED BY <1>1, <1>2, WorkUnits

(* The hits of a unit are the matches that start in it.                     *)
LEMMA HitsAreMatches ==
  ASSUME NEW u, NEW pass, NEW s \in Int, s <= u.from, u.to <= u.window,
         u.from \in Int, u.to \in Int, u.window \in Int
  PROVE  /\ UnitHits(u, pass) \subseteq MatchesIn(data, pass, s, u.window)
         /\ \A p \in Int : u.from <= p /\ p < u.to /\ IsMatch(data, pass, p, u.window) =>
              MatchAt(data, pass, p, u.window) \in UnitHits(u, pass)
<1>1. ASSUME NEW p \in Int, u.from <= p, p < u.to, IsMatch(data, pass, p, u.window)
      PROVE  MatchAt(data, pass, p, u.window) \in UnitHits(u, pass)
  <2>1. p \in u.from .. u.to - 1 /\ TryAt(data, pass, p, u.window) # 0
    BY <1>1 DEF IsMatch
  <2>2. QED BY <2>1 DEF UnitHits, MatchAt
<1>2. ASSUME NEW h \in UnitHits(u, pass) PROVE h \in MatchesIn(data, pass, s, u.window)
  <2>1. PICK p \in u.from .. u.to - 1 :
          TryAt(data, pass, p, u.window) # 0 /\ h = MatchAt(data, pass, p, u.window)
    BY DEF UnitHits, MatchAt
  <2>2. p \in s .. u.window - 1 /\ IsMatch(data, pass, p, u.window)
    BY <2>1 DEF IsMatch
  <2>3. QED BY <2>1, <2>2, MatchIsIn
<1>3. QED BY <1>1, <1>2

LEMMA FinishUnitFollows ==
  ASSUME OracleInv, NEW w \in Workers, FinishUnit(w)
  PROVE  Collected' /\ VerifiedMerged' /\ UnverifiedMerged' /\ Resolved'
<1> DEFINE u == busy[w]
<1>1. /\ UNCHANGED <<data, pc, cancelled, todo, found, matched, outcome>>
      /\ pc \in {"CollectVerified", "CollectUnverified"}
      /\ hits' = hits \cup UnitHits(u, CurrentPass)
      /\ busy' = [busy EXCEPT ![w] = None] /\ u # None /\ IInv
  BY DEF FinishUnit, OracleInv, Collecting
<1>2. InHand' \subseteq InHand /\ InHand \subseteq InHand' \cup {u} /\ u \in InHand
  BY <1>1 DEF IInv, TypeOK, InHand
<1>3. VerifiedFound' = VerifiedFound
  BY <1>1 DEF VerifiedFound
<1> HIDE DEF u
<1>4. VerifiedMerged' /\ UnverifiedMerged' /\ Resolved'
  BY <1>1, <1>3, SameInput DEF OracleInv, VerifiedMerged, UnverifiedMerged, Resolved
<1>5. CASE pc = "CollectVerified"
  <2>1. u \in Unit /\ u.to <= u.window /\ u.window = DataLen
    BY <1>1, <1>2, <1>5 DEF IInv, TypeOK, Contained, Collecting, InHand
  <2>2. UnitHits(u, CurrentPass) \subseteq VerifiedMatches
    <3>1. 0 \in Int /\ 0 <= u.from /\ u.from \in Int /\ u.to \in Int /\ u.window \in Int
      BY <2>1, ScanAssumption DEF Unit, Pos
    <3>2. QED BY <1>5, <2>1, <3>1, HitsAreMatches DEF CurrentPass, VerifiedMatches
  <2>3. QED BY <1>1, <1>4, <1>5, <2>2, SameInput DEF OracleInv, Collected
<1>6. CASE pc = "CollectUnverified"
  <2>1. CurrentPass = "Unverified" /\ u \in Work(Gaps(VerifiedFound))
    BY <1>2, <1>6 DEF CurrentPass, OracleInv, Collected
  <2>2. PICK g \in Gaps(VerifiedFound) :
          u \in Unit /\ g.start <= u.from /\ u.from < u.to /\ u.to <= u.window /\ u.window = g.end
    BY <1>1, <2>1, UnitOfGap
  <2>3. g.start \in Int /\ g.end \in Int /\ u.from \in Int /\ u.to \in Int
    BY <1>1, <2>2, GapFacts, ScanAssumption DEF Unit, Pos
  <2>4. /\ UnitHits(u, "Unverified") \subseteq RawMatches(g)
        /\ \A p \in Int : u.from <= p /\ p < u.to /\ IsMatch(data, "Unverified", p, g.end) =>
             MatchAt(data, "Unverified", p, g.end) \in UnitHits(u, "Unverified")
    BY <2>2, <2>3, HitsAreMatches DEF RawMatches
  <2>5. ASSUME ~ cancelled, NEW k \in Gaps(VerifiedFound), NEW m \in RawMatches(k)
        PROVE  m \in hits' \/ \E v \in todo' \cup InHand' : v.from <= m.offset /\ m.offset < v.to
    <3>1. CASE u.from <= m.offset /\ m.offset < u.to
      <4>1. /\ m.offset \in k.start .. k.end - 1 /\ m.offset \in Int /\ k.start \in Int /\ k.end \in Int
            /\ IsMatch(data, "Unverified", m.offset, k.end)
            /\ m = MatchAt(data, "Unverified", m.offset, k.end)
        BY <1>1, RawMatchFacts
      <4>2. g.start <= m.offset /\ m.offset < g.end /\ k.start <= m.offset /\ m.offset < k.end
        BY <2>2, <2>3, <3>1, <4>1
      <4>3. k = g
        BY <1>1, <4>1, <4>2, OneGap
      <4>4. QED BY <1>1, <2>1, <2>4, <3>1, <4>1, <4>3
    <3>2. CASE ~ (u.from <= m.offset /\ m.offset < u.to)
      BY <1>1, <1>2, <1>6, <2>5, <3>2 DEF OracleInv, Collected
    <3>3. QED BY <3>1, <3>2
  <2>6. Collected'
    BY <1>1, <1>2, <1>3, <1>6, <2>1, <2>4, <2>5, SameInput DEF OracleInv, Collected
  <2>7. QED BY <1>4, <2>6
<1>7. QED BY <1>1, <1>5, <1>6

LEMMA FinishMatchFollows ==
  ASSUME OracleInv, NEW w \in Workers, FinishMatch(w)
  PROVE  Collected' /\ VerifiedMerged' /\ UnverifiedMerged' /\ Resolved'
<1>1. UNCHANGED <<data, pc, cancelled, found, outcome>> /\ pc = "Params"
  BY DEF FinishMatch
<1>2. Collected' /\ VerifiedMerged' /\ UnverifiedMerged'
  BY <1>1 DEF Collected, VerifiedMerged, UnverifiedMerged
<1>3. Resolved'
  BY <1>1, SameInput DEF OracleInv, Resolved
<1>4. QED BY <1>2, <1>3

(* When all units have run, the hits are the matches, none missing.         *)
LEMMA EndCollectFollows ==
  ASSUME OracleInv, EndCollect
  PROVE  Collected' /\ VerifiedMerged' /\ UnverifiedMerged' /\ Resolved'
<1>1. /\ UNCHANGED <<data, cancelled, todo, busy, hits, best, found, matched, outcome>>
      /\ pending' = hits /\ lastEnd' = 0 /\ todo = {} /\ IInv
      /\ pc \in {"CollectVerified", "CollectUnverified"}
      /\ pc' = IF pc = "CollectVerified" THEN "MergeVerified" ELSE "MergeUnverified"
  BY DEF EndCollect, OracleInv
<1>2. InHand = {} /\ InHand' = {} /\ VerifiedFound' = VerifiedFound /\ best = None
  BY <1>1 DEF EndCollect, Idle, InHand, VerifiedFound, IInv, AtRest
<1>3. Collected'
  BY <1>1, <1>2, SameInput DEF OracleInv, Collected
<1>4. Resolved'
  BY <1>1, SameInput DEF OracleInv, Resolved
<1>5. CASE pc = "CollectVerified"
  <2>1. found = {}
    BY <1>1, <1>5 DEF IInv, AtRest
  <2>2. ASSUME ~ cancelled, NEW m \in VerifiedMatches PROVE m \in hits
    <3>1. /\ data \in Input /\ "Verified" \in Pass
          /\ 0 \in 0 .. DataLen /\ DataLen \in 0 .. DataLen /\ DataLen \in Nat
      BY <1>1, ScanAssumption DEF IInv, TypeOK, Pass
    <3>2. ASSUME NEW k \in VerifiedMatches
          PROVE  /\ k.offset \in Pos /\ IsMatch(data, "Verified", k.offset, DataLen)
                 /\ k = MatchAt(data, "Verified", k.offset, DataLen)
      BY <3>1, MatchFacts DEF VerifiedMatches, Pos
    <3>3. m.offset \in Pos /\ Accepted(m.offset)
      BY <3>2 DEF IsMatch, Accepted
    <3>4. PICK h \in hits : h.offset = m.offset
      BY <1>1, <1>2, <1>5, <2>2, <3>3 DEF IInv, Accounted
    <3>5. h \in VerifiedMatches
      BY <1>5 DEF OracleInv, Collected
    <3>6. h = m
      BY <3>2, <3>4, <3>5
    <3>7. QED BY <3>6
  <2>3. VerifiedMerged'
    BY <1>1, <1>5, <2>1, <2>2, SameInput DEF VerifiedMerged
  <2>4. UnverifiedMerged'
    BY <1>1, <1>5 DEF UnverifiedMerged
  <2>5. QED BY <1>3, <1>4, <2>3, <2>4
<1>6. CASE pc = "CollectUnverified"
  <2>1. VerifiedMerged'
    BY <1>1, <1>2, <1>6, SameInput DEF OracleInv, VerifiedMerged
  <2>2. VerifiedFound = found
    BY <1>1, <1>6 DEF IInv, Kinds, VerifiedFound
  <2>3. ASSUME ~ cancelled, NEW g \in Gaps(VerifiedFound) PROVE GapMerged(g)'
    <3>1. \A m \in RawMatches(g) : m \in pending' /\ m.offset >= g.start
      <4> TAKE m \in RawMatches(g)
      <4>1. m \in hits
        BY <1>1, <1>2, <1>6, <2>3 DEF OracleInv, Collected
      <4>2. m.offset \in g.start .. g.end - 1 /\ g.start \in Int /\ g.end \in Int
        BY <1>1, RawMatchFacts
      <4>3. QED BY <1>1, <4>1, <4>2
    <3>2. g.start \in g.start .. g.end
      BY <1>1, GapFacts, ScanAssumption
    <3>3. RawFound(g)' = {}
      BY <1>1, <2>2 DEF RawFound, VerifiedFound
    <3>4. best' \notin RawMatches(g)
      BY <1>1, <1>2, RawMatchFacts
    <3>5. \A x : {} \cup x = x
      OBVIOUS
    <3>6. RawFound(g)' \cup RawScan(g)[g.start] = RawScan(g)[g.start]
      BY <3>3, <3>5
    <3>7. QED BY <1>1, <3>1, <3>2, <3>4, <3>6, SameInput DEF GapMerged
  <2>4. UnverifiedMerged'
    BY <1>1, <1>2, <1>6, <2>2, <2>3 DEF UnverifiedMerged
  <2>5. QED BY <1>3, <1>4, <2>1, <2>4
<1>7. QED BY <1>1, <1>5, <1>6

-----------------------------------------------------------------------------
(* The merges.                                                              *)

LEMMA VerifiedMatchFacts ==
  ASSUME IInv
  PROVE  /\ data \in Input /\ "Verified" \in Pass /\ DataLen \in Nat
         /\ 0 \in 0 .. DataLen /\ DataLen \in 0 .. DataLen
         /\ \A m \in VerifiedMatches :
              /\ m.offset \in 0 .. DataLen - 1 /\ m.end \in m.offset + 1 .. DataLen
              /\ IsMatch(data, "Verified", m.offset, DataLen)
              /\ m = MatchAt(data, "Verified", m.offset, DataLen)
         /\ \A p \in 0 .. DataLen - 1 : IsMatch(data, "Verified", p, DataLen) =>
              /\ MatchAt(data, "Verified", p, DataLen) \in VerifiedMatches
              /\ MatchAt(data, "Verified", p, DataLen).offset = p
<1>1. /\ data \in Input /\ "Verified" \in Pass /\ DataLen \in Nat
      /\ 0 \in 0 .. DataLen /\ DataLen \in 0 .. DataLen
  BY ScanAssumption DEF IInv, TypeOK, Pass
<1>2. QED BY <1>1, MatchFacts, MatchIsIn DEF VerifiedMatches

(* What is skipped holds no match, since a match there would come first.    *)
LEMMA MergeVerifiedFollows ==
  ASSUME OracleInv, MergeVerified
  PROVE  Collected' /\ VerifiedMerged' /\ UnverifiedMerged' /\ Resolved'
<1>1. /\ UNCHANGED <<data, pc, cancelled, todo, busy, hits, best, matched, outcome>>
      /\ pc = "MergeVerified" /\ IInv /\ outcome = "None"
  BY DEF MergeVerified, OracleInv, IInv, Accounted
<1>2. PICK h \in pending :
        /\ IsFirst(h)
        /\ IF h.offset >= lastEnd
           THEN found' = found \cup {h} /\ lastEnd' = h.end
           ELSE UNCHANGED <<found, lastEnd>>
        /\ pending' = pending \ {h}
  BY DEF MergeVerified
<1>3. Collected'
  BY <1>1, SameInput DEF OracleInv, Collected
<1>4. UnverifiedMerged' /\ Resolved'
  BY <1>1 DEF UnverifiedMerged, OracleInv, Resolved
<1>5. /\ pending \subseteq VerifiedMatches /\ h \in VerifiedMatches
      /\ lastEnd \in 0 .. DataLen
  BY <1>1, <1>2 DEF OracleInv, Collected, IInv, TypeOK
<1>6. ASSUME ~ cancelled
      PROVE  /\ \A m \in VerifiedMatches : m.offset >= lastEnd' => m \in pending'
             /\ found' \cup VerifiedScan[lastEnd'] = VerifiedScan[0]
  <2>1. /\ \A m \in VerifiedMatches : m.offset >= lastEnd => m \in pending
        /\ found \cup VerifiedScan[lastEnd] = VerifiedScan[0]
    BY <1>1, <1>6 DEF OracleInv, VerifiedMerged
  <2>2. /\ h.offset \in 0 .. DataLen - 1 /\ h.end \in h.offset + 1 .. DataLen /\ DataLen \in Nat
        /\ IsMatch(data, "Verified", h.offset, DataLen)
        /\ h = MatchAt(data, "Verified", h.offset, DataLen)
    BY <1>1, <1>5, VerifiedMatchFacts
  <2>3. CASE h.offset >= lastEnd
    <3>1. found' = found \cup {h} /\ lastEnd' = h.end /\ pending' = pending \ {h}
      BY <1>2, <2>3
    <3>2. ASSUME NEW m \in VerifiedMatches, m.offset >= h.end PROVE m \in pending \ {h}
      <4>1. m.offset \in Nat
        BY <1>1, VerifiedMatchFacts
      <4>2. m.offset >= lastEnd /\ m # h
        BY <1>5, <2>2, <2>3, <3>2, <4>1
      <4>3. QED BY <2>1, <4>2
    <3>3. \A x \in lastEnd .. h.offset - 1 : ~ IsMatch(data, "Verified", x, DataLen)
      <4> SUFFICES ASSUME NEW x \in lastEnd .. h.offset - 1, IsMatch(data, "Verified", x, DataLen)
                   PROVE  FALSE
        OBVIOUS
      <4> DEFINE m == MatchAt(data, "Verified", x, DataLen)
      <4>1. x \in 0 .. DataLen - 1 /\ x < h.offset /\ x >= lastEnd
        BY <1>5, <2>2
      <4>2. m \in VerifiedMatches /\ m.offset = x
        BY <1>1, <4>1, VerifiedMatchFacts
      <4>3. m \in pending
        BY <2>1, <4>1, <4>2
      <4>4. h.offset <= m.offset
        BY <1>2, <4>3 DEF IsFirst
      <4>5. QED BY <2>2, <4>1, <4>2, <4>4
    <3>4. VerifiedScan[lastEnd] = VerifiedScan[h.offset]
      <4>1. h.offset \in lastEnd .. DataLen
        BY <1>5, <2>2, <2>3
      <4>2. QED BY <1>1, <1>5, <3>3, <4>1, ScanSkip, VerifiedMatchFacts DEF VerifiedScan
    <3>5. VerifiedScan[h.offset] = {h} \cup VerifiedScan[h.end]
      <4>1. h.offset \in 0 .. DataLen /\ h.offset < DataLen
        BY <2>2
      <4>2. Kept(data, "Verified", 0, DataLen, h.offset) = h
        BY <2>2 DEF Kept
      <4>3. QED BY <1>1, <2>2, <4>1, <4>2, ScanDef, VerifiedMatchFacts DEF VerifiedScan
    <3>6. found' \cup VerifiedScan[lastEnd'] = VerifiedScan[0]
      BY <2>1, <3>1, <3>4, <3>5
    <3>7. QED BY <3>1, <3>2, <3>6
  <2>4. CASE ~ (h.offset >= lastEnd)
    <3>1. UNCHANGED <<found, lastEnd>> /\ pending' = pending \ {h}
      BY <1>2, <2>4
    <3>2. QED BY <2>1, <2>4, <3>1
  <2>5. QED BY <2>3, <2>4
<1>7. VerifiedMerged'
  BY <1>1, <1>6, SameInput DEF VerifiedMerged
<1>8. QED BY <1>3, <1>4, <1>7

LEMMA EndMergeVerifiedFollows ==
  ASSUME OracleInv, EndMergeVerified
  PROVE  Collected' /\ VerifiedMerged' /\ UnverifiedMerged' /\ Resolved'
<1>1. /\ UNCHANGED <<data, cancelled, found, matched, outcome>> /\ pending = {}
      /\ pc = "MergeVerified" /\ pc' = "StartUnverified" /\ IInv /\ outcome = "None"
      /\ "Verified" \in data.passes
  BY DEF EndMergeVerified, OracleInv, IInv, Accounted, Resolved
<1>2. Collected' /\ UnverifiedMerged' /\ Resolved'
  BY <1>1 DEF Collected, UnverifiedMerged, OracleInv, Resolved
<1>3. VerifiedFound' = found
  BY <1>1 DEF IInv, Kinds, InVerified, VerifiedFound
<1>4. ASSUME ~ cancelled PROVE found = VerifiedScan[0]
  <2>1. /\ \A m \in VerifiedMatches : ~ (m.offset >= lastEnd)
        /\ found \cup VerifiedScan[lastEnd] = VerifiedScan[0]
    BY <1>1, <1>4 DEF OracleInv, VerifiedMerged
  <2>2. lastEnd \in 0 .. DataLen
    BY <1>1 DEF IInv, TypeOK
  <2>3. \A x \in lastEnd .. DataLen - 1 : ~ IsMatch(data, "Verified", x, DataLen)
    <3> SUFFICES ASSUME NEW x \in lastEnd .. DataLen - 1, IsMatch(data, "Verified", x, DataLen)
                 PROVE  FALSE
      OBVIOUS
    <3>1. x \in 0 .. DataLen - 1 /\ x >= lastEnd
      BY <2>2, ScanAssumption
    <3>2. QED BY <1>1, <2>1, <3>1, VerifiedMatchFacts
  <2>4. VerifiedScan[lastEnd] = VerifiedScan[DataLen]
    <3>1. DataLen \in lastEnd .. DataLen
      BY <2>2, ScanAssumption
    <3>2. QED BY <1>1, <2>2, <2>3, <3>1, ScanSkip, VerifiedMatchFacts DEF VerifiedScan
  <2>5. VerifiedScan[DataLen] = {}
    BY <1>1, ScanDef, VerifiedMatchFacts DEF VerifiedScan
  <2>6. QED BY <2>1, <2>4, <2>5
<1>5. VerifiedMerged'
  BY <1>1, <1>3, <1>4, SameInput DEF VerifiedMerged
<1>6. QED BY <1>2, <1>5

(* The state of the unverified merge in a gap.                              *)
LEMMA MergeFacts ==
  ASSUME OracleInv, pc = "MergeUnverified"
  PROVE  /\ IInv /\ data \in Input /\ "Unverified" \in Pass /\ outcome = "None"
         /\ todo = {} /\ InHand = {}
         /\ \A h \in hits : \E g \in Gaps(VerifiedFound) : h \in RawMatches(g)
         /\ pending \subseteq hits /\ (best = None \/ best \in hits)
         /\ best # None => \A h \in pending : best.offset <= h.offset
BY DEF OracleInv, IInv, TypeOK, AtRest, Collecting, InHand, Idle, Collected, LeftToRight, Accounted, Pass

(* Left of the first pending match, a gap has no match that is still out.   *)
LEMMA NothingSkipped ==
  ASSUME IInv, NEW g \in Gaps(VerifiedFound), NEW p \in g.start .. g.end, NEW q \in g.start .. g.end,
         \A m \in RawMatches(g) : m.offset >= p => m \in pending,
         \A m \in pending : q <= m.offset
  PROVE  \A x \in p .. q - 1 : ~ IsMatch(data, "Unverified", x, g.end)
<1> SUFFICES ASSUME NEW x \in p .. q - 1, IsMatch(data, "Unverified", x, g.end)
             PROVE  FALSE
  OBVIOUS
<1> DEFINE m == MatchAt(data, "Unverified", x, g.end)
<1>1. g.start \in Int /\ g.end \in Int
  BY GapFacts, ScanAssumption
<1>2. x \in g.start .. g.end - 1 /\ x >= p /\ x < q
  BY <1>1
<1>3. m \in RawMatches(g) /\ m.offset = x
  BY <1>2, MatchIsIn DEF RawMatches
<1>4. m \in pending
  BY <1>2, <1>3
<1>5. q <= x
  BY <1>3, <1>4
<1>6. QED BY <1>1, <1>2, <1>5

LEMMA TakeUnverifiedFollows ==
  ASSUME OracleInv, TakeUnverified
  PROVE  Collected' /\ VerifiedMerged' /\ UnverifiedMerged' /\ Resolved'
<1>1. /\ UNCHANGED <<data, pc, cancelled, todo, busy, hits, found, matched, outcome>>
      /\ pc = "MergeUnverified" /\ best = None
  BY DEF TakeUnverified
<1>2. PICK h \in pending : IsFirst(h) /\ best' = h /\ pending' = pending \ {h}
  BY DEF TakeUnverified
<1>3. VerifiedFound' = VerifiedFound /\ InHand' = InHand /\ \A g : RawFound(g)' = RawFound(g)
  BY <1>1 DEF VerifiedFound, InHand, RawFound
<1>4. Collected' /\ VerifiedMerged' /\ Resolved'
  BY <1>1, <1>3, SameInput DEF OracleInv, Collected, VerifiedMerged, Resolved
<1>5. ASSUME ~ cancelled, NEW g \in Gaps(VerifiedFound) PROVE GapMerged(g)'
  <2>1. best \notin RawMatches(g)
    BY <1>1, RawMatchFacts, MergeFacts
  <2>2. PICK p \in g.start .. g.end :
          /\ \A m \in RawMatches(g) : m \in pending <=> m.offset >= p
          /\ RawFound(g) \cup RawScan(g)[p] = RawScan(g)[g.start]
    BY <1>1, <1>5, <2>1 DEF OracleInv, UnverifiedMerged, GapMerged
  <2>3. g.start \in 0 .. DataLen /\ g.end \in g.start .. DataLen /\ g.start \in Nat /\ g.end \in Nat
    BY <1>1, GapFacts, MergeFacts, ScanAssumption
  <2>4. CASE h \in RawMatches(g)
    <3> DEFINE q == h.offset
               kept == Look(data, g.start, g.end)[q + 1][q]
    <3>1. /\ q \in g.start .. g.end - 1 /\ q \in g.start .. g.end /\ h.end \in q + 1 .. g.end
          /\ IsMatch(data, "Unverified", q, g.end) /\ q \in Int /\ q + 1 \in g.start .. g.end
      BY <1>1, <2>3, <2>4, RawMatchFacts, MergeFacts
    <3>2. p <= q
      BY <1>2, <2>2, <2>4
    <3>3. RawScan(g)[p] = RawScan(g)[q]
      <4>1. \A x \in p .. q - 1 : ~ IsMatch(data, "Unverified", x, g.end)
        <5> HIDE DEF q
        <5>1. \A m \in pending : q <= m.offset
          BY <1>2 DEF IsFirst, q
        <5>2. QED BY <1>1, <2>2, <3>1, <5>1, NothingSkipped, MergeFacts
      <4>2. q \in p .. g.end
        BY <2>3, <3>1, <3>2
      <4> HIDE DEF q
      <4>3. QED BY <1>1, <2>2, <2>3, <4>1, <4>2, ScanSkip, MergeFacts DEF RawScan
    <3>4. RawScan(g)[q] = {kept} \cup RawScan(g)[kept.end]
      <4> HIDE DEF q
      <4>1. Kept(data, "Unverified", g.start, g.end, q) = kept
        BY DEF Kept, BestMatch
      <4>2. q < g.end
        BY <2>3, <3>1
      <4> HIDE DEF kept
      <4>3. QED BY <1>1, <2>3, <3>1, <4>1, <4>2, ScanDef, MergeFacts DEF RawScan
    <3>5. RawFound(g) \cup {kept} \cup RawScan(g)[kept.end] = RawScan(g)[g.start]
      <4> HIDE DEF kept
      <4> QED BY <2>2, <3>3, <3>4
    <3>6. \A m \in RawMatches(g) : m \in pending \ {h} <=> m.offset >= q + 1
      <4> TAKE m \in RawMatches(g)
      <4>1. /\ m = MatchAt(data, "Unverified", m.offset, g.end)
            /\ h = MatchAt(data, "Unverified", h.offset, g.end) /\ m.offset \in Int
        BY <1>1, <2>4, RawMatchFacts, MergeFacts
      <4>2. m \in pending => q <= m.offset
        BY <1>2 DEF IsFirst
      <4>3. m.offset = q => m = h
        BY <4>1
      <4>4. m.offset >= q + 1 => m.offset >= p /\ m # h
        BY <2>3, <3>1, <3>2, <4>1
      <4>5. QED BY <2>2, <3>1, <4>1, <4>2, <4>3, <4>4
    <3>7. q < q + 1 /\ q + 1 <= h.end
      BY <2>3, <3>1
    <3> HIDE DEF kept
    <3>8. QED BY <1>1, <1>2, <1>3, <2>4, <3>1, <3>5, <3>6, <3>7, SameInput DEF GapMerged, kept
  <2>5. CASE h \notin RawMatches(g)
    BY <1>1, <1>2, <1>3, <2>2, <2>5, SameInput DEF GapMerged
  <2>6. QED BY <2>4, <2>5
<1>6. UnverifiedMerged'
  BY <1>1, <1>3, <1>5 DEF UnverifiedMerged, OracleInv
<1>7. QED BY <1>4, <1>6

(* In the best match's gap, the hits a later match must follow are the gap's*)
(* own, so the two merges let the same match win.                           *)
LEMMA SameWinner ==
  ASSUME OracleInv, pc = "MergeUnverified", ~ cancelled,
         NEW g \in Gaps(VerifiedFound), NEW b \in RawMatches(g), NEW h \in RawMatches(g)
  PROVE  LaterMatchWins(hits, b, h) <=> LaterMatchWins(RawMatches(g), b, h)
<1>1. IInv /\ todo = {} /\ InHand = {}
  BY MergeFacts
<1>2. RawMatches(g) \subseteq hits
  BY <1>1 DEF OracleInv, Collected
<1>3. /\ b.offset \in Int /\ b.end \in Int /\ h.end \in Int /\ g.start \in Int /\ g.end \in Int
      /\ g.start <= b.offset /\ b.offset < b.end /\ h.end <= g.end
  BY <1>1, RawMatchFacts
<1>4. ASSUME NEW k \in hits, b.end <= k.offset, k.offset < h.end
      PROVE  k \in RawMatches(g)
  <2>1. PICK f \in Gaps(VerifiedFound) : k \in RawMatches(f)
    BY MergeFacts
  <2>2. k.offset \in Int /\ f.start <= k.offset /\ k.offset < f.end
    BY <1>1, <2>1, RawMatchFacts
  <2>3. g.start <= k.offset /\ k.offset < g.end
    BY <1>3, <1>4, <2>2
  <2>4. f = g
    BY <1>1, <2>2, <2>3, OneGap
  <2>5. QED BY <2>1, <2>4
<1>5. Follows(hits, b.end, h.end) <=> Follows(RawMatches(g), b.end, h.end)
  BY <1>2, <1>4 DEF Follows
<1>6. QED BY <1>5 DEF LaterMatchWins

LEMMA LookAheadFollows ==
  ASSUME OracleInv, LookAhead
  PROVE  Collected' /\ VerifiedMerged' /\ UnverifiedMerged' /\ Resolved'
<1>1. /\ UNCHANGED <<data, pc, cancelled, todo, busy, hits, found, matched, outcome>>
      /\ pc = "MergeUnverified" /\ best # None /\ best \in hits
  BY MergeFacts DEF LookAhead
<1>2. PICK h \in pending :
        /\ IsFirst(h) /\ h.offset < best.end /\ pending' = pending \ {h}
        /\ best' = IF LaterMatchWins(hits, best, h) THEN h ELSE best
  BY DEF LookAhead
<1>3. VerifiedFound' = VerifiedFound /\ InHand' = InHand /\ \A g : RawFound(g)' = RawFound(g)
  BY <1>1 DEF VerifiedFound, InHand, RawFound
<1>4. Collected' /\ VerifiedMerged' /\ Resolved'
  BY <1>1, <1>3, SameInput DEF OracleInv, Collected, VerifiedMerged, Resolved
<1>5. \A g \in Gaps(VerifiedFound) : best \in RawMatches(g) <=> h \in RawMatches(g)
  <2>1. PICK f \in Gaps(VerifiedFound) : best \in RawMatches(f)
    BY <1>1, MergeFacts
  <2>2. PICK k \in Gaps(VerifiedFound) : h \in RawMatches(k)
    BY <1>1, <1>2, MergeFacts
  <2>3. /\ best.offset \in Int /\ best.end \in Int /\ f.start \in Int /\ f.end \in Int
        /\ f.start <= best.offset /\ best.offset < best.end /\ best.end <= f.end
    BY <1>1, <2>1, RawMatchFacts, MergeFacts
  <2>4. h.offset \in Int /\ k.start <= h.offset /\ h.offset < k.end
    BY <1>1, <2>2, RawMatchFacts, MergeFacts
  <2>5. best.offset <= h.offset
    BY <1>1, <1>2, MergeFacts
  <2>6. f.start <= h.offset /\ h.offset < f.end
    BY <1>2, <2>3, <2>4, <2>5
  <2>7. f = k
    BY <1>1, <2>4, <2>6, OneGap, MergeFacts
  <2>8. ASSUME NEW g \in Gaps(VerifiedFound), best \in RawMatches(g) \/ h \in RawMatches(g)
        PROVE  g = f
    <3>1. CASE best \in RawMatches(g)
      <4>1. g.start <= best.offset /\ best.offset < g.end
        BY <1>1, <3>1, RawMatchFacts, MergeFacts
      <4>2. best.offset < f.end
        BY <2>3
      <4>3. QED BY <1>1, <2>3, <4>1, <4>2, OneGap, MergeFacts
    <3>2. CASE h \in RawMatches(g)
      <4>1. g.start <= h.offset /\ h.offset < g.end
        BY <1>1, <3>2, RawMatchFacts, MergeFacts
      <4>2. QED BY <1>1, <2>4, <2>6, <4>1, OneGap, MergeFacts
    <3>3. QED BY <2>8, <3>1, <3>2
  <2>9. QED BY <2>1, <2>2, <2>7, <2>8
<1>6. ASSUME ~ cancelled, NEW g \in Gaps(VerifiedFound) PROVE GapMerged(g)'
  <2>1. CASE best \in RawMatches(g)
    <3> DEFINE q == h.offset
               b == best.offset
               c == best'.offset
               L(x, y) == Look(data, g.start, g.end)[x][y]
               kept == L(q + 1, c)
    <3>1. PICK p \in g.start .. g.end :
            /\ \A m \in RawMatches(g) : m \in pending <=> m.offset >= p
            /\ b < p /\ p <= best.end
            /\ RawFound(g) \cup {L(p, b)} \cup RawScan(g)[L(p, b).end] = RawScan(g)[g.start]
      BY <1>1, <1>6, <2>1 DEF OracleInv, UnverifiedMerged, GapMerged
    <3>2. h \in RawMatches(g)
      BY <1>5, <2>1
    <3>3. g.start \in 0 .. DataLen /\ g.end \in g.start .. DataLen /\ g.start \in Nat /\ g.end \in Nat
      BY <1>1, GapFacts, MergeFacts, ScanAssumption
    <3>4. /\ q \in g.start .. g.end - 1 /\ q \in g.start .. g.end /\ h.end \in q + 1 .. g.end
          /\ IsMatch(data, "Unverified", q, g.end) /\ q \in Int /\ q + 1 \in g.start .. g.end
          /\ h = MatchAt(data, "Unverified", q, g.end)
      BY <1>1, <3>2, <3>3, RawMatchFacts, MergeFacts
    <3>5. /\ b \in g.start .. g.end - 1 /\ best.end \in b + 1 .. g.end /\ best.end \in Int
          /\ best = MatchAt(data, "Unverified", b, g.end)
      BY <1>1, <2>1, <3>3, RawMatchFacts, MergeFacts
    <3>6. p <= q /\ q < best.end
      BY <1>2, <3>1, <3>2
    <3>7. L(p, b) = L(q, b)
      <4>1. \A x \in p .. q - 1 : ~ IsMatch(data, "Unverified", x, g.end)
        <5> HIDE DEF q
        <5>1. \A m \in pending : q <= m.offset
          BY <1>2 DEF IsFirst, q
        <5>2. QED BY <1>1, <3>1, <3>4, <5>1, NothingSkipped, MergeFacts
      <4>2. q \in p .. g.end /\ q <= best.end
        BY <3>1, <3>3, <3>4, <3>5, <3>6
      <4> HIDE DEF q, b
      <4>3. QED BY <1>1, <3>1, <3>3, <3>5, <4>1, <4>2, LookSkip, MergeFacts
    <3>8. L(q, b) = kept
      <4>1. LaterMatchWins(hits, best, h) <=> LaterMatchWins(RawMatches(g), best, h)
        BY <1>1, <1>6, <2>1, <3>2, SameWinner
      <4>2. ~ (q >= best.end)
        BY <3>4, <3>5, <3>6
      <4>3. L(q, b) = IF LaterMatchWins(RawMatches(g), best, h) THEN L(q + 1, q) ELSE L(q + 1, b)
        <5> HIDE DEF q, b
        <5>1. L(q, b) = IF q >= best.end THEN best
                        ELSE IF /\ IsMatch(data, "Unverified", q, g.end)
                                /\ LaterMatchWins(MatchesIn(data, "Unverified", g.start, g.end), best, h)
                             THEN L(q + 1, q) ELSE L(q + 1, b)
          <6> DEFINE M(x) == MatchAt(data, "Unverified", x, g.end)
          <6>1. data \in Input
            BY <1>1, MergeFacts
          <6>2. Look(data, g.start, g.end)[q][b] =
                  IF q >= M(b).end THEN M(b)
                  ELSE IF /\ IsMatch(data, "Unverified", q, g.end)
                          /\ LaterMatchWins(MatchesIn(data, "Unverified", g.start, g.end), M(b), M(q))
                       THEN Look(data, g.start, g.end)[q + 1][q]
                       ELSE Look(data, g.start, g.end)[q + 1][b]
            BY <3>3, <3>4, <3>5, <6>1, LookDef, Zenon
          <6>3. M(b) = best /\ M(q) = h
            BY <3>4, <3>5
          <6> HIDE DEF M
          <6>4. QED BY <6>2, <6>3, Zenon
        <5>2. QED BY <3>4, <4>2, <5>1 DEF RawMatches
      <4>4. c = IF LaterMatchWins(RawMatches(g), best, h) THEN q ELSE b
        BY <1>2, <4>1
      <4> HIDE DEF q, b, c
      <4>5. QED BY <4>3, <4>4
    <3>9. RawFound(g) \cup {kept} \cup RawScan(g)[kept.end] = RawScan(g)[g.start]
      BY <3>1, <3>7, <3>8
    <3>10. \A m \in RawMatches(g) : m \in pending \ {h} <=> m.offset >= q + 1
      <4> TAKE m \in RawMatches(g)
      <4>1. m = MatchAt(data, "Unverified", m.offset, g.end) /\ m.offset \in Int
        BY <1>1, RawMatchFacts, MergeFacts
      <4>2. m \in pending => q <= m.offset
        BY <1>2 DEF IsFirst
      <4>3. m.offset = q => m = h
        BY <3>4, <4>1
      <4>4. m.offset >= q + 1 => m.offset >= p /\ m # h
        BY <3>3, <3>4, <3>6, <4>1
      <4>5. QED BY <3>1, <3>4, <4>1, <4>2, <4>3, <4>4
    <3>11. best' \in RawMatches(g) /\ c < q + 1 /\ q + 1 <= best'.end
      BY <1>2, <2>1, <3>1, <3>2, <3>3, <3>4, <3>5, <3>6
    <3> HIDE DEF kept, L
    <3>12. QED BY <1>1, <1>2, <1>3, <3>4, <3>9, <3>10, <3>11, SameInput DEF GapMerged, kept, L
  <2>2. CASE best \notin RawMatches(g)
    <3>1. h \notin RawMatches(g)
      BY <1>5, <2>2
    <3>2. best' \notin RawMatches(g)
      BY <1>2, <2>2, <3>1
    <3>3. PICK p \in g.start .. g.end :
            /\ \A m \in RawMatches(g) : m \in pending <=> m.offset >= p
            /\ RawFound(g) \cup RawScan(g)[p] = RawScan(g)[g.start]
      BY <1>1, <1>6, <2>2 DEF OracleInv, UnverifiedMerged, GapMerged
    <3>4. QED BY <1>1, <1>2, <1>3, <3>1, <3>2, <3>3, SameInput DEF GapMerged
  <2>3. QED BY <2>1, <2>2
<1>7. UnverifiedMerged'
  BY <1>1, <1>3, <1>6 DEF UnverifiedMerged, OracleInv
<1>8. QED BY <1>4, <1>7

(* The best match is kept where the sequential scan, too, has seen all that *)
(* could replace it.                                                        *)
LEMMA KeepBestFollows ==
  ASSUME OracleInv, KeepBest
  PROVE  Collected' /\ VerifiedMerged' /\ UnverifiedMerged' /\ Resolved'
<1>1. /\ UNCHANGED <<data, pc, cancelled, todo, busy, hits, pending, matched, outcome>>
      /\ pc = "MergeUnverified" /\ best # None /\ best \in hits
      /\ \A h \in pending : h.offset >= best.end
      /\ found' = found \cup {best} /\ best' = None
  BY MergeFacts DEF KeepBest
<1>2. PICK f \in Gaps(VerifiedFound) : best \in RawMatches(f)
  BY <1>1, MergeFacts
<1>3. /\ best.offset \in Int /\ best.end \in Int /\ f.start \in Int /\ f.end \in Int /\ ~ best.verified
      /\ f.start <= best.offset /\ best.offset < best.end /\ best.end <= f.end
      /\ best.offset < f.end /\ best = MatchAt(data, "Unverified", best.offset, f.end)
  BY <1>1, <1>2, RawMatchFacts, MergeFacts
<1>4. VerifiedFound' = VerifiedFound /\ InHand' = InHand
  BY <1>1, <1>3 DEF VerifiedFound, InHand
<1>5. \A g \in Gaps(VerifiedFound) : g.start <= best.offset /\ best.offset < g.end => g = f
  BY <1>1, <1>3, OneGap, MergeFacts
<1>6. Collected' /\ VerifiedMerged' /\ Resolved'
  BY <1>1, <1>4, SameInput, MergeFacts DEF OracleInv, Collected, VerifiedMerged, Resolved
<1>7. ASSUME ~ cancelled, NEW g \in Gaps(VerifiedFound) PROVE GapMerged(g)'
  <2>1. CASE best \in RawMatches(g)
    <3> DEFINE b == best.offset
               L(x) == Look(data, g.start, g.end)[x][b]
    <3>1. PICK p \in g.start .. g.end :
            /\ \A m \in RawMatches(g) : m \in pending <=> m.offset >= p
            /\ b < p /\ p <= best.end
            /\ RawFound(g) \cup {L(p)} \cup RawScan(g)[L(p).end] = RawScan(g)[g.start]
      BY <1>1, <1>7, <2>1 DEF OracleInv, UnverifiedMerged, GapMerged
    <3>2. g.start \in 0 .. DataLen /\ g.end \in g.start .. DataLen /\ g.start \in Nat /\ g.end \in Nat
      BY <1>1, GapFacts, MergeFacts, ScanAssumption
    <3>3. /\ b \in g.start .. g.end - 1 /\ best.end \in b + 1 .. g.end /\ best.end \in g.start .. g.end
          /\ best = MatchAt(data, "Unverified", b, g.end)
      BY <1>1, <2>1, <3>2, RawMatchFacts, MergeFacts
    <3>4. L(p) = L(best.end)
      <4>1. \A x \in p .. best.end - 1 : ~ IsMatch(data, "Unverified", x, g.end)
        <5>1. \A m \in pending : best.end <= m.offset
          <6> TAKE m \in pending
          <6>1. m.offset \in Int
            BY <1>1, RawMatchFacts, MergeFacts
          <6>2. QED BY <1>1, <1>3, <6>1
        <5>2. QED BY <1>1, <3>1, <3>3, <5>1, NothingSkipped, MergeFacts
      <4>2. best.end \in p .. g.end /\ best.end <= best.end
        BY <3>1, <3>2, <3>3
      <4> HIDE DEF b
      <4>3. QED BY <1>1, <3>1, <3>2, <3>3, <4>1, <4>2, LookSkip, MergeFacts
    <3>5. L(best.end) = best
      <4>1. best.end >= best.end
        BY <1>3
      <4> DEFINE M(x) == MatchAt(data, "Unverified", x, g.end)
                 q == best.end
      <4> HIDE DEF b, q
      <4>2. data \in Input
        BY <1>1, MergeFacts
      <4>3. Look(data, g.start, g.end)[q][b] =
              IF q >= M(b).end THEN M(b)
              ELSE IF /\ IsMatch(data, "Unverified", q, g.end)
                      /\ LaterMatchWins(MatchesIn(data, "Unverified", g.start, g.end), M(b), M(q))
                   THEN Look(data, g.start, g.end)[q + 1][q]
                   ELSE Look(data, g.start, g.end)[q + 1][b]
        <5>1. q \in g.start .. g.end
          BY <3>3 DEF q
        <5>2. QED BY <3>2, <3>3, <4>2, <5>1, LookDef, Zenon
      <4>4. M(b) = best
        BY <3>3
      <4> HIDE DEF M
      <4>5. q >= best.end
        BY <4>1 DEF q
      <4>6. Look(data, g.start, g.end)[q][b] = best
        BY <4>3, <4>4, <4>5, Zenon
      <4>7. QED BY <4>6 DEF q
    <3>6. RawFound(g)' = RawFound(g) \cup {best}
      BY <1>1, <1>3, <3>2, <3>3 DEF RawFound
    <3>7. RawFound(g)' \cup RawScan(g)[best.end] = RawScan(g)[g.start]
      <4> HIDE DEF L
      <4> QED BY <3>1, <3>4, <3>5, <3>6
    <3>8. \A m \in RawMatches(g) : m \in pending <=> m.offset >= best.end
      <4> TAKE m \in RawMatches(g)
      <4>1. m.offset \in Int
        BY <1>1, RawMatchFacts, MergeFacts
      <4>2. QED BY <1>1, <1>3, <3>1, <4>1
    <3>9. best' \notin RawMatches(g)
      BY <1>1, RawMatchFacts, MergeFacts
    <3>10. QED BY <1>1, <3>3, <3>7, <3>8, <3>9, SameInput DEF GapMerged
  <2>2. CASE best \notin RawMatches(g)
    <3>1. PICK p \in g.start .. g.end :
            /\ \A m \in RawMatches(g) : m \in pending <=> m.offset >= p
            /\ RawFound(g) \cup RawScan(g)[p] = RawScan(g)[g.start]
      BY <1>1, <1>7, <2>2 DEF OracleInv, UnverifiedMerged, GapMerged
    <3>2. RawFound(g)' = RawFound(g)
      BY <1>1, <1>2, <1>5, <2>2 DEF RawFound
    <3>3. best' \notin RawMatches(g)
      BY <1>1, RawMatchFacts, MergeFacts
    <3>4. QED BY <1>1, <3>1, <3>2, <3>3, SameInput DEF GapMerged
  <2>3. QED BY <2>1, <2>2
<1>8. UnverifiedMerged'
  BY <1>1, <1>4, <1>7 DEF UnverifiedMerged, OracleInv
<1>9. QED BY <1>6, <1>8

LEMMA EndMergeUnverifiedFollows ==
  ASSUME OracleInv, EndMergeUnverified
  PROVE  Collected' /\ VerifiedMerged' /\ UnverifiedMerged' /\ Resolved'
<1>1. /\ UNCHANGED <<data, cancelled, found, matched, outcome>> /\ pending = {} /\ best = None
      /\ pc = "MergeUnverified" /\ pc' = "StartParams" /\ "Unverified" \in data.passes
  BY DEF EndMergeUnverified, OracleInv, Resolved, merge
<1>2. Collected' /\ VerifiedMerged' /\ UnverifiedMerged'
  BY <1>1 DEF Collected, VerifiedMerged, UnverifiedMerged
<1>3. ASSUME ~ cancelled PROVE found = ScanSequential(data)
  <2>1. ASSUME NEW g \in Gaps(VerifiedFound)
        PROVE  RawFound(g) = ScanRange(data, "Unverified", g.start, g.end)
    <3>1. best \notin RawMatches(g)
      BY <1>1, RawMatchFacts, MergeFacts
    <3>2. PICK p \in g.start .. g.end :
            /\ \A m \in RawMatches(g) : m \in pending <=> m.offset >= p
            /\ RawFound(g) \cup RawScan(g)[p] = RawScan(g)[g.start]
      BY <1>1, <1>3, <3>1 DEF OracleInv, UnverifiedMerged, GapMerged
    <3>3. g.start \in 0 .. DataLen /\ g.end \in g.start .. DataLen /\ g.start \in Nat /\ g.end \in Nat
      BY <1>1, GapFacts, MergeFacts, ScanAssumption
    <3>4. g.end \in g.start .. g.end /\ g.end \in p .. g.end
      BY <3>2, <3>3
    <3>5. \A x \in p .. g.end - 1 : ~ IsMatch(data, "Unverified", x, g.end)
      BY <1>1, <3>2, <3>4, NothingSkipped, MergeFacts
    <3>6. RawScan(g)[p] = RawScan(g)[g.end]
      BY <1>1, <3>2, <3>3, <3>4, <3>5, ScanSkip, MergeFacts DEF RawScan
    <3>7. RawScan(g)[g.end] = {}
      BY <1>1, <3>3, <3>4, ScanDef, MergeFacts DEF RawScan
    <3>8. RawFound(g) = RawScan(g)[g.start]
      BY <3>2, <3>6, <3>7
    <3>9. QED BY <3>8 DEF RawScan, ScanRange
  <2>2. found = VerifiedFound \cup UNION {RawFound(g) : g \in Gaps(VerifiedFound)}
    <3>1. ASSUME NEW s \in found, s \notin VerifiedFound
          PROVE  \E g \in Gaps(VerifiedFound) : s \in RawFound(g)
      <4>1. s \in hits /\ ~ s.verified
        BY <1>1, <1>3, <3>1 DEF OracleInv, UnverifiedMerged, VerifiedFound
      <4>2. PICK g \in Gaps(VerifiedFound) : s \in RawMatches(g)
        BY <1>1, <4>1, MergeFacts
      <4>3. g.start <= s.offset /\ s.offset < g.end
        BY <1>1, <4>2, RawMatchFacts, MergeFacts
      <4>4. QED BY <4>1, <4>3 DEF RawFound
    <3>2. VerifiedFound \subseteq found /\ \A g \in Gaps(VerifiedFound) : RawFound(g) \subseteq found
      BY DEF VerifiedFound, RawFound
    <3>3. QED BY <3>1, <3>2
  <2>3. VerifiedFound = IF "Verified" \in data.passes THEN ScanRange(data, "Verified", 0, DataLen) ELSE {}
    BY <1>1, <1>3 DEF OracleInv, VerifiedMerged, VerifiedScan, ScanRange
  <2>4. {RawFound(g) : g \in Gaps(VerifiedFound)}
          = {ScanRange(data, "Unverified", g.start, g.end) : g \in Gaps(VerifiedFound)}
    BY <2>1
  <2>5. QED BY <1>1, <2>2, <2>3, <2>4, Zenon DEF ScanSequential
<1>4. Resolved'
  BY <1>1, <1>3, SameInput, MergeFacts DEF OracleInv, Resolved
<1>5. QED BY <1>2, <1>4

-----------------------------------------------------------------------------
LEMMA StepFollows ==
  ASSUME OracleInv, [Next]_vars
  PROVE  OracleInv'
<1>1. IInv'
  BY StepInvariant DEF OracleInv
<1>2. CASE Cancel
  BY <1>1, <1>2, CancelFollows DEF OracleInv
<1>3. CASE Caller
  BY <1>1, <1>3, CheckFormatsFollows, StartVerifiedFollows, StartUnverifiedFollows, EndCollectFollows,
     MergeVerifiedFollows, EndMergeVerifiedFollows, TakeUnverifiedFollows, LookAheadFollows,
     KeepBestFollows, EndMergeUnverifiedFollows, AfterwardsFollows
     DEF OracleInv, Caller
<1>4. CASE \E w \in Workers : Worker(w)
  BY <1>1, <1>4, TakeFollows, FinishUnitFollows, FinishMatchFollows DEF OracleInv, Worker
<1>5. CASE UNCHANGED vars
  BY <1>1, <1>5, StutterFollows DEF OracleInv
<1>6. QED BY <1>2, <1>3, <1>4, <1>5 DEF Next, Finished

(* At every moment the parallel scan has done a part of what the sequential *)
(* scan does: in the range of each merge, up to an offset, the same.        *)
THEOREM ScanOracleInvariant == Spec => []OracleInv
<1>1. Init => OracleInv
  <2> SUFFICES ASSUME Init PROVE OracleInv
    OBVIOUS
  <2>1. IInv
    BY InitInvariant
  <2>2. pc = "CheckFormats" /\ matched = {} /\ outcome = "None"
    BY DEF Init
  <2>3. QED BY <2>1, <2>2 DEF OracleInv, Collected, VerifiedMerged, UnverifiedMerged, Resolved
<1>2. OracleInv /\ [Next]_vars => OracleInv'
  BY StepFollows
<1>3. QED BY <1>1, <1>2, PTL DEF Spec

(* A scan that returns Ok found exactly the streams of the sequential scan, *)
(* whatever the input, the chunks, the workers and their order: the tests'  *)
(* parallel_matches_sequential_for_any_chunking (scan.rs:663-671), for all. *)
THEOREM ScanMatchesOracle == Spec => []MatchesOracle
<1>1. OracleInv => MatchesOracle
  BY DEF OracleInv, Resolved, MatchesOracle
<1>2. QED BY <1>1, ScanOracleInvariant, PTL

LEMMA SameOracle == Contract!ScanSequential(data) = ScanSequential(data)
BY DEF Contract!ScanSequential, Contract!ScanRange, Contract!Scan, Contract!BestMatch, Contract!Look,
       Contract!MatchesIn, Contract!IsMatch, Contract!MatchAt, Contract!TryAt, Contract!Pos,
       Contract!LaterMatchWins, Contract!Follows, Contract!Gaps, Contract!IsPrevious,
       ScanSequential, ScanRange, Scan, BestMatch, Look, MatchesIn, IsMatch, MatchAt, TryAt, Pos,
       LaterMatchWins, Follows, Gaps, IsPrevious

(* Each step is a step of the contract, or one its caller does not see.     *)
LEMMA StepRefines ==
  ASSUME OracleInv, [Next]_vars
  PROVE  [Contract!ContractNext]_(Contract!contractVars)
<1> USE DEF Contract!contractVars
<1>1. IInv
  BY DEF OracleInv
<1>2. CASE Cancel
  <2>1. Contract!RequestCancel
    BY <1>2 DEF Cancel, Contract!RequestCancel, Returned
  <2>2. QED BY <2>1 DEF Contract!ContractNext
<1>3. CASE CheckFormats
  <2>1. outcome = "None" /\ UNCHANGED <<data, cancelled, found, matched>>
    BY <1>1, <1>3 DEF CheckFormats, IInv, Accounted
  <2>2. CASE data.available
    BY <1>3, <2>1, <2>2 DEF CheckFormats, Returned
  <2>3. CASE ~ data.available
    <3>1. outcome' = "Unavailable" /\ Returned' = Returned
      BY <1>3, <2>1, <2>3 DEF CheckFormats, Returned
    <3>2. Contract!ReturnUnavailable
      BY <2>1, <2>3, <3>1 DEF Contract!ReturnUnavailable
    <3>3. QED BY <3>2 DEF Contract!ContractNext
  <2>4. QED BY <2>2, <2>3
<1>4. CASE Return
  <2>1. outcome = "None" /\ UNCHANGED <<data, cancelled, found, matched>> /\ data.available
    BY <1>1, <1>4 DEF Return, IInv, Accounted
  <2>2. CASE cancelled
    <3>1. outcome' = "Cancelled" /\ Returned' = Returned
      BY <1>4, <2>1, <2>2 DEF Return, Returned
    <3>2. Contract!ReturnCancelled
      BY <2>1, <2>2, <3>1 DEF Contract!ReturnCancelled
    <3>3. QED BY <3>2 DEF Contract!ContractNext
  <2>3. CASE ~ cancelled
    <3>1. outcome' = "Ok" /\ Returned' = [found |-> found, matched |-> matched]
      BY <1>4, <2>1, <2>3 DEF Return, Returned
    <3>2. found = Contract!ScanSequential(data)
      BY <1>4, <2>3, SameOracle DEF Return, OracleInv, Resolved
    <3>3. matched = IF data.matchParams THEN found ELSE {}
      BY <1>1, <1>4, <2>3 DEF Return, OracleInv, Resolved, IInv, Accounted
    <3>4. Contract!ReturnOk
      BY <2>1, <2>3, <3>1, <3>2, <3>3 DEF Contract!ReturnOk
    <3>5. QED BY <3>4 DEF Contract!ContractNext
  <2>4. QED BY <2>2, <2>3
<1>5. CASE (Caller /\ ~ CheckFormats /\ ~ Return) \/ \E w \in Workers : Worker(w)
  <2>1. UNCHANGED <<data, cancelled, outcome>> /\ outcome = "None"
    BY <1>1, <1>5 DEF Caller, Worker, StartVerified, StartUnverified, EndCollect, MergeVerified,
       EndMergeVerified, TakeUnverified, LookAhead, KeepBest, EndMergeUnverified, StartParams, EndParams,
       Take, FinishUnit, FinishMatch, Collecting, IInv, Accounted
  <2>2. QED BY <2>1 DEF Returned
<1>6. CASE UNCHANGED vars
  BY <1>6 DEF vars, Returned
<1>7. QED BY <1>2, <1>3, <1>4, <1>5, <1>6 DEF Next, Finished, Caller

(* The parallel scan keeps the contract with its caller: it returns once,   *)
(* with exactly what the sequential scan finds and the settings of all of   *)
(* it, or Cancelled after a cancellation, or Unavailable at once when a     *)
(* format is missing; and never with a part of the result.                  *)
THEOREM ScanRefinesContract == Spec => Contract!ContractSafety
<1>1. Init => Contract!ContractInit
  BY DEF Init, Contract!ContractInit, Contract!Empty, Returned
<1>2. OracleInv /\ [Next]_vars => [Contract!ContractNext]_(Contract!contractVars)
  BY StepRefines
<1>3. QED BY <1>1, <1>2, ScanOracleInvariant, PTL DEF Spec, Contract!ContractSafety
=============================================================================

---------------------------- MODULE PrintkProofs ----------------------------
(***************************************************************************)
(* Proofs about printk: the digits it prints denote the number, whatever   *)
(* the bases, the width of an integer and the length of the buffer.        *)
(***************************************************************************)
EXTENDS Printk, FiniteSetTheorems, WellFoundedInduction, TLAPS

-----------------------------------------------------------------------------
(***************************************************************************)
(* Induction up to a number, with a set in place of a predicate, and       *)
(* functions that are defined by recursion.                                *)
(***************************************************************************)

NatLess == {p \in Nat \X Nat : p[1] < p[2]}

LEMMA UpTo ==
  ASSUME NEW n \in Nat, NEW T, 0 \in T, \A k \in 1 .. n : k - 1 \in T => k \in T
  PROVE  \A k \in 0 .. n : k \in T
<1> DEFINE Rest == (0 .. n) \ T
<1> SUFFICES ASSUME Rest # {} PROVE FALSE
  OBVIOUS
<1>1. IsWellFoundedOn(NatLess, Nat)
  BY NatLessThanWellFounded DEF OpToRel, NatLess
<1>2. Rest \subseteq Nat
  OBVIOUS
<1>3. PICK x \in Rest : \A y \in Rest : <<y, x>> \notin NatLess
  BY <1>1, <1>2, WFMin
<1>4. x \in 1 .. n /\ x - 1 \in 0 .. n /\ x - 1 \in Nat /\ x \in Nat
  OBVIOUS
<1>5. x - 1 \notin T
  OBVIOUS
<1>6. x - 1 \in Rest
  BY <1>4, <1>5
<1>7. <<x - 1, x>> \in NatLess
  BY <1>4 DEF NatLess
<1> HIDE DEF Rest
<1> QED
  BY <1>3, <1>6, <1>7

(* A function that starts with a and goes on from each value by g.         *)
IsRecursion(f, a, g, n) ==
  /\ f[0] = a
  /\ \A k \in 1 .. n : f[k] = g[<<k, f[k - 1]>>]

(* There is one, if g does not leave a set.                                *)
LEMMA RecursionExists ==
  ASSUME NEW n \in Nat, NEW S, NEW a \in S, NEW g \in [(1 .. n) \X S -> S]
  PROVE  \E f \in [0 .. n -> S] : IsRecursion(f, a, g, n)
<1> DEFINE T == {m \in 0 .. n : \E f \in [0 .. m -> S] : IsRecursion(f, a, g, m)}
<1>1. 0 \in T
  <2> DEFINE f == [k \in 0 .. 0 |-> a]
  <2>1. f \in [0 .. 0 -> S] /\ IsRecursion(f, a, g, 0)
    BY DEF IsRecursion
  <2> HIDE DEF f
  <2> QED
    BY <2>1
<1>2. ASSUME NEW m \in 1 .. n, m - 1 \in T
      PROVE  m \in T
  <2>1. PICK h \in [0 .. m - 1 -> S] : IsRecursion(h, a, g, m - 1)
    BY <1>2
  <2> DEFINE last == g[<<m, h[m - 1]>>]
             f == [k \in 0 .. m |-> IF k = m THEN last ELSE h[k]]
  <2>2. last \in S
    BY <2>1
  <2> HIDE DEF last
  <2>3. f \in [0 .. m -> S]
    BY <2>1, <2>2
  <2>4. f[0] = a
    <3>1. f[0] = h[0]
      OBVIOUS
    <3> QED
      BY <2>1, <3>1 DEF IsRecursion
  <2>5. ASSUME NEW k \in 1 .. m
        PROVE  f[k] = g[<<k, f[k - 1]>>]
    <3>1. CASE k = m
      <4>1. k - 1 \in 0 .. m /\ k - 1 # m /\ k \in 0 .. m
        BY <3>1
      <4>2. f[k - 1] = h[m - 1] /\ f[k] = last
        BY <3>1, <4>1
      <4> HIDE DEF f
      <4> QED
        BY <3>1, <4>2 DEF last
    <3>2. CASE k # m
      <4>1. k \in 1 .. m - 1 /\ k - 1 # m /\ k - 1 \in 0 .. m /\ k \in 0 .. m
        BY <3>2
      <4>2. f[k] = h[k] /\ f[k - 1] = h[k - 1]
        BY <3>2, <4>1
      <4> HIDE DEF f
      <4> QED
        BY <2>1, <4>1, <4>2 DEF IsRecursion
    <3> QED
      BY <3>1, <3>2
  <2> HIDE DEF f
  <2>6. IsRecursion(f, a, g, m)
    BY <2>4, <2>5 DEF IsRecursion
  <2> QED
    BY <2>3, <2>6
<1> HIDE DEF T
<1>3. n \in T
  <2>1. \A k \in 0 .. n : k \in T
    BY <1>1, <1>2, UpTo
  <2> QED
    BY <2>1
<1> QED
  BY <1>3 DEF T

-----------------------------------------------------------------------------
(***************************************************************************)
(* Powers.                                                                 *)
(***************************************************************************)

(* The steps of the function that Power computes.                          *)
Multiply(b, n) == [p \in (1 .. n) \X Int |-> b * p[2]]

LEMMA PowerRecursion ==
  ASSUME NEW b \in Nat, NEW n \in Nat
  PROVE  \E f \in [0 .. n -> Int] :
            /\ Power(b, n) = f[n]
            /\ f[0] = 1
            /\ \A k \in 1 .. n : f[k] = b * f[k - 1]
<1> DEFINE step(f) == [k \in 0 .. n |-> IF k = 0 THEN 1 ELSE b * f[k - 1]]
           power == CHOOSE f : f = step(f)
<1>1. \E f : f = step(f)
  <2>1. Multiply(b, n) \in [(1 .. n) \X Int -> Int] /\ 1 \in Int
    BY DEF Multiply
  <2>2. PICK f \in [0 .. n -> Int] : IsRecursion(f, 1, Multiply(b, n), n)
    BY <2>1, RecursionExists
  <2>3. ASSUME NEW k \in 0 .. n
        PROVE  f[k] = step(f)[k]
    <3>1. CASE k = 0
      BY <2>2, <3>1 DEF IsRecursion
    <3>2. CASE k # 0
      <4>1. k \in 1 .. n /\ k - 1 \in 0 .. n
        BY <3>2
      <4>2. f[k - 1] \in Int
        BY <4>1
      <4>3. f[k] = Multiply(b, n)[<<k, f[k - 1]>>]
        BY <2>2, <4>1 DEF IsRecursion
      <4>4. Multiply(b, n)[<<k, f[k - 1]>>] = b * f[k - 1]
        BY <4>1, <4>2 DEF Multiply
      <4> QED
        BY <3>2, <4>3, <4>4
    <3> QED
      BY <3>1, <3>2
  <2> QED
    BY <2>3
<1>2. power = step(power)
  BY <1>1
<1>3. Power(b, n) = power[n]
  BY DEF Power
<1> HIDE DEF power
<1> DEFINE T == {k \in 0 .. n : power[k] \in Int}
<1>4. \A k \in 0 .. n : power[k] = IF k = 0 THEN 1 ELSE b * power[k - 1]
  BY <1>2
<1>5. \A k \in 0 .. n : power[k] \in Int
  <2>1. 0 \in T
    BY <1>4
  <2>2. ASSUME NEW k \in 1 .. n, k - 1 \in T
        PROVE  k \in T
    BY <1>4, <2>2
  <2> HIDE DEF T
  <2>3. \A k \in 0 .. n : k \in T
    BY <2>1, <2>2, UpTo
  <2> QED
    BY <2>3 DEF T
<1>6. power \in [0 .. n -> Int]
  <2>1. power = [k \in 0 .. n |-> power[k]]
    BY <1>2
  <2> QED
    BY <1>5, <2>1
<1>7. power[0] = 1
  BY <1>4
<1>8. \A k \in 1 .. n : power[k] = b * power[k - 1]
  BY <1>4
<1> HIDE DEF step, T
<1> QED
  BY <1>3, <1>6, <1>7, <1>8

LEMMA PowerIs ==
  ASSUME NEW b \in Nat \ {0}, NEW n \in Nat
  PROVE  /\ Power(b, n) \in Nat \ {0}
         /\ n = 0 => Power(b, n) = 1
         /\ n > 0 => Power(b, n) = b * Power(b, n - 1)
<1>1. PICK f \in [0 .. n -> Int] :
        Power(b, n) = f[n] /\ f[0] = 1 /\ \A k \in 1 .. n : f[k] = b * f[k - 1]
  BY PowerRecursion
<1>2. f[n] \in Nat \ {0}
  <2> DEFINE T == {k \in 0 .. n : f[k] \in Nat \ {0}}
  <2>1. 0 \in T
    BY <1>1
  <2>2. ASSUME NEW k \in 1 .. n, k - 1 \in T
        PROVE  k \in T
    <3>1. f[k] = b * f[k - 1] /\ f[k - 1] \in Nat \ {0} /\ k \in 0 .. n
      BY <1>1, <2>2
    <3>2. \A x, y \in Nat \ {0} : x * y \in Nat \ {0}
      OBVIOUS
    <3> QED
      BY <3>1, <3>2
  <2> HIDE DEF T
  <2>3. \A k \in 0 .. n : k \in T
    BY <2>1, <2>2, UpTo
  <2> QED
    BY <2>3 DEF T
<1>3. ASSUME n > 0
      PROVE  f[n] = b * Power(b, n - 1)
  <2>1. n - 1 \in Nat /\ n \in 1 .. n
    BY <1>3
  <2>2. PICK h \in [0 .. n - 1 -> Int] :
          Power(b, n - 1) = h[n - 1] /\ h[0] = 1 /\ \A k \in 1 .. n - 1 : h[k] = b * h[k - 1]
    BY <2>1, PowerRecursion
  <2>3. \A k \in 0 .. n - 1 : f[k] = h[k]
    <3> DEFINE T == {k \in 0 .. n - 1 : f[k] = h[k]}
    <3>1. 0 \in T
      BY <1>1, <2>1, <2>2
    <3>2. ASSUME NEW k \in 1 .. n - 1, k - 1 \in T
          PROVE  k \in T
      <4>1. k \in 1 .. n /\ k \in 0 .. n - 1 /\ f[k - 1] = h[k - 1]
        BY <2>1, <3>2
      <4> QED
        BY <1>1, <2>2, <4>1
    <3> HIDE DEF T
    <3>3. \A k \in 0 .. n - 1 : k \in T
      BY <2>1, <3>1, <3>2, UpTo
    <3> QED
      BY <3>3 DEF T
  <2> QED
    BY <1>1, <2>1, <2>2, <2>3
<1> QED
  BY <1>1, <1>2, <1>3

-----------------------------------------------------------------------------
(***************************************************************************)
(* The number that digits denote.                                          *)
(***************************************************************************)

DigitOf(b) == [kind : {"digit"}, val : 0 .. b - 1, comma : BOOLEAN]

(* The numbers that the first digits of d denote. *)
IsHorner(f, d, b, n) ==
  /\ f[0] = 0
  /\ \A k \in 1 .. n : f[k] = f[k - 1] * b + d[k].val

LEMMA HornerAgrees ==
  ASSUME NEW n \in Nat, NEW b, NEW d, NEW f, NEW h, IsHorner(f, d, b, n), IsHorner(h, d, b, n)
  PROVE  \A k \in 0 .. n : f[k] = h[k]
<1> DEFINE T == {k \in 0 .. n : f[k] = h[k]}
<1>1. 0 \in T
  BY DEF IsHorner
<1>2. ASSUME NEW k \in 1 .. n, k - 1 \in T
      PROVE  k \in T
  <2>1. f[k - 1] = h[k - 1] /\ k \in 0 .. n
    BY <1>2
  <2>2. f[k] = f[k - 1] * b + d[k].val /\ h[k] = h[k - 1] * b + d[k].val
    BY DEF IsHorner
  <2> QED
    BY <2>1, <2>2
<1> HIDE DEF T
<1>3. \A k \in 0 .. n : k \in T
  BY <1>1, <1>2, UpTo
<1> QED
  BY <1>3 DEF T

LEMMA ValueHorner ==
  ASSUME NEW b \in Nat, NEW d \in Seq(DigitOf(b))
  PROVE  \E f \in [0 .. Len(d) -> Int] : IsHorner(f, d, b, Len(d)) /\ Value(d, b) = f[Len(d)]
<1> DEFINE n == Len(d)
           step(f) == [k \in 0 .. n |-> IF k = 0 THEN 0 ELSE f[k - 1] * b + d[k].val]
           value == CHOOSE f : f = step(f)
           g == [p \in (1 .. n) \X Int |-> p[2] * b + d[p[1]].val]
<1>1. n \in Nat /\ \A k \in 1 .. n : d[k].val \in Int
  <2>1. n \in Nat /\ \A k \in 1 .. n : d[k] \in DigitOf(b)
    OBVIOUS
  <2>2. \A e \in DigitOf(b) : e.val \in Int
    BY DEF DigitOf
  <2> QED
    BY <2>1, <2>2
<1>2. Value(d, b) = value[n]
  BY DEF Value
<1> HIDE DEF n
<1>3. PICK f \in [0 .. n -> Int] : IsRecursion(f, 0, g, n)
  <2>1. g \in [(1 .. n) \X Int -> Int] /\ 0 \in Int
    BY <1>1
  <2> HIDE DEF g
  <2> QED
    BY <1>1, <2>1, RecursionExists
<1>4. \A k \in 0 .. n : f[k] = IF k = 0 THEN 0 ELSE f[k - 1] * b + d[k].val
  <2>1. ASSUME NEW k \in 1 .. n
        PROVE  f[k] = f[k - 1] * b + d[k].val
    <3>1. f[k - 1] \in Int
      BY <1>1
    <3>2. f[k] = g[<<k, f[k - 1]>>]
      BY <1>3 DEF IsRecursion
    <3> QED
      BY <3>1, <3>2
  <2>2. f[0] = 0
    BY <1>3 DEF IsRecursion
  <2> QED
    BY <1>1, <2>1, <2>2
<1>5. f = step(f)
  BY <1>4
<1>6. value = step(value)
  BY <1>5
<1> HIDE DEF value, g
<1>7. IsHorner(value, d, b, n) /\ IsHorner(f, d, b, n)
  <2>1. \A k \in 0 .. n : value[k] = IF k = 0 THEN 0 ELSE value[k - 1] * b + d[k].val
    BY <1>6
  <2>2. 0 \in 0 .. n /\ \A k \in 1 .. n : k \in 0 .. n /\ k # 0
    BY <1>1
  <2> HIDE DEF step
  <2>3. IsHorner(value, d, b, n)
    BY <2>1, <2>2 DEF IsHorner
  <2>4. IsHorner(f, d, b, n)
    BY <1>4, <2>2 DEF IsHorner
  <2> QED
    BY <2>3, <2>4
<1>8. \A k \in 0 .. n : value[k] = f[k]
  BY <1>1, <1>7, HornerAgrees
<1>9. Value(d, b) = f[n]
  BY <1>1, <1>2, <1>8
<1> QED
  BY <1>7, <1>9 DEF n

(* What other digits denote is of no account: no digits denote 0, and one  *)
(* more counts b times those before it.                                    *)
LEMMA ValueIs ==
  ASSUME NEW b \in Nat
  PROVE  /\ Value(<<>>, b) = 0
         /\ \A s \in Seq(DigitOf(b)) : \A e \in DigitOf(b) :
              Value(Append(s, e), b) = Value(s, b) * b + e.val
<1>1. Value(<<>>, b) = 0
  <2>1. <<>> \in Seq(DigitOf(b)) /\ Len(<<>>) = 0
    OBVIOUS
  <2>2. PICK f : IsHorner(f, <<>>, b, 0) /\ Value(<<>>, b) = f[0]
    BY <2>1, ValueHorner
  <2> QED
    BY <2>2 DEF IsHorner
<1>2. ASSUME NEW s \in Seq(DigitOf(b)), NEW e \in DigitOf(b)
      PROVE  Value(Append(s, e), b) = Value(s, b) * b + e.val
  <2> DEFINE t == Append(s, e)
             n == Len(s)
  <2>1. /\ t \in Seq(DigitOf(b)) /\ n \in Nat /\ Len(t) = n + 1
        /\ t[n + 1] = e /\ \A k \in 1 .. n : t[k] = s[k]
    OBVIOUS
  <2>2. PICK f : IsHorner(f, s, b, n) /\ Value(s, b) = f[n]
    BY ValueHorner
  <2> HIDE DEF t
  <2>3. PICK h : IsHorner(h, t, b, n + 1) /\ Value(t, b) = h[n + 1]
    BY <2>1, ValueHorner
  <2> HIDE DEF n
  <2>4. IsHorner(h, s, b, n)
    BY <2>1, <2>3 DEF IsHorner
  <2>5. h[n] = f[n] /\ n + 1 \in 1 .. n + 1 /\ (n + 1) - 1 = n
    BY <2>1, <2>2, <2>4, HornerAgrees
  <2>6. h[n + 1] = h[n] * b + e.val
    BY <2>1, <2>3, <2>5 DEF IsHorner
  <2> QED
    BY <2>2, <2>3, <2>5, <2>6 DEF t
<1> QED
  BY <1>1, <1>2

-----------------------------------------------------------------------------
(***************************************************************************)
(* The loop over the digits.                                               *)
(***************************************************************************)

LEMMA AppendIs ==
  ASSUME NEW D, NEW s \in Seq(D), NEW e \in D
  PROVE  LET u == Append(s, e)
         IN  /\ Len(u) = Len(s) + 1 /\ u[Len(s) + 1] = e
             /\ \A j \in 1 .. Len(s) : u[j] = s[j]
OBVIOUS

(* A turn of the loop of Sent.                                             *)
After(before, e, always) ==
  [leading |-> before.leading \/ e.val # 0,
   out |-> IF before.leading \/ e.val # 0 \/ always THEN Append(before.out, e) ELSE before.out]

AreTurns(t, d, leading, forced) ==
  /\ t[0] = [leading |-> leading, out |-> <<>>]
  /\ \A k \in 1 .. Len(d) : t[k] = After(t[k - 1], d[k], k \in forced)

LEMMA SentTurns ==
  ASSUME NEW D, NEW d \in Seq(D), NEW leading \in BOOLEAN, NEW forced
  PROVE  \E t \in [0 .. Len(d) -> [leading : BOOLEAN, out : Seq(D)]] :
            Sent(d, leading, forced) = t[Len(d)].out /\ AreTurns(t, d, leading, forced)
<1> DEFINE n == Len(d)
           start == [leading |-> leading, out |-> <<>>]
           State == [leading : BOOLEAN, out : Seq(D)]
           step(f) == [k \in 0 .. n |->
             IF k = 0 THEN [leading |-> leading, out |-> <<>>]
             ELSE LET wanted == f[k - 1].leading \/ d[k].val # 0
                  IN  [leading |-> wanted,
                       out |-> IF wanted \/ k \in forced THEN Append(f[k - 1].out, d[k])
                               ELSE f[k - 1].out]]
           turn == CHOOSE f : f = step(f)
           g == [p \in (1 .. n) \X State |-> After(p[2], d[p[1]], p[1] \in forced)]
<1>1. n \in Nat /\ (\A k \in 1 .. n : d[k] \in D) /\ start \in State
  OBVIOUS
<1>2. Sent(d, leading, forced) = turn[n].out
  BY DEF Sent
<1> HIDE DEF n
<1>3. \A before \in State, e \in D : \A always : After(before, e, always) \in State
  BY DEF After
<1>4. \A f : step(f) = [k \in 0 .. n |-> IF k = 0 THEN start
                                        ELSE After(f[k - 1], d[k], k \in forced)]
  BY DEF After
<1> HIDE DEF State, step, start
<1>5. PICK f \in [0 .. n -> State] : IsRecursion(f, start, g, n)
  <2>1. g \in [(1 .. n) \X State -> State]
    BY <1>1, <1>3
  <2> HIDE DEF g
  <2> QED
    BY <1>1, <2>1, RecursionExists
<1>6. \A k \in 0 .. n : f[k] = IF k = 0 THEN start ELSE After(f[k - 1], d[k], k \in forced)
  <2>1. ASSUME NEW k \in 1 .. n
        PROVE  f[k] = After(f[k - 1], d[k], k \in forced)
    <3>1. f[k - 1] \in State
      BY <1>1
    <3>2. f[k] = g[<<k, f[k - 1]>>]
      BY <1>5 DEF IsRecursion
    <3> QED
      BY <3>1, <3>2
  <2>2. f[0] = start
    BY <1>5 DEF IsRecursion
  <2> QED
    BY <1>1, <2>1, <2>2
<1> HIDE DEF g
<1>7. f = step(f)
  BY <1>4, <1>6
<1>8. turn = step(turn)
  BY <1>7
<1> HIDE DEF turn
<1>9. \A k \in 0 .. n : turn[k] = IF k = 0 THEN start ELSE After(turn[k - 1], d[k], k \in forced)
  BY <1>4, <1>8
<1>10. \A k \in 0 .. n : turn[k] = f[k]
  <2> DEFINE T == {k \in 0 .. n : turn[k] = f[k]}
  <2>1. 0 \in T
    BY <1>1, <1>6, <1>9
  <2>2. ASSUME NEW k \in 1 .. n, k - 1 \in T
        PROVE  k \in T
    <3>1. turn[k - 1] = f[k - 1] /\ k \in 0 .. n /\ k # 0
      BY <2>2
    <3>2. /\ turn[k] = After(turn[k - 1], d[k], k \in forced)
          /\ f[k] = After(f[k - 1], d[k], k \in forced)
      BY <1>6, <1>9, <3>1
    <3> QED
      BY <3>1, <3>2
  <2> HIDE DEF T
  <2>3. \A k \in 0 .. n : k \in T
    BY <1>1, <2>1, <2>2, UpTo
  <2> QED
    BY <2>3 DEF T
<1>11. Sent(d, leading, forced) = f[n].out
  BY <1>1, <1>2, <1>10
<1>12. f[0] = start /\ \A k \in 1 .. n : f[k] = After(f[k - 1], d[k], k \in forced)
  BY <1>1, <1>6
<1> QED
  BY <1>11, <1>12 DEF State, start, n, AreTurns

(* What a turn leaves, when the digits up to it denote v: the same number  *)
(* has been sent, and nothing of it if it is 0 and nothing has to be.      *)
Shows(t, b, leading, v) ==
  /\ v \in Nat
  /\ leading => t.leading
  /\ t.leading => Value(t.out, b) = v
  /\ ~ leading /\ t.leading => v # 0 /\ t.out # <<>> /\ t.out[1].val # 0
  /\ ~ t.leading => v = 0

(* What a turn sends: its digit, unless the zeros go on.                   *)
Sends(u, before, e, always) ==
  /\ u.leading \/ always => u.out = Append(before.out, e)
  /\ ~ u.leading => e.val = 0
  /\ ~ u.leading /\ ~ always => u.out = <<>>

LEMMA TurnShows ==
  ASSUME NEW b \in Nat \ {0}, NEW leading \in BOOLEAN, NEW v, NEW always \in BOOLEAN,
         NEW t \in [leading : BOOLEAN, out : Seq(DigitOf(b))], NEW e \in DigitOf(b),
         Shows(t, b, leading, v), t.leading \/ t.out = <<>>
  PROVE  LET u == After(t, e, always)
         IN  Shows(u, b, leading, v * b + e.val) /\ Sends(u, t, e, always)
<1> DEFINE u == After(t, e, always)
           w == v * b + e.val
<1>1. /\ u.leading = (t.leading \/ e.val # 0)
      /\ u.out = IF t.leading \/ e.val # 0 \/ always THEN Append(t.out, e) ELSE t.out
  BY DEF After
<1> HIDE DEF u
<1>2. v \in Nat /\ e.val \in Nat /\ w \in Nat
  <2>1. e.val \in Nat
    BY DEF DigitOf
  <2>2. v \in Nat
    BY DEF Shows
  <2>3. v * b \in Nat
    BY <2>2
  <2> QED
    BY <2>1, <2>2, <2>3
<1>3. w = 0 <=> v = 0 /\ e.val = 0
  <2>1. v # 0 => v * b # 0 /\ v * b \in Nat
    BY <1>2
  <2>2. v = 0 => v * b = 0
    OBVIOUS
  <2> QED
    BY <1>2, <2>1, <2>2
<1>4. t.out \in Seq(DigitOf(b)) /\ t.leading \in BOOLEAN
  OBVIOUS
<1>5. Value(Append(t.out, e), b) = Value(t.out, b) * b + e.val /\ Value(<<>>, b) = 0
  BY <1>4, ValueIs
<1>6. t.leading \/ (v = 0 /\ t.out = <<>>)
  BY DEF Shows
<1>7. Value(t.out, b) = v
  BY <1>5, <1>6 DEF Shows
<1>8. /\ Append(t.out, e) # <<>>
      /\ t.out = <<>> => Append(t.out, e)[1] = e
      /\ t.out # <<>> => Append(t.out, e)[1] = t.out[1]
  BY <1>4
<1>9. Shows(u, b, leading, w)
  <2>1. leading => u.leading
    BY <1>1 DEF Shows
  <2>2. u.leading => Value(u.out, b) = w
    BY <1>1, <1>5, <1>7
  <2>3. ~ leading /\ u.leading => w # 0 /\ u.out # <<>> /\ u.out[1].val # 0
    <3>1. CASE t.leading
      BY <1>1, <1>3, <1>8, <3>1 DEF Shows
    <3>2. CASE ~ t.leading
      BY <1>1, <1>3, <1>6, <1>8, <3>2
    <3> QED
      BY <3>1, <3>2
  <2>4. ~ u.leading => w = 0
    BY <1>1, <1>3, <1>6
  <2> QED
    BY <1>2, <2>1, <2>2, <2>3, <2>4 DEF Shows
<1> QED
  BY <1>1, <1>9 DEF u, Sends

(* The loop sends the number that the digits denote: all of the digits if  *)
(* it starts so, else those from the first that is not zero, and of a zero *)
(* the last if that one is sent in any case.                               *)
ShownBy(s, d, b, leading, forced) ==
  /\ Value(s, b) = Value(d, b)
  /\ leading => Len(s) = Len(d) /\ \A j \in 1 .. Len(d) : s[j] = d[j]
  /\ ~ leading /\ Value(d, b) # 0 => s # <<>> /\ s[1].val # 0
  /\ ~ leading /\ Value(d, b) = 0 =>
       s = IF Len(d) \in forced THEN <<d[Len(d)]>> ELSE <<>>

LEMMA SentIs ==
  ASSUME NEW b \in Nat \ {0}, NEW D, D \subseteq DigitOf(b), NEW d \in Seq(D), d # <<>>,
         NEW leading \in BOOLEAN, NEW forced, forced \subseteq {Len(d)}
  PROVE  /\ Sent(d, leading, forced) \in Seq(D)
         /\ ShownBy(Sent(d, leading, forced), d, b, leading, forced)
<1> DEFINE n == Len(d)
           s == Sent(d, leading, forced)
<1>1. n \in Nat \ {0} /\ \A k \in 1 .. n : d[k] \in D
  OBVIOUS
<1>2. d \in Seq(DigitOf(b)) /\ \A q \in Seq(D) : q \in Seq(DigitOf(b))
  OBVIOUS
<1>3. PICK v \in [0 .. n -> Int] : IsHorner(v, d, b, n) /\ Value(d, b) = v[n]
  BY <1>2, ValueHorner
<1>4. PICK t \in [0 .. n -> [leading : BOOLEAN, out : Seq(D)]] :
        /\ s = t[n].out
        /\ t[0] = [leading |-> leading, out |-> <<>>]
        /\ \A k \in 1 .. n : t[k] = After(t[k - 1], d[k], k \in forced)
  <2>1. PICK t \in [0 .. Len(d) -> [leading : BOOLEAN, out : Seq(D)]] :
          Sent(d, leading, forced) = t[Len(d)].out /\ AreTurns(t, d, leading, forced)
    BY SentTurns
  <2> QED
    BY <2>1 DEF AreTurns
<1>5. forced \subseteq {n}
  OBVIOUS
<1> HIDE DEF n, s
<1> DEFINE Early(k) == k # n => t[k].leading \/ t[k].out = <<>>
           All(k) == leading => Len(t[k].out) = k /\ \A j \in 1 .. k : t[k].out[j] = d[j]
           Zero(k) == k = n /\ ~ t[k].leading =>
                        t[k].out = IF k \in forced THEN <<d[k]>> ELSE <<>>
           LastZero(k) == k # 0 /\ ~ t[k].leading => d[k].val = 0
           T == {k \in 0 .. n : /\ Shows(t[k], b, leading, v[k])
                                /\ Early(k) /\ All(k) /\ Zero(k) /\ LastZero(k)}
<1>6. 0 \in T
  <2>1. Value(<<>>, b) = 0
    BY ValueIs
  <2>2. v[0] = 0
    BY <1>3 DEF IsHorner
  <2>3. Shows(t[0], b, leading, v[0])
    BY <1>4, <2>1, <2>2 DEF Shows
  <2>4. Early(0) /\ All(0) /\ Zero(0) /\ LastZero(0)
    BY <1>1, <1>4
  <2> QED
    BY <1>1, <2>3, <2>4
<1>7. ASSUME NEW k \in 1 .. n, k - 1 \in T
      PROVE  k \in T
  <2> DEFINE before == t[k - 1]
             always == k \in forced
  <2>1. k \in Nat \ {0} /\ k \in 0 .. n /\ k - 1 \in 0 .. n /\ k - 1 # n
    BY <1>1
  <2>2. before \in [leading : BOOLEAN, out : Seq(D)]
    BY <2>1
  <2>3. before \in [leading : BOOLEAN, out : Seq(DigitOf(b))] /\ d[k] \in DigitOf(b)
    <3>1. d[k] \in DigitOf(b)
      BY <1>1
    <3> HIDE DEF before
    <3>2. before \in [leading : BOOLEAN, out : Seq(DigitOf(b))]
      BY <1>2, <2>2
    <3> QED
      BY <3>1, <3>2
  <2>4. /\ Shows(before, b, leading, v[k - 1])
        /\ before.leading \/ before.out = <<>>
        /\ All(k - 1)
    BY <1>7, <2>1
  <2>5. t[k] = After(before, d[k], always) /\ always \in BOOLEAN
    BY <1>4
  <2>6. v[k] = v[k - 1] * b + d[k].val
    BY <1>3 DEF IsHorner
  <2> HIDE DEF before, always, T
  <2>7. /\ Shows(t[k], b, leading, v[k])
        /\ t[k].leading \/ always => t[k].out = Append(before.out, d[k])
        /\ ~ t[k].leading => d[k].val = 0
        /\ ~ t[k].leading /\ ~ always => t[k].out = <<>>
    <3>1. Shows(t[k], b, leading, v[k]) /\ Sends(t[k], before, d[k], always)
      <4> HIDE DEF All, Early, Zero, LastZero
      <4> QED
        BY <2>3, <2>4, <2>5, <2>6, TurnShows
    <3> QED
      BY <3>1 DEF Sends
  <2>8. Early(k)
    BY <1>5, <2>7 DEF always
  <2>9. All(k)
    <3>1. SUFFICES ASSUME leading
                   PROVE  Len(t[k].out) = k /\ \A j \in 1 .. k : t[k].out[j] = d[j]
      OBVIOUS
    <3>2. t[k].out = Append(before.out, d[k])
      BY <2>7, <3>1 DEF Shows
    <3>3. Len(before.out) = k - 1 /\ \A j \in 1 .. k - 1 : before.out[j] = d[j]
      BY <2>4, <3>1 DEF before
    <3>4. before.out \in Seq(D) /\ d[k] \in D
      BY <1>1, <2>2
    <3>5. /\ Len(t[k].out) = Len(before.out) + 1
          /\ t[k].out[Len(before.out) + 1] = d[k]
          /\ \A j \in 1 .. Len(before.out) : t[k].out[j] = before.out[j]
      BY <3>2, <3>4, AppendIs
    <3>6. Len(before.out) + 1 = k
      BY <2>1, <3>3
    <3>7. \A j \in 1 .. k : j = k \/ j \in 1 .. k - 1
      BY <2>1
    <3> QED
      BY <3>3, <3>5, <3>6, <3>7
  <2>10. Zero(k)
    <3>1. SUFFICES ASSUME k = n, ~ t[k].leading, always
                   PROVE  t[k].out = <<d[k]>>
      BY <2>7 DEF always
    <3>2. ~ before.leading
      <4>1. t[k].leading = (before.leading \/ d[k].val # 0)
        BY <2>5 DEF After
      <4> QED
        BY <3>1, <4>1, Zenon
    <3>3. t[k].out = Append(<<>>, d[k])
      BY <2>4, <2>7, <3>1, <3>2
    <3> QED
      BY <3>3
  <2> QED
    BY <2>1, <2>7, <2>8, <2>9, <2>10 DEF T
<1> HIDE DEF T
<1>8. n \in T
  <2>1. \A k \in 0 .. n : k \in T
    BY <1>1, <1>6, <1>7, UpTo
  <2> QED
    BY <1>1, <2>1
<1>9. /\ Shows(t[n], b, leading, Value(d, b))
      /\ All(n) /\ Zero(n) /\ LastZero(n)
  BY <1>3, <1>8 DEF T
<1>10. s \in Seq(D)
  <2>1. t[n] \in [leading : BOOLEAN, out : Seq(D)]
    BY <1>1
  <2> QED
    BY <1>4, <2>1
<1>11. Value(s, b) = Value(d, b)
  <2>1. CASE t[n].leading
    BY <1>4, <1>9, <2>1 DEF Shows
  <2>2. CASE ~ t[n].leading
    <3>1. Value(d, b) = 0
      BY <1>9, <2>2 DEF Shows
    <3>2. Value(<<>>, b) = 0
      BY ValueIs
    <3>3. CASE n \in forced
      <4>1. s = Append(<<>>, d[n])
        BY <1>4, <1>9, <2>2, <3>3
      <4>2. d[n] \in DigitOf(b) /\ d[n].val = 0 /\ <<>> \in Seq(DigitOf(b))
        <5>1. n # 0 /\ d[n] \in D
          BY <1>1
        <5>2. d[n].val = 0
          BY <1>9, <2>2, <5>1
        <5> QED
          BY <5>1, <5>2
      <4>3. Value(Append(<<>>, d[n]), b) = Value(<<>>, b) * b + d[n].val
        BY <4>2, ValueIs
      <4> QED
        BY <3>1, <3>2, <4>1, <4>2, <4>3
    <3>4. CASE n \notin forced
      BY <1>4, <1>9, <2>2, <3>1, <3>2, <3>4
    <3> QED
      BY <3>3, <3>4
  <2> QED
    BY <2>1, <2>2
<1>12. leading => Len(s) = n /\ \A j \in 1 .. n : s[j] = d[j]
  BY <1>4, <1>9
<1>13. ~ leading /\ Value(d, b) # 0 => s # <<>> /\ s[1].val # 0
  BY <1>4, <1>9 DEF Shows
<1>14. ~ leading /\ Value(d, b) = 0 => s = IF n \in forced THEN <<d[n]>> ELSE <<>>
  BY <1>4, <1>9 DEF Shows
<1> QED
  BY <1>10, <1>11, <1>12, <1>13, <1>14 DEF n, s, ShownBy

-----------------------------------------------------------------------------
(***************************************************************************)
(* The digits of a number.                                                 *)
(***************************************************************************)

LEMMA NothingLeft ==
  ASSUME NEW x \in Nat, NEW p \in Nat \ {0}, x < p
  PROVE  x \div p = 0
OBVIOUS

LEMMA DigitIs ==
  ASSUME NEW x \in Nat, NEW p \in Nat \ {0}, NEW b \in Nat \ {0}
  PROVE  (x \div p) % b \in 0 .. b - 1
<1>1. x \div p \in Nat
  OBVIOUS
<1>2. \A q \in Nat : q % b \in 0 .. b - 1
  OBVIOUS
<1> QED
  BY <1>1, <1>2

(* Where p digits are cut off, the last one left and the ones above it.    *)
Splits(x, p, b) == x \div p = (x \div (p * b)) * b + ((x \div p) % b)

LEMMA SplitIs ==
  ASSUME NEW x \in Nat, NEW p \in Nat \ {0}, NEW b \in Nat \ {0}
  PROVE  Splits(x, p, b)
<1>1. x \div p \in Nat
  OBVIOUS
<1>2. x \div (p * b) = (x \div p) \div b
  OBVIOUS
<1>3. \A q \in Nat : q = (q \div b) * b + (q % b)
  OBVIOUS
<1> QED
  BY <1>1, <1>2, <1>3 DEF Splits

(* The digits of x in a base, from the first to the last of n, denote x.   *)
LEMMA DigitsDenote ==
  ASSUME NEW b \in Nat \ {0}, NEW n \in Nat, NEW x \in 0 .. Power(b, n) - 1,
         NEW d \in Seq(DigitOf(b)), Len(d) = n,
         \A k \in 1 .. n : d[k].val = (x \div Power(b, n - k)) % b
  PROVE  Value(d, b) = x
<1>1. ASSUME NEW k \in 0 .. n
      PROVE  Power(b, k) \in Nat \ {0}
  <2>1. k \in Nat
    OBVIOUS
  <2> QED
    BY <2>1, PowerIs
<1>2. x \in Nat /\ Power(b, 0) = 1 /\ x < Power(b, n)
  BY <1>1, PowerIs
<1> DEFINE h == [k \in 0 .. n |-> x \div Power(b, n - k)]
<1>3. IsHorner(h, d, b, n)
  <2>1. h[0] = 0
    <3>1. h[0] = x \div Power(b, n)
      OBVIOUS
    <3>2. Power(b, n) \in Nat \ {0}
      BY PowerIs
    <3> HIDE DEF h
    <3>3. x \div Power(b, n) = 0
      BY <1>2, <3>2, NothingLeft
    <3> QED
      BY <3>1, <3>3
  <2>2. ASSUME NEW k \in 1 .. n
        PROVE  h[k] = h[k - 1] * b + d[k].val
    <3> DEFINE p == Power(b, n - k)
    <3>1. /\ n - k \in 0 .. n /\ n - (k - 1) \in 0 .. n /\ k - 1 \in 0 .. n /\ k \in 0 .. n
          /\ n - (k - 1) > 0 /\ (n - (k - 1)) - 1 = n - k
      OBVIOUS
    <3>2. h[k] = x \div p /\ h[k - 1] = x \div Power(b, n - (k - 1))
      BY <3>1
    <3>3. d[k].val = (x \div p) % b
      OBVIOUS
    <3>4. p \in Nat \ {0}
      BY <1>1, <3>1
    <3>5. Power(b, n - (k - 1)) = b * p
      BY <3>1, PowerIs
    <3> HIDE DEF p, h
    <3>6. b * p = p * b
      BY <3>4
    <3>7. x \div p = (x \div (p * b)) * b + ((x \div p) % b)
      <4>1. Splits(x, p, b)
        BY <1>2, <3>4, SplitIs
      <4> QED
        BY <4>1 DEF Splits
    <3>8. h[k - 1] = x \div (p * b)
      BY <3>2, <3>5, <3>6
    <3> DEFINE low == x \div p
               high == x \div (p * b)
               rest == (x \div p) % b
    <3>9. h[k] = low /\ h[k - 1] = high /\ d[k].val = rest /\ low = high * b + rest
      <4>1. low = high * b + rest
        BY <3>7
      <4>2. h[k] = low /\ d[k].val = rest
        BY <3>2, <3>3
      <4>3. h[k - 1] = high
        BY <3>8
      <4> HIDE DEF low, high, rest
      <4> QED
        BY <4>1, <4>2, <4>3
    <3> HIDE DEF low, high, rest
    <3> QED
      BY <3>9
  <2> HIDE DEF h
  <2> QED
    BY <2>1, <2>2 DEF IsHorner
<1>4. h[n] = x
  <2>1. h[n] = x \div Power(b, 0)
    OBVIOUS
  <2> QED
    BY <1>2, <2>1
<1> HIDE DEF h
<1>5. PICK f : IsHorner(f, d, b, n) /\ Value(d, b) = f[n]
  BY ValueHorner
<1>6. f[n] = h[n]
  BY <1>3, <1>5, HornerAgrees
<1> QED
  BY <1>4, <1>5, <1>6

(* What printk relies on: the numbers of its digits are numbers.           *)
LEMMA Bases ==
  /\ HEX \in Nat \ {0, 1} /\ DEC \in Nat \ {0, 1}
  /\ WIDTH \in Nat \ {0} /\ BUF \in Nat \ {0}
  /\ Modulus \in Nat \ {0} /\ Modulus = Power(HEX, WIDTH) /\ Modulus <= Power(DEC, BUF)
<1>1. /\ HEX \in Nat \ {0, 1} /\ DEC \in Nat \ {0, 1}
      /\ WIDTH \in Nat \ {0} /\ BUF \in Nat \ {0} /\ Modulus <= Power(DEC, BUF)
  BY PrintkAssumption
<1>2. Power(HEX, WIDTH) \in Nat \ {0}
  BY <1>1, PowerIs
<1> QED
  BY <1>1, <1>2 DEF Modulus

LEMMA FunctionIsSeq ==
  ASSUME NEW n \in Nat, NEW S, NEW f \in [1 .. n -> S]
  PROVE  f \in Seq(S) /\ Len(f) = n
OBVIOUS

(* %x: the first digit that is not zero and all after it.                  *)
LEMMA HexNumeral ==
  ASSUME NEW x \in 0 .. Modulus - 1
  PROVE  Numeral(kputhex(x, FALSE, FALSE), x, HEX)
<1> DEFINE D == {e \in DigitOf(HEX) : ~ e.comma}
           d == [k \in 1 .. WIDTH |->
                   Digit(HexDigit(x, WIDTH - k), FALSE /\ Spacer(WIDTH - k))]
           s == kputhex(x, FALSE, FALSE)
<1>1. /\ HEX \in Nat \ {0} /\ WIDTH \in Nat \ {0} /\ x \in 0 .. Power(HEX, WIDTH) - 1
      /\ x \in Nat
  BY Bases
<1>2. s = Sent(d, FALSE, {})
  BY DEF kputhex
<1>3. ASSUME NEW k \in 1 .. WIDTH
      PROVE  /\ d[k] \in D
             /\ d[k].val = (x \div Power(HEX, WIDTH - k)) % HEX
  <2>1. d[k] = [kind |-> "digit", val |-> HexDigit(x, WIDTH - k), comma |-> FALSE]
    BY DEF Digit
  <2>2. WIDTH - k \in Nat
    BY <1>1
  <2>3. Power(HEX, WIDTH - k) \in Nat \ {0}
    BY <1>1, <2>2, PowerIs
  <2>4. HexDigit(x, WIDTH - k) \in 0 .. HEX - 1
    BY <1>1, <2>3, DigitIs DEF HexDigit
  <2> HIDE DEF d
  <2>5. d[k] \in D
    BY <2>1, <2>4 DEF DigitOf
  <2> QED
    BY <2>1, <2>5 DEF HexDigit
<1>4. d \in [1 .. WIDTH -> D]
  BY <1>3
<1> HIDE DEF d, s
<1>5. D \subseteq DigitOf(HEX)
  OBVIOUS
<1>6. \A e \in D : e.kind = "digit" /\ e.val \in 0 .. HEX - 1 /\ ~ e.comma
  BY DEF DigitOf
<1> HIDE DEF D
<1>7. d \in Seq(D) /\ d \in Seq(DigitOf(HEX)) /\ Len(d) = WIDTH /\ d # <<>>
  <2>1. d \in Seq(D) /\ Len(d) = WIDTH
    BY <1>1, <1>4, FunctionIsSeq
  <2> QED
    BY <1>1, <1>5, <2>1
<1>8. Value(d, HEX) = x
  <2>1. \A k \in 1 .. WIDTH : d[k].val = (x \div Power(HEX, WIDTH - k)) % HEX
    BY <1>3
  <2> QED
    BY <1>1, <1>7, <2>1, DigitsDenote
<1>9. /\ s \in Seq(D)
      /\ Value(s, HEX) = Value(d, HEX)
      /\ Value(d, HEX) # 0 => s # <<>> /\ s[1].val # 0
      /\ Value(d, HEX) = 0 => s = <<>>
  <2>1. {} \subseteq {Len(d)} /\ FALSE \in BOOLEAN
    OBVIOUS
  <2>2. s \in Seq(D) /\ ShownBy(s, d, HEX, FALSE, {})
    BY <1>1, <1>2, <1>5, <1>7, <2>1, SentIs
  <2> QED
    BY <2>2 DEF ShownBy
<1>10. \A k \in 1 .. Len(s) : s[k] \in D
  BY <1>9
<1>11. Denotes(s, x, HEX)
  BY <1>6, <1>8, <1>9, <1>10 DEF Denotes
<1>12. Numeral(s, x, HEX)
  BY <1>6, <1>9, <1>10, <1>11 DEF Numeral
<1> QED
  BY <1>12 DEF s

(* %p: all digits, each with its comma.                                    *)
LEMMA HexGrouped ==
  ASSUME NEW x \in 0 .. Modulus - 1
  PROVE  Grouped(kputhex(x, TRUE, TRUE), x)
<1> DEFINE d == [k \in 1 .. WIDTH |->
                   Digit(HexDigit(x, WIDTH - k), TRUE /\ Spacer(WIDTH - k))]
           s == kputhex(x, TRUE, TRUE)
<1>1. /\ HEX \in Nat \ {0} /\ WIDTH \in Nat \ {0} /\ x \in 0 .. Power(HEX, WIDTH) - 1
      /\ x \in Nat
  BY Bases
<1>2. s = Sent(d, TRUE, {})
  BY DEF kputhex
<1>3. ASSUME NEW k \in 1 .. WIDTH
      PROVE  /\ d[k] \in DigitOf(HEX)
             /\ d[k].val = (x \div Power(HEX, WIDTH - k)) % HEX
             /\ d[k].comma <=> k > 1 /\ (WIDTH - k + 1) % 4 = 0
  <2>1. d[k] = [kind |-> "digit", val |-> HexDigit(x, WIDTH - k), 
           comma |-> TRUE /\ Spacer(WIDTH - k)]
    BY DEF Digit
  <2>2. WIDTH - k \in Nat
    BY <1>1
  <2>3. Power(HEX, WIDTH - k) \in Nat \ {0}
    BY <1>1, <2>2, PowerIs
  <2>4. HexDigit(x, WIDTH - k) \in 0 .. HEX - 1
    BY <1>1, <2>3, DigitIs DEF HexDigit
  <2>5. Spacer(WIDTH - k) <=> k > 1 /\ (WIDTH - k + 1) % 4 = 0
    BY <1>1 DEF Spacer
  <2>6. Spacer(WIDTH - k) \in BOOLEAN
    BY DEF Spacer
  <2> HIDE DEF d
  <2>7. d[k] \in DigitOf(HEX)
    BY <2>1, <2>4, <2>6 DEF DigitOf
  <2>8. d[k].comma <=> Spacer(WIDTH - k)
    BY <2>1, <2>6
  <2> QED
    BY <2>1, <2>5, <2>7, <2>8 DEF HexDigit
<1>4. d \in [1 .. WIDTH -> DigitOf(HEX)]
  BY <1>3
<1> HIDE DEF d, s
<1>5. d \in Seq(DigitOf(HEX)) /\ Len(d) = WIDTH /\ d # <<>>
  <2>1. d \in Seq(DigitOf(HEX)) /\ Len(d) = WIDTH
    BY <1>1, <1>4, FunctionIsSeq
  <2> QED
    BY <1>1, <2>1
<1>6. Value(d, HEX) = x
  BY <1>1, <1>3, <1>5, DigitsDenote
<1>7. /\ s \in Seq(DigitOf(HEX))
      /\ Value(s, HEX) = x
      /\ Len(s) = WIDTH /\ \A j \in 1 .. WIDTH : s[j] = d[j]
  <2> DEFINE D == DigitOf(HEX)
  <2>1. {} \subseteq {Len(d)} /\ D \subseteq DigitOf(HEX) /\ d \in Seq(D) /\ TRUE \in BOOLEAN
    BY <1>5
  <2> HIDE DEF D
  <2>2. s \in Seq(D) /\ ShownBy(s, d, HEX, TRUE, {})
    BY <1>1, <1>2, <1>5, <2>1, SentIs
  <2> QED
    BY <1>5, <1>6, <2>2 DEF D, ShownBy
<1>8. Denotes(s, x, HEX)
  <2>1. \A e \in DigitOf(HEX) : e.kind = "digit" /\ e.val \in 0 .. HEX - 1
    BY DEF DigitOf
  <2>2. \A k \in 1 .. Len(s) : s[k] \in DigitOf(HEX)
    BY <1>7
  <2> QED
    BY <1>7, <2>1, <2>2 DEF Denotes
<1>9. Grouped(s, x)
  BY <1>3, <1>7, <1>8 DEF Grouped
<1> QED
  BY <1>9 DEF s

(* The buffer is long enough, and each digit is in its place: the bytes    *)
(* that kputdec does not write are zeros of the number.                    *)
LEMMA BufferDigits ==
  ASSUME NEW x \in 0 .. Modulus - 1
  PROVE  /\ Filled(x) \subseteq 0 .. BUF - 1
         /\ \A j \in 0 .. BUF - 1 :
              /\ Buffer(x)[j] \in 0 .. DEC - 1
              /\ Buffer(x)[j] = (x \div Power(DEC, BUF - 1 - j)) % DEC
<1>1. /\ DEC \in Nat \ {0} /\ BUF \in Nat \ {0} /\ x \in 0 .. Power(DEC, BUF) - 1
      /\ x \in Nat
  <2>1. DEC \in Nat \ {0} /\ Power(DEC, BUF) \in Nat \ {0}
    BY Bases, PowerIs
  <2> QED
    BY Bases, <2>1
<1>2. Filled(x) \subseteq 0 .. BUF - 1
  <2>1. Power(DEC, BUF) \in Nat \ {0}
    BY <1>1, PowerIs
  <2>2. x < Power(DEC, BUF)
    BY <1>1, <2>1
  <2>3. x \div Power(DEC, BUF) = 0
    BY <1>1, <2>1, <2>2, NothingLeft
  <2>4. Turns(x) \subseteq 0 .. BUF - 1
    BY <1>1, <2>3 DEF Turns
  <2> QED
    BY <1>1, <2>4 DEF Filled, LastIndex
<1>3. ASSUME NEW j \in 0 .. BUF - 1
      PROVE  /\ Buffer(x)[j] \in 0 .. DEC - 1
             /\ Buffer(x)[j] = (x \div Power(DEC, BUF - 1 - j)) % DEC
  <2> DEFINE p == Power(DEC, BUF - 1 - j)
  <2>1. BUF - 1 - j \in Nat /\ BUF - 1 - j \in 0 .. BUF
    BY <1>1
  <2>2. p \in Nat \ {0}
    BY <1>1, <2>1, PowerIs
  <2>3. Buffer(x)[j] = IF j \in Filled(x) THEN (x \div p) % DEC ELSE 0
    BY DEF Buffer, LastIndex
  <2>4. j \notin Filled(x) => x \div p = 0
    <3>1. BUF - 1 - j \in Turns(x) => j \in Filled(x)
      BY <1>1 DEF Filled, LastIndex
    <3> QED
      BY <2>1, <3>1 DEF Turns
  <2>5. (x \div p) % DEC \in 0 .. DEC - 1
    BY <1>1, <2>2, DigitIs
  <2> HIDE DEF p
  <2>6. x \div p = 0 => (x \div p) % DEC = 0
    BY <1>1
  <2> QED
    BY <1>1, <2>3, <2>4, <2>5, <2>6 DEF p
<1> QED
  BY <1>2, <1>3

(* %d and %u.                                                              *)
LEMMA DecimalNumeral ==
  ASSUME NEW x \in 0 .. Modulus - 1
  PROVE  IF x = 0 THEN kputdec(x) = <<Digit(0, FALSE)>> ELSE Numeral(kputdec(x), x, DEC)
<1> DEFINE D == {e \in DigitOf(DEC) : ~ e.comma}
           d == [k \in 1 .. BUF |-> Digit(Buffer(x)[k - 1], FALSE)]
           s == kputdec(x)
<1>1. /\ DEC \in Nat \ {0} /\ BUF \in Nat \ {0} /\ x \in 0 .. Power(DEC, BUF) - 1
      /\ x \in Nat
  <2>1. DEC \in Nat \ {0} /\ Power(DEC, BUF) \in Nat \ {0}
    BY Bases, PowerIs
  <2> QED
    BY Bases, <2>1
<1>2. s = Sent(d, FALSE, {BUF})
  BY DEF kputdec
<1>3. ASSUME NEW k \in 1 .. BUF
      PROVE  /\ d[k] \in D
             /\ d[k] = Digit(d[k].val, FALSE)
             /\ d[k].val = (x \div Power(DEC, BUF - k)) % DEC
  <2>1. d[k] = [kind |-> "digit", val |-> Buffer(x)[k - 1], comma |-> FALSE]
    BY DEF Digit
  <2>2. k - 1 \in 0 .. BUF - 1 /\ BUF - 1 - (k - 1) = BUF - k
    BY <1>1
  <2>3. /\ Buffer(x)[k - 1] \in 0 .. DEC - 1
        /\ Buffer(x)[k - 1] = (x \div Power(DEC, BUF - k)) % DEC
    BY <2>2, BufferDigits
  <2> HIDE DEF d
  <2>4. d[k] \in D
    BY <2>1, <2>3 DEF DigitOf
  <2>5. d[k].val = Buffer(x)[k - 1]
    BY <2>1
  <2> QED
    BY <2>1, <2>3, <2>4, <2>5 DEF Digit
<1>4. d \in [1 .. BUF -> D]
  BY <1>3
<1> HIDE DEF d, s
<1>5. D \subseteq DigitOf(DEC)
  OBVIOUS
<1>6. \A e \in D : e.kind = "digit" /\ e.val \in 0 .. DEC - 1 /\ ~ e.comma
  BY DEF DigitOf
<1> HIDE DEF D
<1>7. d \in Seq(D) /\ d \in Seq(DigitOf(DEC)) /\ Len(d) = BUF /\ d # <<>>
  <2>1. d \in Seq(D) /\ Len(d) = BUF
    BY <1>1, <1>4, FunctionIsSeq
  <2> QED
    BY <1>1, <1>5, <2>1
<1>8. Value(d, DEC) = x
  <2>1. \A k \in 1 .. BUF : d[k].val = (x \div Power(DEC, BUF - k)) % DEC
    BY <1>3
  <2> QED
    BY <1>1, <1>7, <2>1, DigitsDenote
<1>9. s \in Seq(D) /\ ShownBy(s, d, DEC, FALSE, {BUF})
  <2>1. {BUF} \subseteq {Len(d)} /\ FALSE \in BOOLEAN
    BY <1>7
  <2> QED
    BY <1>1, <1>2, <1>5, <1>7, <2>1, SentIs
<1>10. CASE x = 0
  <2>1. s = <<d[BUF]>>
    BY <1>7, <1>8, <1>9, <1>10 DEF ShownBy
  <2>2. BUF \in 1 .. BUF /\ BUF - BUF = 0
    BY <1>1
  <2>3. d[BUF].val = (0 \div Power(DEC, 0)) % DEC /\ d[BUF] = Digit(d[BUF].val, FALSE)
    BY <1>3, <1>10, <2>2
  <2>4. Power(DEC, 0) = 1
    BY <1>1, PowerIs
  <2>5. d[BUF].val = 0
    BY <1>1, <2>3, <2>4
  <2> QED
    BY <1>10, <2>1, <2>3, <2>5 DEF s
<1>11. CASE x # 0
  <2>1. \A k \in 1 .. Len(s) : s[k] \in D
    BY <1>9
  <2>2. Denotes(s, x, DEC)
    BY <1>6, <1>8, <1>9, <2>1 DEF Denotes, ShownBy
  <2>3. s # <<>> => s[1].val # 0
    BY <1>8, <1>9, <1>11 DEF ShownBy
  <2>4. Numeral(s, x, DEC)
    BY <1>6, <2>1, <2>2, <2>3 DEF Numeral
  <2> QED
    BY <1>11, <2>4 DEF s
<1> QED
  BY <1>10, <1>11

-----------------------------------------------------------------------------
(***************************************************************************)
(* The pass over the format.                                               *)
(***************************************************************************)

LEMMA ArgumentsToIs ==
  ASSUME NEW c
  PROVE  /\ ArgumentsTo(c, 0) = 0
         /\ \A n \in Nat :
              /\ ArgumentsTo(c, n) \in Nat
              /\ ArgumentsTo(c, n + 1) =
                   ArgumentsTo(c, n) + (IF Takes(c.format[n + 1]) THEN 1 ELSE 0)
<1> DEFINE Taking(k) == {j \in 1 .. k : Takes(c.format[j])}
<1>1. ArgumentsTo(c, 0) = 0
  <2>1. Taking(0) = {}
    OBVIOUS
  <2> QED
    BY <2>1, FS_EmptySet DEF ArgumentsTo
<1>2. ASSUME NEW n \in Nat
      PROVE  /\ ArgumentsTo(c, n) \in Nat
             /\ ArgumentsTo(c, n + 1) =
                  ArgumentsTo(c, n) + (IF Takes(c.format[n + 1]) THEN 1 ELSE 0)
  <2>1. IsFiniteSet(Taking(n))
    <3>1. IsFiniteSet(1 .. n)
      BY FS_Interval
    <3>2. Taking(n) \subseteq 1 .. n
      OBVIOUS
    <3> QED
      BY <3>1, <3>2, FS_Subset
  <2>2. Cardinality(Taking(n)) \in Nat
    BY <2>1, FS_CardinalityType
  <2>3. n + 1 \notin Taking(n)
    OBVIOUS
  <2>4. Taking(n + 1) = IF Takes(c.format[n + 1]) THEN Taking(n) \cup {n + 1} ELSE Taking(n)
    <3>1. 1 .. n + 1 = (1 .. n) \cup {n + 1}
      OBVIOUS
    <3> QED
      BY <3>1
  <2>5. ArgumentsTo(c, n) = Cardinality(Taking(n)) /\
        ArgumentsTo(c, n + 1) = Cardinality(Taking(n + 1))
    BY DEF ArgumentsTo
  <2> HIDE DEF Taking
  <2>6. Cardinality(Taking(n) \cup {n + 1}) = Cardinality(Taking(n)) + 1
    BY <2>1, <2>3, FS_AddElement
  <2> QED
    BY <2>2, <2>4, <2>5, <2>6
<1> QED
  BY <1>1, <1>2

(* The sequences o are what the first n items of the format of c print.    *)
Done(c, o, n) ==
  /\ o \in Seq({o[k] : k \in DOMAIN o})
  /\ Len(o) = n
  /\ \A k \in 1 .. n : Renders(o[k], c.format[k], c.values[ArgumentsTo(c, k)])

(* What printk has printed is what the items before fmt ask for, and it has*)
(* taken as many arguments as they take.                                   *)
PrintkInv ==
  /\ call \in Call
  /\ fmt \in 1 .. Len(call.format) + 1
  /\ ap = ArgumentsTo(call, fmt - 1)
  /\ returned \in BOOLEAN
  /\ Done(call, out, fmt - 1)
  /\ returned => fmt = Len(call.format) + 1 \/ call.format[fmt].kind = "end"

LEMMA DoneMore ==
  ASSUME NEW c, NEW n \in Nat, NEW o, Done(c, o, n), NEW s,
         Renders(s, c.format[n + 1], c.values[ArgumentsTo(c, n + 1)])
  PROVE  Done(c, Append(o, s), n + 1)
<1> DEFINE S == {o[k] : k \in DOMAIN o}
           t == Append(o, s)
<1>1. o \in Seq(S) /\ Len(o) = n
  BY DEF Done
<1> HIDE DEF S
<1>2. /\ t \in Seq(S \cup {s}) /\ Len(t) = n + 1
      /\ t[n + 1] = s /\ \A k \in 1 .. n : t[k] = o[k]
  <2>1. o \in Seq(S \cup {s}) /\ s \in S \cup {s}
    BY <1>1
  <2> QED
    BY <1>1, <2>1
<1> HIDE DEF t
<1>3. t \in Seq({t[k] : k \in DOMAIN t})
  <2>1. DOMAIN t = 1 .. n + 1 /\ t = [k \in 1 .. n + 1 |-> t[k]]
    BY <1>2
  <2> DEFINE R == {t[k] : k \in DOMAIN t}
  <2>2. \A k \in 1 .. n + 1 : t[k] \in R
    BY <2>1
  <2> HIDE DEF R
  <2>3. t \in [1 .. n + 1 -> R]
    BY <2>1, <2>2
  <2>4. t \in Seq(R)
    BY <2>3, FunctionIsSeq
  <2> QED
    BY <2>4 DEF R
<1>4. ASSUME NEW k \in 1 .. n + 1
      PROVE  Renders(t[k], c.format[k], c.values[ArgumentsTo(c, k)])
  <2>1. CASE k = n + 1
    BY <1>2, <2>1
  <2>2. CASE k # n + 1
    <3>1. k \in 1 .. n
      BY <2>2
    <3>2. Renders(o[k], c.format[k], c.values[ArgumentsTo(c, k)])
      BY <3>1 DEF Done
    <3> QED
      BY <1>2, <3>1, <3>2
  <2> QED
    BY <2>1, <2>2
<1>5. Done(c, t, n + 1)
  BY <1>2, <1>3, <1>4 DEF Done
<1> QED
  BY <1>5 DEF t

(* Where printk is at an item.                                             *)
LEMMA AtItemIs ==
  ASSUME PrintkInv, NEW kinds, AtItem(kinds)
  PROVE  LET item == call.format[fmt]
             more == IF Takes(item) THEN 1 ELSE 0
         IN  /\ fmt \in DOMAIN call.format /\ fmt \in Nat
             /\ ap \in Nat
             /\ ArgumentsTo(call, fmt) = ap + more
             /\ item.kind \in kinds
             /\ item.kind \in {"x", "d", "u", "p"} =>
                  Unsigned = Argument % Modulus /\ Unsigned \in 0 .. Modulus - 1
             /\ Takes(item) => Argument = call.values[ArgumentsTo(call, fmt)]
<1>1. call \in Call /\ call.format \in Seq({call.format[k] : k \in DOMAIN call.format})
  BY CallAssumption DEF PrintkInv
<1>2. fmt \in 1 .. Len(call.format) /\ fmt \in Nat /\ fmt - 1 \in Nat /\ (fmt - 1) + 1 = fmt
  <2> DEFINE S == {call.format[k] : k \in DOMAIN call.format}
  <2>1. call.format \in Seq(S)
    BY <1>1
  <2> HIDE DEF S
  <2>2. Len(call.format) \in Nat
    BY <2>1
  <2> QED
    BY <2>2 DEF PrintkInv, AtItem
<1>3. DOMAIN call.format = 1 .. Len(call.format)
  <2> DEFINE S == {call.format[k] : k \in DOMAIN call.format}
  <2>1. call.format \in Seq(S)
    BY <1>1
  <2> HIDE DEF S
  <2> QED
    BY <2>1
<1>4. /\ ap = ArgumentsTo(call, fmt - 1) /\ ap \in Nat
      /\ ArgumentsTo(call, fmt) = ap + (IF Takes(call.format[fmt]) THEN 1 ELSE 0)
  BY <1>2, ArgumentsToIs DEF PrintkInv
<1>5. call.format[fmt].kind \in kinds
  BY DEF AtItem
<1>6. Takes(call.format[fmt]) => Argument = call.values[ArgumentsTo(call, fmt)]
  BY <1>4 DEF Argument
<1>7. ASSUME call.format[fmt].kind \in {"x", "d", "u", "p"}
      PROVE  Unsigned = Argument % Modulus /\ Unsigned \in 0 .. Modulus - 1
  <2>1. Takes(call.format[fmt])
    BY <1>7 DEF Takes
  <2>2. call.values[ArgumentsTo(call, fmt)] \in Int
    BY <1>1, <1>2, <1>3, <1>7, CallAssumption
  <2>3. Argument \in Int
    BY <1>6, <2>1, <2>2
  <2>4. Modulus \in Nat \ {0}
    BY Bases
  <2> QED
    BY <2>3, <2>4 DEF Unsigned
<1> QED
  BY <1>2, <1>3, <1>4, <1>5, <1>6, <1>7

(* A turn that prints s, if that is right for the item.                    *)
LEMMA TurnInv ==
  ASSUME PrintkInv, NEW kinds, AtItem(kinds), NEW s,
         out' = Append(out, s),
         ap' = ap + (IF Takes(call.format[fmt]) THEN 1 ELSE 0),
         Renders(s, call.format[fmt], call.values[ArgumentsTo(call, fmt)])
  PROVE  PrintkInv'
<1>1. /\ fmt \in 1 .. Len(call.format) /\ fmt \in Nat /\ Len(call.format) \in Nat
      /\ fmt - 1 \in Nat /\ (fmt - 1) + 1 = fmt
      /\ ArgumentsTo(call, fmt) = ap'
  <2>1. /\ fmt \in DOMAIN call.format /\ fmt \in Nat
        /\ ArgumentsTo(call, fmt) = ap'
    BY AtItemIs
  <2> DEFINE S == {call.format[k] : k \in DOMAIN call.format}
  <2>2. call.format \in Seq(S)
    BY CallAssumption DEF PrintkInv
  <2> HIDE DEF S
  <2>3. DOMAIN call.format = 1 .. Len(call.format) /\ Len(call.format) \in Nat
    BY <2>2
  <2> QED
    BY <2>1, <2>3
<1>2. fmt' = fmt + 1 /\ call' = call /\ returned' = returned /\ ~ returned /\ fmt' - 1 = fmt
  BY <1>1 DEF AtItem
<1>3. Done(call, Append(out, s), fmt)
  <2>1. Done(call, out, fmt - 1)
    BY DEF PrintkInv
  <2> QED
    BY <1>1, <2>1, DoneMore
<1>4. call' \in Call /\ fmt' \in 1 .. Len(call'.format) + 1
  BY <1>1, <1>2 DEF PrintkInv
<1>5. ap' = ArgumentsTo(call', fmt' - 1)
  BY <1>1, <1>2
<1>6. Done(call', out', fmt' - 1)
  BY <1>2, <1>3
<1>7. returned' \in BOOLEAN /\ ~ returned'
  BY <1>2 DEF PrintkInv
<1> QED
  BY <1>4, <1>5, <1>6, <1>7 DEF PrintkInv

LEMMA PrintkInit == PrintkStart => PrintkInv
<1> SUFFICES ASSUME PrintkStart PROVE PrintkInv
  OBVIOUS
<1>1. call \in Call /\ fmt = 1 /\ ap = 0 /\ returned = FALSE /\ out = <<>> /\ fmt - 1 = 0
  BY DEF PrintkStart
<1>2. fmt \in 1 .. Len(call.format) + 1
  <2> DEFINE S == {call.format[k] : k \in DOMAIN call.format}
  <2>1. call.format \in Seq(S)
    BY <1>1, CallAssumption
  <2> HIDE DEF S
  <2>2. Len(call.format) \in Nat
    BY <2>1
  <2> QED
    BY <1>1, <2>2
<1>3. ap = ArgumentsTo(call, fmt - 1)
  BY <1>1, ArgumentsToIs
<1>4. Done(call, out, fmt - 1)
  <2>1. <<>> \in Seq({<<>>[k] : k \in DOMAIN <<>>}) /\ Len(<<>>) = 0
    OBVIOUS
  <2> QED
    BY <1>1, <2>1 DEF Done
<1> QED
  BY <1>1, <1>2, <1>3, <1>4 DEF PrintkInv

LEMMA PrintkStep == PrintkInv /\ [PrintkNext]_printkVars => PrintkInv'
<1> SUFFICES ASSUME PrintkInv, [PrintkNext]_printkVars PROVE PrintkInv'
  OBVIOUS
<1> DEFINE item == call.format[fmt]
           value == call.values[ArgumentsTo(call, fmt)]
<1>1. CASE Plain
  <2>1. AtItem({"char"}) /\ out' = Append(out, <<item>>) /\ ap' = ap
    BY <1>1 DEF Plain
  <2>2. item.kind = "char"
    BY <2>1 DEF AtItem
  <2>3. ~ Takes(item) /\ Renders(<<item>>, item, value)
    BY <2>2 DEF Takes, Renders
  <2>4. ap \in Nat
    BY <2>1, AtItemIs
  <2> QED
    BY <2>1, <2>3, <2>4, TurnInv
<1>2. CASE Hexadecimal
  <2> DEFINE s == kputhex(Unsigned, FALSE, FALSE)
  <2>1. AtItem({"x"}) /\ out' = Append(out, s) /\ ap' = ap + 1
    BY <1>2 DEF Hexadecimal, Prints
  <2>2. item.kind = "x"
    BY <2>1 DEF AtItem
  <2>3. Takes(item)
    BY <2>2 DEF Takes
  <2>4. Unsigned = value % Modulus /\ Unsigned \in 0 .. Modulus - 1
    BY <2>1, <2>2, <2>3, AtItemIs
  <2>5. Numeral(s, value % Modulus, HEX)
    BY <2>4, HexNumeral
  <2> HIDE DEF s
  <2>6. Renders(s, item, value)
    BY <2>2, <2>5 DEF Renders
  <2> QED
    BY <2>1, <2>3, <2>6, TurnInv
<1>3. CASE PointerDigits
  <2> DEFINE s == kputhex(Unsigned, TRUE, TRUE)
  <2>1. AtItem({"p"}) /\ out' = Append(out, s) /\ ap' = ap + 1
    BY <1>3 DEF PointerDigits, Prints, PointerLeading
  <2>2. item.kind = "p"
    BY <2>1 DEF AtItem
  <2>3. Takes(item)
    BY <2>2 DEF Takes
  <2>4. Unsigned = value % Modulus /\ Unsigned \in 0 .. Modulus - 1
    BY <2>1, <2>2, <2>3, AtItemIs
  <2>5. Grouped(s, value % Modulus)
    BY <2>4, HexGrouped
  <2> HIDE DEF s
  <2>6. Renders(s, item, value)
    BY <2>2, <2>5 DEF Renders
  <2> QED
    BY <2>1, <2>3, <2>6, TurnInv
<1>4. CASE Decimal
  <2> DEFINE s == kputdec(Unsigned)
  <2>1. AtItem({"d", "u"}) /\ out' = Append(out, s) /\ ap' = ap + 1
    BY <1>4 DEF Decimal, Prints
  <2>2. item.kind \in {"d", "u"}
    BY <2>1 DEF AtItem
  <2>3. Takes(item)
    BY <2>2 DEF Takes
  <2>4. Unsigned = value % Modulus /\ Unsigned \in 0 .. Modulus - 1
    BY <2>1, <2>2, <2>3, AtItemIs
  <2>5. IF value % Modulus = 0 THEN s = <<Digit(0, FALSE)>>
        ELSE Numeral(s, value % Modulus, DEC)
    BY <2>4, DecimalNumeral
  <2> HIDE DEF s
  <2>6. Renders(s, item, value)
    BY <2>2, <2>5 DEF Renders
  <2> QED
    BY <2>1, <2>3, <2>6, TurnInv
<1>5. CASE Character
  <2> DEFINE s == <<Item("char", Argument)>>
  <2>1. AtItem({"c"}) /\ out' = Append(out, s) /\ ap' = ap + 1
    BY <1>5 DEF Character, Prints
  <2>2. item.kind = "c"
    BY <2>1 DEF AtItem
  <2>3. Takes(item)
    BY <2>2 DEF Takes
  <2>4. Argument = value
    BY <2>1, <2>3, AtItemIs
  <2>5. Renders(s, item, value)
    BY <2>2, <2>4 DEF Renders
  <2> HIDE DEF s
  <2> QED
    BY <2>1, <2>3, <2>5, TurnInv
<1>6. CASE String
  <2>1. AtItem({"s"}) /\ out' = Append(out, Argument) /\ ap' = ap + 1
    BY <1>6 DEF String, Prints
  <2>2. item.kind = "s"
    BY <2>1 DEF AtItem
  <2>3. Takes(item)
    BY <2>2 DEF Takes
  <2>4. Argument = value
    BY <2>1, <2>3, AtItemIs
  <2>5. Renders(Argument, item, value)
    BY <2>2, <2>4 DEF Renders
  <2> QED
    BY <2>1, <2>3, <2>5, TurnInv
<1>7. CASE Unknown
  <2>1. AtItem({"other"}) /\ out' = Append(out, <<>>) /\ ap' = ap
    BY <1>7 DEF Unknown
  <2>2. item.kind = "other"
    BY <2>1 DEF AtItem
  <2>3. ~ Takes(item) /\ Renders(<<>>, item, value)
    BY <2>2 DEF Takes, Renders
  <2>4. ap \in Nat
    BY <2>1, AtItemIs
  <2> QED
    BY <2>1, <2>3, <2>4, TurnInv
<1>8. CASE Return
  <2>1. /\ UNCHANGED <<call, fmt, ap, out>> /\ returned' = TRUE
        /\ fmt <= Len(call.format) => call.format[fmt].kind = "end"
    BY <1>8 DEF Return
  <2> DEFINE S == {call.format[k] : k \in DOMAIN call.format}
  <2>2. call.format \in Seq(S)
    BY CallAssumption DEF PrintkInv
  <2> HIDE DEF S
  <2>3. Len(call.format) \in Nat
    BY <2>2
  <2>4. fmt = Len(call.format) + 1 \/ call.format[fmt].kind = "end"
    BY <2>1, <2>3 DEF PrintkInv
  <2> QED
    BY <2>1, <2>4 DEF PrintkInv
<1>9. CASE UNCHANGED printkVars
  BY <1>9 DEF PrintkInv, printkVars
<1> QED
  BY <1>1, <1>2, <1>3, <1>4, <1>5, <1>6, <1>7, <1>8, <1>9 DEF PrintkNext

LEMMA PrintkInvIs == PrintkSpec => []PrintkInv
BY PrintkInit, PrintkStep, PTL DEF PrintkSpec

-----------------------------------------------------------------------------
LEMMA InvPrints == PrintkInv => PrintsExpected
<1> SUFFICES ASSUME PrintkInv PROVE PrintsExpected
  OBVIOUS
<1> DEFINE S == {call.format[k] : k \in DOMAIN call.format}
           R == {out[k] : k \in DOMAIN out}
<1>1. call \in Call /\ call.format \in Seq(S)
  BY CallAssumption DEF PrintkInv
<1>2. out \in Seq(R) /\ Len(out) = fmt - 1
  BY DEF PrintkInv, Done
<1> HIDE DEF S, R
<1>3. /\ DOMAIN call.format = 1 .. Len(call.format) /\ Len(call.format) \in Nat
      /\ DOMAIN out = 1 .. fmt - 1 /\ fmt \in 1 .. Len(call.format) + 1
  BY <1>1, <1>2 DEF PrintkInv
<1>4. \A k \in DOMAIN out : Renders(out[k], call.format[k], call.values[ArgumentsTo(call, k)])
  BY <1>3 DEF PrintkInv, Done
<1>5. ASSUME returned, NEW k \in DOMAIN call.format
      PROVE  k \in DOMAIN out \/ call.format[k].kind = "end"
  <2>1. CASE fmt = Len(call.format) + 1
    BY <1>3, <2>1
  <2>2. CASE fmt # Len(call.format) + 1
    <3>1. fmt \in DOMAIN call.format /\ call.format[fmt].kind = "end"
      BY <1>3, <1>5, <2>2 DEF PrintkInv
    <3>2. fmt = Len(call.format)
      BY <1>1, <3>1, CallAssumption
    <3>3. k = fmt \/ k \in 1 .. fmt - 1
      BY <1>3, <3>2
    <3> QED
      BY <1>3, <3>1, <3>3
  <2> QED
    BY <2>1, <2>2
<1> QED
  BY <1>4, <1>5 DEF PrintsExpected

(* What printk has sent for each item of its format is what that item and  *)
(* its own argument stand for, whatever the bases, the width of an integer *)
(* and the calls.                                                          *)
THEOREM PrintsCorrect == PrintkSpec => []PrintsExpected
BY PrintkInvIs, InvPrints, PTL

LEMMA InvBuffer == PrintkInv => BufferInBounds
<1> SUFFICES ASSUME PrintkInv, ~ returned, fmt <= Len(call.format),
                    call.format[fmt].kind \in {"d", "u"}
             PROVE  Filled(Unsigned) \subseteq 0 .. BUF - 1
  BY DEF BufferInBounds
<1> DEFINE S == {call.format[k] : k \in DOMAIN call.format}
<1>1. call \in Call /\ call.format \in Seq(S)
  BY CallAssumption DEF PrintkInv
<1> HIDE DEF S
<1>2. fmt \in DOMAIN call.format /\ fmt - 1 \in Nat /\ (fmt - 1) + 1 = fmt
  BY <1>1 DEF PrintkInv
<1>3. Takes(call.format[fmt])
  BY DEF Takes
<1>4. ap + 1 = ArgumentsTo(call, fmt)
  BY <1>2, <1>3, ArgumentsToIs DEF PrintkInv
<1>5. Argument \in Int
  <2>1. call.values[ArgumentsTo(call, fmt)] \in Int
    BY <1>1, <1>2, CallAssumption
  <2> QED
    BY <1>4, <2>1 DEF Argument
<1>6. Unsigned \in 0 .. Modulus - 1
  <2>1. Modulus \in Nat \ {0}
    BY Bases
  <2> QED
    BY <1>5, <2>1 DEF Unsigned
<1> QED
  BY <1>6, BufferDigits

(* kputdec stays in its buffer, because no number of an integer has more   *)
(* digits in DEC than the buffer.                                          *)
THEOREM BufferCorrect == PrintkSpec => []BufferInBounds
BY PrintkInvIs, InvBuffer, PTL
=============================================================================

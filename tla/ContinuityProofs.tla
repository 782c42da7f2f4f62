-------------------------- MODULE ContinuityProofs --------------------------
(***************************************************************************)
(* Proofs about module Continuity, for any number of machines, any clocks, *)
(* any price curve and any interleaving of processes, faults and copies.   *)
(***************************************************************************)
EXTENDS Continuity, ProofLemmas, TLAPS

-----------------------------------------------------------------------------
(* Prices.                                                                 *)

\* A share o / b of a is no more than a.
LEMMA ShareBounded ==
  ASSUME NEW a \in Nat, NEW b \in Nat, b > 0, NEW o \in 0..b
  PROVE  (a * o) \div b \in Nat /\ (a * o) \div b <= a
<1> DEFINE x == a * o
           q == x \div b
           r == x % b
<1>1. x \in Nat /\ x <= a * b
  <2>1. o \in Nat /\ b - o \in Nat
    OBVIOUS
  <2>2. a * (b - o) \in Nat /\ a * o \in Nat
    BY <2>1
  <2>3. a * (b - o) = a * b - a * o
    BY <2>1
  <2> QED
    BY <2>2, <2>3
<1>2. q \in Int /\ r \in 0..(b - 1) /\ x = b * q + r
  <2> HIDE DEF x
  <2> QED
    BY <1>1
<1> HIDE DEF x, q, r
<1>3. q >= 0
  <2> SUFFICES ASSUME q <= -1 PROVE FALSE
    BY <1>2
  <2>1. b * (-1 - q) >= 0
    BY <1>2
  <2>2. b * (-1 - q) = -b - b * q
    BY <1>2
  <2> QED
    BY <1>1, <1>2, <2>1, <2>2
<1>4. q <= a
  <2> SUFFICES ASSUME q >= a + 1 PROVE FALSE
    BY <1>2
  <2>1. b * (q - a - 1) >= 0
    BY <1>2
  <2>2. b * (q - a - 1) = b * q - a * b - b
    BY <1>2
  <2> QED
    BY <1>1, <1>2, <2>1, <2>2
<1> QED
  BY <1>2, <1>3, <1>4 DEF q, x

\* A price is never 0, the value the watcher takes for "none yet".
LEMMA PricePositive ==
  ASSUME NEW s \in Nat
  PROVE  priceAtSlot(s) \in Nat /\ priceAtSlot(s) > 0
<1>0. /\ Curve \in Seq([slot : Nat, price : Nat \ {0}]) /\ Curve # << >>
      /\ \A i \in 1 .. Len(Curve) - 1 : Curve[i].slot < Curve[i + 1].slot
  BY ContinuityAssumption
<1>1. Len(Curve) \in Nat /\ Len(Curve) >= 1 /\ DOMAIN Curve = 1..Len(Curve)
  BY <1>0
<1>2. \A i \in 1..Len(Curve) : Curve[i].slot \in Nat /\ Curve[i].price \in Nat /\ Curve[i].price > 0
  <2>1. \A i \in 1..Len(Curve) : Curve[i] \in [slot : Nat, price : Nat \ {0}]
    <3> DEFINE P == [slot : Nat, price : Nat \ {0}]
    <3>1. Curve \in Seq(P)
      BY <1>0
    <3> HIDE DEF P
    <3>2. \A i \in 1..Len(Curve) : Curve[i] \in P
      BY <3>1
    <3> QED
      BY <3>2 DEF P
  <2> QED
    BY <2>1
<1>3. CASE s <= Curve[1].slot \/ s > Curve[Len(Curve)].slot
  <2>1. priceAtSlot(s) \in {Curve[1].price, Curve[Len(Curve)].price}
    BY <1>3 DEF priceAtSlot
  <2>2. 1 \in 1..Len(Curve) /\ Len(Curve) \in 1..Len(Curve)
    BY <1>1
  <2> QED
    BY <1>2, <2>1, <2>2
<1>4. CASE ~ (s <= Curve[1].slot) /\ ~ (s > Curve[Len(Curve)].slot)
  <2> DEFINE T == {j \in DOMAIN Curve : s <= Curve[j].slot}
             i == Min(T)
             prev == Curve[i - 1]
             next == Curve[i]
             span == next.slot - prev.slot
             offset == s - prev.slot
  <2>1. T \in SUBSET Nat /\ Len(Curve) \in T
    BY <1>1, <1>2, <1>4
  <2>2. i \in T /\ \A j \in T : i <= j
    <3>1. PICK n \in T : \A j \in T : n <= j
      <4>1. T # {}
        BY <2>1
      <4> HIDE DEF T
      <4> QED
        BY <2>1, <4>1, LeastNat
    <3> HIDE DEF T
    <3> QED
      BY <3>1 DEF Min
  <2>3. i \in 1..Len(Curve) /\ s <= Curve[i].slot /\ i # 1
    BY <1>1, <1>4, <2>2
  <2>4. i - 1 \in 1..(Len(Curve) - 1) /\ i - 1 \in 1..Len(Curve) /\ i - 1 \notin T
        /\ (i - 1) + 1 = i
    <3> HIDE DEF i
    <3>1. i - 1 \notin T
      BY <1>1, <2>2, <2>3
    <3> QED
      BY <1>1, <2>3, <3>1
  <2>5. prev.slot < next.slot
    <3>1. Curve[i - 1].slot < Curve[(i - 1) + 1].slot
      BY <1>0, <2>4
    <3> QED
      BY <2>4, <3>1
  <2>6. /\ next.slot \in Nat /\ next.price \in Nat /\ next.price > 0
        /\ prev.slot \in Nat /\ prev.price \in Nat /\ prev.price > 0
        /\ prev.slot < s /\ s <= next.slot
    BY <1>1, <1>2, <2>3, <2>4
  <2>7. priceAtSlot(s) = IF next.price >= prev.price
                         THEN prev.price + ((next.price - prev.price) * offset) \div span
                         ELSE prev.price - ((prev.price - next.price) * offset) \div span
    BY <1>4 DEF priceAtSlot
  <2> HIDE DEF T, i, prev, next
  <2>8. span \in Nat /\ span > 0 /\ offset \in 0..span
    BY <2>5, <2>6
  <2> HIDE DEF span, offset
  <2>9. CASE next.price >= prev.price
    <3> DEFINE d == next.price - prev.price
    <3>1. d \in Nat
      BY <2>6, <2>9
    <3> HIDE DEF d
    <3>2. (d * offset) \div span \in Nat
      BY <2>8, <3>1, ShareBounded
    <3>3. priceAtSlot(s) = prev.price + (d * offset) \div span
      BY <2>7, <2>9 DEF d
    <3> QED
      BY <2>6, <3>2, <3>3
  <2>10. CASE ~ (next.price >= prev.price)
    <3> DEFINE d == prev.price - next.price
    <3>1. d \in Nat /\ d < prev.price
      BY <2>6, <2>10
    <3>2. priceAtSlot(s) = prev.price - (d * offset) \div span
      BY <2>7, <2>10
    <3> HIDE DEF d
    <3>3. (d * offset) \div span \in Nat /\ (d * offset) \div span <= d
      BY <2>8, <3>1, ShareBounded
    <3> QED
      BY <2>6, <3>1, <3>2, <3>3
  <2> QED
    BY <2>9, <2>10
<1> QED
  BY <1>3, <1>4

-----------------------------------------------------------------------------
(* What a watcher knows.                                                   *)

Watcher == [ticks : 0..2, birth : Nat, last : Nat, latest : Nat, high : Nat, low : Nat,
            warn : Nat, seen : Nat]

\* The extremes and the first breach that a holds are those of slots 0 to w.
Knows(a, w) ==
  /\ \E s \in 0..w : a.high = priceAtSlot(s)
  /\ \E s \in 0..w : a.low = priceAtSlot(s)
  /\ \A s \in 0..w : a.low <= priceAtSlot(s) /\ priceAtSlot(s) <= a.high
  /\ \/ a.warn = 0 /\ \A s \in 1..w : ~ (priceAtSlot(s) < Threshold)
     \/ /\ a.warn \in 1..w /\ priceAtSlot(a.warn) < Threshold
        /\ \A s \in 1..w : priceAtSlot(s) < Threshold => a.warn <= s

\* The inductive form of NothingMissed for one watcher. The bound keeps a
\* clock that is behind the birth from passing for a slot within reach.
Sound(a) ==
  /\ a \in Watcher
  /\ a.ticks = 0 => a = NewWatcher
  /\ a.ticks > 0 => /\ a.birth > 0 /\ 2 * (a.birth + a.seen) + MaxGap < Word
                    /\ a.last <= a.seen /\ a.latest = priceAtSlot(a.last) /\ Knows(a, a.seen)

LEMMA ProcessFields ==
  ASSUME NEW a \in Watcher, NEW s \in Nat
  PROVE  LET p == processSlot(a, s)
             price == priceAtSlot(s)
         IN /\ p \in Watcher /\ p.ticks = a.ticks /\ p.birth = a.birth /\ p.last = a.last
            /\ p.seen = a.seen /\ p.latest = price
            /\ p.high = (IF a.high = 0 \/ price > a.high THEN price ELSE a.high)
            /\ p.low = (IF a.low = 0 \/ price < a.low THEN price ELSE a.low)
            /\ p.warn = (IF a.warn = 0 /\ price < Threshold THEN s ELSE a.warn)
<1> DEFINE price == priceAtSlot(s)
           h == IF a.high = 0 \/ price > a.high THEN price ELSE a.high
           l == IF a.low = 0 \/ price < a.low THEN price ELSE a.low
           w == IF a.warn = 0 /\ price < Threshold THEN s ELSE a.warn
           p1 == [a EXCEPT !.latest = price]
           p2 == [p1 EXCEPT !.high = h]
           p3 == [p2 EXCEPT !.low = l]
           p4 == [p3 EXCEPT !.warn = w]
<1>0. price \in Nat /\ h \in Nat /\ l \in Nat /\ w \in Nat
  BY PricePositive DEF Watcher
<1>1. processSlot(a, s) = [a EXCEPT !.latest = price, !.high = h, !.low = l, !.warn = w]
  BY DEF processSlot
<1> HIDE DEF price, h, l, w
<1>2. /\ p1 \in Watcher /\ p1.ticks = a.ticks /\ p1.birth = a.birth /\ p1.last = a.last
      /\ p1.seen = a.seen /\ p1.latest = price
  BY <1>0 DEF Watcher
<1>3. processSlot(a, s) = [p1 EXCEPT !.high = h, !.low = l, !.warn = w]
  BY <1>1 DEF Watcher
<1> HIDE DEF p1
<1>4. /\ p2 \in Watcher /\ p2.ticks = a.ticks /\ p2.birth = a.birth /\ p2.last = a.last
      /\ p2.seen = a.seen /\ p2.latest = price /\ p2.high = h
  BY <1>0, <1>2 DEF Watcher
<1>5. processSlot(a, s) = [p2 EXCEPT !.low = l, !.warn = w]
  BY <1>2, <1>3 DEF Watcher
<1> HIDE DEF p2
<1>6. /\ p3 \in Watcher /\ p3.ticks = a.ticks /\ p3.birth = a.birth /\ p3.last = a.last
      /\ p3.seen = a.seen /\ p3.latest = price /\ p3.high = h /\ p3.low = l
  BY <1>0, <1>4 DEF Watcher
<1>7. processSlot(a, s) = p4
  BY <1>4, <1>5 DEF Watcher
<1> HIDE DEF p3
<1>8. /\ p4 \in Watcher /\ p4.ticks = a.ticks /\ p4.birth = a.birth /\ p4.last = a.last
      /\ p4.seen = a.seen /\ p4.latest = price /\ p4.high = h /\ p4.low = l /\ p4.warn = w
  BY <1>0, <1>6 DEF Watcher
<1> HIDE DEF p4
<1> QED
  BY <1>7, <1>8 DEF price, h, l, w

\* Processing a slot that is known, or the one after, widens what is known to
\* that slot and forgets nothing.
LEMMA ProcessKnows ==
  ASSUME NEW a \in Watcher, NEW w \in Nat, Knows(a, w), NEW s \in 0..(w + 1),
         NEW v \in Nat, v = IF s = w + 1 THEN s ELSE w
  PROVE  Knows(processSlot(a, s), v)
<1> DEFINE p == processSlot(a, s)
           price == priceAtSlot(s)
<1>1. /\ p \in Watcher
      /\ p.high = (IF a.high = 0 \/ price > a.high THEN price ELSE a.high)
      /\ p.low = (IF a.low = 0 \/ price < a.low THEN price ELSE a.low)
      /\ p.warn = (IF a.warn = 0 /\ price < Threshold THEN s ELSE a.warn)
  BY ProcessFields
<1>2. /\ a.high \in Nat /\ a.low \in Nat /\ a.warn \in Nat /\ Threshold \in Nat
  BY ContinuityAssumption DEF Watcher
<1>3. \A u \in Nat : priceAtSlot(u) \in Nat /\ priceAtSlot(u) > 0
  BY PricePositive
<1>4. a.high > 0 /\ a.low > 0
  BY <1>3 DEF Knows
<1>5. s \in 0..v /\ \A u \in 0..w : u \in 0..v
  OBVIOUS
<1>6. \A u \in 0..v : u = s \/ u \in 0..w
  OBVIOUS
<1>7. \A u \in 1..v : u = s \/ u \in 1..w
  OBVIOUS
<1> HIDE DEF p
<1>8. \E u \in 0..v : p.high = priceAtSlot(u)
  <2>1. CASE price > a.high
    BY <1>1, <1>5, <2>1
  <2>2. CASE ~ (price > a.high)
    <3>1. PICK u \in 0..w : a.high = priceAtSlot(u)
      BY DEF Knows
    <3>2. u \in 0..v /\ p.high = priceAtSlot(u)
      BY <1>1, <1>4, <1>5, <2>2, <3>1
    <3> QED
      BY <3>2
  <2> QED
    BY <2>1, <2>2
<1>9. \E u \in 0..v : p.low = priceAtSlot(u)
  <2>1. CASE price < a.low
    BY <1>1, <1>5, <2>1
  <2>2. CASE ~ (price < a.low)
    <3>1. PICK u \in 0..w : a.low = priceAtSlot(u)
      BY DEF Knows
    <3>2. u \in 0..v /\ p.low = priceAtSlot(u)
      BY <1>1, <1>4, <1>5, <2>2, <3>1
    <3> QED
      BY <3>2
  <2> QED
    BY <2>1, <2>2
<1>10. ASSUME NEW u \in 0..v PROVE p.low <= priceAtSlot(u) /\ priceAtSlot(u) <= p.high
  <2>1. price \in Nat /\ priceAtSlot(u) \in Nat
    BY <1>3
  <2>2. p.low <= price /\ price <= p.high /\ p.low <= a.low /\ a.high <= p.high
    BY <1>1, <1>2, <1>4, <2>1
  <2>3. CASE u = s
    BY <2>2, <2>3
  <2>4. CASE u \in 0..w
    <3>1. a.low <= priceAtSlot(u) /\ priceAtSlot(u) <= a.high
      BY <2>4 DEF Knows
    <3>2. p.low \in Nat /\ p.high \in Nat
      BY <1>1 DEF Watcher
    <3> QED
      BY <1>2, <2>1, <2>2, <3>1, <3>2
  <2> QED
    BY <1>6, <2>3, <2>4
<1>11. \/ p.warn = 0 /\ \A u \in 1..v : ~ (priceAtSlot(u) < Threshold)
       \/ /\ p.warn \in 1..v /\ priceAtSlot(p.warn) < Threshold
          /\ \A u \in 1..v : priceAtSlot(u) < Threshold => p.warn <= u
  <2>1. CASE a.warn = 0 /\ \A u \in 1..w : ~ (priceAtSlot(u) < Threshold)
    <3>1. CASE price < Threshold /\ s # 0
      <4>1. p.warn = s /\ s \in 1..v
        BY <1>1, <2>1, <3>1
      <4>2. \A u \in 1..v : priceAtSlot(u) < Threshold => u = s
        BY <1>7, <2>1
      <4> QED
        BY <3>1, <4>1, <4>2
    <3>2. CASE ~ (price < Threshold) \/ s = 0
      <4>1. p.warn = 0
        BY <1>1, <2>1, <3>2
      <4>2. \A u \in 1..v : ~ (priceAtSlot(u) < Threshold)
        BY <1>7, <2>1, <3>2
      <4> QED
        BY <4>1, <4>2
    <3> QED
      BY <3>1, <3>2
  <2>2. CASE /\ a.warn \in 1..w /\ priceAtSlot(a.warn) < Threshold
             /\ \A u \in 1..w : priceAtSlot(u) < Threshold => a.warn <= u
    <3>1. p.warn = a.warn /\ a.warn \in 1..v
      BY <1>1, <2>2
    <3>2. ASSUME NEW u \in 1..v, priceAtSlot(u) < Threshold PROVE a.warn <= u
      <4>1. CASE u \in 1..w
        BY <2>2, <3>2, <4>1
      <4>2. CASE u \notin 1..w
        BY <2>2, <4>2
      <4> QED
        BY <4>1, <4>2
    <3> QED
      BY <2>2, <3>1, <3>2
  <2> QED
    BY <2>1, <2>2 DEF Knows
<1> QED
  BY <1>8, <1>9, <1>10, <1>11 DEF Knows, p

\* The recursion of CatchUp has a solution, by induction on its last slot.
LEMMA CatchUpExists ==
  ASSUME NEW a \in Watcher, NEW k \in Nat, k >= a.last
  PROVE  \E f \in [a.last..k -> Watcher] :
           f[a.last] = a /\ \A s \in (a.last + 1)..k : f[s] = processSlot(f[s - 1], s)
<1> DEFINE Solves(f, n) == /\ f \in [a.last..n -> Watcher] /\ f[a.last] = a
                           /\ \A s \in (a.last + 1)..n : f[s] = processSlot(f[s - 1], s)
           Bad == {n \in Nat : n >= a.last /\ ~\E f : Solves(f, n)}
<1>0. a.last \in Nat
  BY DEF Watcher
<1>1. ASSUME Bad # {} PROVE FALSE
  <2>1. PICK n \in Bad : \A m \in Bad : n <= m
    <3>1. Bad \in SUBSET Nat
      OBVIOUS
    <3> HIDE DEF Bad
    <3> QED
      BY <1>1, <3>1, LeastNat
  <2>2. Solves([s \in a.last..a.last |-> a], a.last)
    BY <1>0
  <2>3. n # a.last
    BY <2>1, <2>2
  <2>4. n \in Nat /\ n > a.last /\ n - 1 \in Nat /\ n - 1 >= a.last
    BY <1>0, <2>1, <2>3
  <2>5. n - 1 \notin Bad
    <3> HIDE DEF Bad
    <3> QED
      BY <2>1, <2>4
  <2>6. PICK f : Solves(f, n - 1)
    BY <2>4, <2>5
  <2> DEFINE e == processSlot(f[n - 1], n)
             g == [s \in a.last..n |-> IF s = n THEN e ELSE f[s]]
  <2>7. f[n - 1] \in Watcher
    BY <1>0, <2>4, <2>6
  <2>8. e \in Watcher
    BY <2>4, <2>7, ProcessFields
  <2> HIDE DEF e
  <2>9. g \in [a.last..n -> Watcher] /\ g[a.last] = a
    BY <1>0, <2>4, <2>6, <2>8
  <2>10. ASSUME NEW s \in (a.last + 1)..n PROVE g[s] = processSlot(g[s - 1], s)
    <3>0. s \in a.last..n /\ s - 1 \in a.last..n /\ s - 1 # n
      BY <1>0, <2>4
    <3>1. CASE s = n
      <4>1. g[s] = e /\ g[s - 1] = f[n - 1]
        BY <3>0, <3>1
      <4> QED
        BY <3>1, <4>1 DEF e
    <3>2. CASE s # n
      <4>1. s \in (a.last + 1)..(n - 1)
        BY <1>0, <2>4, <3>2
      <4>2. g[s] = f[s] /\ g[s - 1] = f[s - 1]
        BY <3>0, <3>2
      <4> HIDE DEF g
      <4> QED
        BY <2>6, <4>1, <4>2
    <3> QED
      BY <3>1, <3>2
  <2>11. Solves(g, n)
    <3> HIDE DEF g
    <3> QED
      BY <2>9, <2>10
  <2> QED
    BY <2>1, <2>11
<1> QED
  BY <1>1

\* Catching up leaves no hole: every slot of the gap is known afterwards.
LEMMA CatchUpKnows ==
  ASSUME NEW a \in Watcher, NEW slot \in Nat, slot > a.last + 1,
         Knows(a, a.seen), a.last <= a.seen,
         NEW v \in Nat, v = IF slot - 1 > a.seen THEN slot - 1 ELSE a.seen
  PROVE  LET c == CatchUp(a, slot)
         IN /\ c \in Watcher /\ c.ticks = a.ticks /\ c.birth = a.birth /\ c.last = a.last
            /\ c.seen = a.seen /\ Knows(c, v)
<1>0. a.last \in Nat /\ a.seen \in Nat /\ slot - 1 \in Nat /\ slot - 1 >= a.last
  BY DEF Watcher
<1> DEFINE k == slot - 1
           Rec(h) == h = [s \in a.last..k |-> IF s = a.last THEN a ELSE processSlot(h[s - 1], s)]
           f == CHOOSE h : Rec(h)
           Window(s) == IF s > a.seen THEN s ELSE a.seen
           Good(s) == /\ f[s] \in Watcher /\ f[s].ticks = a.ticks /\ f[s].birth = a.birth
                      /\ f[s].last = a.last /\ f[s].seen = a.seen /\ Knows(f[s], Window(s))
           Bad == {s \in a.last..k : ~Good(s)}
<1>1. CatchUp(a, slot) = f[k]
  BY DEF CatchUp
<1>2. \E h : Rec(h)
  <2>1. PICK h \in [a.last..k -> Watcher] :
          h[a.last] = a /\ \A s \in (a.last + 1)..k : h[s] = processSlot(h[s - 1], s)
    BY <1>0, CatchUpExists
  <2>2. \A s \in a.last..k : s = a.last \/ s \in (a.last + 1)..k
    BY <1>0
  <2>3. Rec(h)
    BY <2>1, <2>2
  <2> QED
    BY <2>3
<1>3. Rec(f)
  BY <1>2
<1>4. k \in Nat /\ k >= a.last
  BY <1>0
<1> HIDE DEF f, k
<1>5. f[a.last] = a /\ \A s \in (a.last + 1)..k : f[s] = processSlot(f[s - 1], s)
  BY <1>0, <1>3, <1>4
<1>6. Good(a.last)
  BY <1>0, <1>5
<1>7. ASSUME Bad # {} PROVE FALSE
  <2>1. PICK s \in Bad : \A t \in Bad : s <= t
    <3>1. Bad \in SUBSET Nat
      BY <1>0, <1>4
    <3> HIDE DEF Bad
    <3> QED
      BY <1>7, <3>1, LeastNat
  <2>2. s \in a.last..k /\ s # a.last
    BY <1>6, <2>1
  <2>3. s \in Nat /\ s \in (a.last + 1)..k /\ s - 1 \in a.last..k /\ s - 1 < s
    BY <1>0, <1>4, <2>2
  <2>4. s - 1 \notin Bad
    <3> HIDE DEF Bad
    <3> QED
      BY <2>1, <2>3
  <2>5. Good(s - 1)
    BY <2>3, <2>4
  <2> DEFINE b == f[s - 1]
             w == Window(s - 1)
             v1 == Window(s)
  <2>6. b \in Watcher /\ Knows(b, w) /\ f[s] = processSlot(b, s)
    BY <1>5, <2>3, <2>5
  <2>7. w \in Nat /\ v1 \in Nat /\ s \in 0..(w + 1) /\ v1 = IF s = w + 1 THEN s ELSE w
    BY <1>0, <2>3
  <2>8. /\ b.ticks = a.ticks /\ b.birth = a.birth /\ b.last = a.last /\ b.seen = a.seen
    BY <2>5
  <2> HIDE DEF b, w, v1
  <2>9. Knows(f[s], v1)
    BY <2>6, <2>7, ProcessKnows
  <2>10. /\ f[s] \in Watcher /\ f[s].ticks = b.ticks /\ f[s].birth = b.birth
         /\ f[s].last = b.last /\ f[s].seen = b.seen
    BY <2>3, <2>6, ProcessFields
  <2>11. Good(s)
    BY <2>8, <2>9, <2>10 DEF v1
  <2> QED
    BY <2>1, <2>11
<1>8. Good(k)
  <2>1. k \in a.last..k
    BY <1>0, <1>4
  <2> QED
    BY <1>7, <2>1
<1>9. Window(k) = v
  BY DEF k
<1> QED
  BY <1>1, <1>8, <1>9

LEMMA BornFields ==
  ASSUME NEW a \in Watcher, NEW clock \in Nat
  PROVE  LET b == Born(a, clock)
         IN /\ b \in Watcher /\ b.last = a.last /\ b.latest = a.latest /\ b.high = a.high
            /\ b.low = a.low /\ b.warn = a.warn /\ b.seen = a.seen
            /\ b.ticks = (IF a.ticks < 2 THEN a.ticks + 1 ELSE a.ticks)
            /\ b.birth = (IF a.birth = 0 THEN clock ELSE a.birth)
<1> DEFINE t == IF a.ticks < 2 THEN a.ticks + 1 ELSE a.ticks
           n == IF a.birth = 0 THEN clock ELSE a.birth
           p1 == [a EXCEPT !.ticks = t]
           p2 == [p1 EXCEPT !.birth = n]
<1>0. t \in 0..2 /\ n \in Nat
  BY DEF Watcher
<1>1. Born(a, clock) = [a EXCEPT !.ticks = t, !.birth = n]
  BY DEF Born
<1> HIDE DEF t, n
<1>2. /\ p1 \in Watcher /\ p1.last = a.last /\ p1.latest = a.latest /\ p1.high = a.high
      /\ p1.low = a.low /\ p1.warn = a.warn /\ p1.seen = a.seen /\ p1.ticks = t
  BY <1>0 DEF Watcher
<1>3. Born(a, clock) = p2
  BY <1>1 DEF Watcher
<1> HIDE DEF p1
<1>4. /\ p2 \in Watcher /\ p2.last = a.last /\ p2.latest = a.latest /\ p2.high = a.high
      /\ p2.low = a.low /\ p2.warn = a.warn /\ p2.seen = a.seen /\ p2.ticks = t /\ p2.birth = n
  BY <1>0, <1>2 DEF Watcher
<1> HIDE DEF p2
<1> QED
  BY <1>3, <1>4 DEF t, n

\* Knows only looks at the extremes and the breach.
LEMMA KnowsFields ==
  ASSUME NEW a, NEW b, NEW w, a.high = b.high, a.low = b.low, a.warn = b.warn, Knows(a, w)
  PROVE  Knows(b, w)
BY DEF Knows

\* The wrap of uint64 never puts a slot within reach of a tick: one that fits
\* its timeout has a clock that is not behind the watcher's birth.
LEMMA NoWrap ==
  ASSUME NEW birth \in Nat, NEW last \in Nat, NEW clock \in Nat, clock > 0,
         2 * (birth + last) + MaxGap < Word, 2 * clock + MaxGap < Word,
         ((clock - birth) % Word) - last <= MaxGap
  PROVE  clock >= birth /\ (clock - birth) % Word = clock - birth
<1>0. MaxGap \in Nat /\ Word \in Nat /\ Word > 0
  BY ContinuityAssumption
<1>1. CASE clock >= birth
  <2>1. clock - birth \in 0..(Word - 1)
    BY <1>0, <1>1
  <2> DEFINE d == clock - birth
  <2> HIDE DEF d
  <2>2. d \in 0..(Word - 1) => d % Word = d
    BY <1>0
  <2> QED
    BY <1>1, <2>1, <2>2 DEF d
<1>2. CASE clock < birth
  <2> DEFINE d == clock - birth
  <2>1. d \in Int /\ d < 0 /\ d + Word \in 0..(Word - 1) /\ d + Word - last > MaxGap
    BY <1>0, <1>2
  <2> HIDE DEF d
  <2>2. d % Word = d + Word
    BY <1>0, <2>1
  <2>3. (d % Word) - last <= MaxGap
    BY DEF d
  <2> QED
    BY <1>0, <2>1, <2>2, <2>3
<1> QED
  BY <1>1, <1>2

\* A tick within its timeout keeps the watcher sound, keeps its birth and
\* never takes back what it has seen.
LEMMA TickSound ==
  ASSUME NEW a, Sound(a), NEW clock \in Nat, clock > 0, 2 * clock + MaxGap < Word,
         TickFits(a, clock)
  PROVE  LET n == WatcherTick(a, clock)
         IN /\ Sound(n) /\ n.ticks > 0
            /\ a.ticks > 0 => n.birth = a.birth /\ n.seen >= a.seen
<1> DEFINE b == Born(a, clock)
           slot == CurrentSlot(b, clock)
           n == WatcherTick(a, clock)
<1>0. a \in Watcher /\ a.ticks \in 0..2 /\ a.last \in Nat /\ a.seen \in Nat /\ a.birth \in Nat
      /\ MaxGap \in Nat /\ Word \in Nat
  BY ContinuityAssumption DEF Sound, Watcher
<1>1. /\ b \in Watcher /\ b.last = a.last /\ b.latest = a.latest /\ b.high = a.high
      /\ b.low = a.low /\ b.warn = a.warn /\ b.seen = a.seen
      /\ b.ticks = (IF a.ticks < 2 THEN a.ticks + 1 ELSE a.ticks)
      /\ b.birth = (IF a.birth = 0 THEN clock ELSE a.birth)
  BY <1>0, BornFields
<1>2. n = IF b.ticks = 1 THEN [processSlot(b, 0) EXCEPT !.last = 0]
          ELSE [processSlot(CatchUp(b, slot), slot) EXCEPT
                  !.last = slot, !.seen = Max({@, clock - b.birth})]
  BY DEF WatcherTick
<1>3. b.ticks = 1 \/ slot - b.last <= MaxGap
  BY DEF TickFits
<1>4. slot = (clock - b.birth) % Word
  BY DEF CurrentSlot
<1> HIDE DEF b, slot, n
<1>5. CASE a.ticks = 0
  <2>1. a.birth = 0 /\ a.high = 0 /\ a.low = 0 /\ a.warn = 0 /\ a.seen = 0 /\ a.last = 0
    BY <1>5 DEF Sound, NewWatcher
  <2> DEFINE p == processSlot(b, 0)
             price == priceAtSlot(0)
  <2>2. /\ p \in Watcher /\ p.ticks = 1 /\ p.birth = clock /\ p.last = 0 /\ p.seen = 0
        /\ p.latest = price /\ p.high = price /\ p.low = price /\ p.warn = 0
    <3>1. /\ b \in Watcher /\ b.ticks = 1 /\ b.birth = clock /\ b.last = 0 /\ b.seen = 0
          /\ b.high = 0 /\ b.low = 0 /\ b.warn = 0
      BY <1>1, <1>5, <2>1
    <3>2. /\ p \in Watcher /\ p.ticks = b.ticks /\ p.birth = b.birth /\ p.last = b.last
          /\ p.seen = b.seen /\ p.latest = price
          /\ p.high = (IF b.high = 0 \/ price > b.high THEN price ELSE b.high)
          /\ p.low = (IF b.low = 0 \/ price < b.low THEN price ELSE b.low)
          /\ p.warn = (IF b.warn = 0 /\ price < Threshold THEN 0 ELSE b.warn)
      BY <3>1, ProcessFields
    <3> HIDE DEF p, price
    <3> QED
      BY <3>1, <3>2
  <2>3. n = [p EXCEPT !.last = 0]
    BY <1>1, <1>2, <1>5
  <2> HIDE DEF p
  <2>4. n = p
    BY <2>2, <2>3 DEF Watcher
  <2>5. price \in Nat
    BY PricePositive
  <2>6. Knows(p, 0)
    BY <2>2, <2>5 DEF Knows
  <2>7. 2 * (p.birth + p.seen) + MaxGap < Word
    BY <2>2
  <2>8. Sound(p)
    BY <2>2, <2>6, <2>7 DEF Sound
  <2> QED
    BY <1>5, <2>2, <2>4, <2>8 DEF n
<1>6. CASE a.ticks > 0
  <2>1. /\ a.birth > 0 /\ 2 * (a.birth + a.seen) + MaxGap < Word
        /\ a.last <= a.seen /\ Knows(a, a.seen)
    BY <1>6 DEF Sound
  <2>2. b.ticks = 2 /\ b.birth = a.birth /\ Knows(b, a.seen)
    BY <1>0, <1>1, <1>6, <2>1, KnowsFields
  <2>3. clock >= a.birth /\ slot = clock - a.birth
    <3>1. ((clock - a.birth) % Word) - a.last <= MaxGap
      BY <1>1, <1>3, <1>4, <2>2
    <3>2. 2 * (a.birth + a.last) + MaxGap < Word
      BY <1>0, <2>1
    <3> QED
      BY <1>0, <1>4, <2>2, <3>1, <3>2, NoWrap
  <2>4. slot \in Nat
    BY <1>0, <2>3
  <2> DEFINE c == CatchUp(b, slot)
             w == IF slot > a.last + 1 /\ slot - 1 > a.seen THEN slot - 1 ELSE a.seen
             v == IF slot > a.seen THEN slot ELSE a.seen
  <2>5. w \in Nat /\ v \in Nat /\ slot \in 0..(w + 1) /\ v = IF slot = w + 1 THEN slot ELSE w
    BY <1>0, <2>1, <2>4
  <2>6. /\ c \in Watcher /\ c.ticks = 2 /\ c.birth = a.birth /\ c.last = a.last
        /\ c.seen = a.seen /\ Knows(c, w)
    <3>1. CASE slot > a.last + 1
      <4>1. w = IF slot - 1 > b.seen THEN slot - 1 ELSE b.seen
        BY <1>1, <3>1
      <4>2. slot > b.last + 1 /\ Knows(b, b.seen) /\ b.last <= b.seen
        BY <1>1, <2>1, <2>2, <3>1
      <4> HIDE DEF w
      <4> QED
        BY <1>1, <2>2, <2>4, <2>5, <4>1, <4>2, CatchUpKnows
    <3>2. CASE ~ (slot > a.last + 1)
      <4>1. c = b
        BY <1>1, <3>2 DEF CatchUp
      <4> QED
        BY <1>1, <2>2, <3>2, <4>1
    <3> QED
      BY <3>1, <3>2
  <2> HIDE DEF c, w
  <2> DEFINE p == processSlot(c, slot)
  <2>7. /\ p \in Watcher /\ p.ticks = 2 /\ p.birth = a.birth /\ p.seen = a.seen
        /\ p.latest = priceAtSlot(slot)
    BY <2>4, <2>6, ProcessFields
  <2>8. Knows(p, v)
    <3> HIDE DEF v
    <3> QED
      BY <2>5, <2>6, ProcessKnows
  <2>9. n = [p EXCEPT !.last = slot, !.seen = Max({@, clock - b.birth})]
    BY <1>2, <2>2 DEF c
  <2> HIDE DEF p
  <2>10. Max({p.seen, clock - b.birth}) = v
    BY <1>0, <2>2, <2>3, <2>4, <2>7 DEF Max
  <2> DEFINE q == [p EXCEPT !.last = slot]
  <2>11. n = [q EXCEPT !.seen = v]
    BY <2>7, <2>9, <2>10 DEF Watcher
  <2>12. /\ q \in Watcher /\ q.ticks = 2 /\ q.birth = a.birth /\ q.last = slot
         /\ q.latest = priceAtSlot(slot) /\ q.high = p.high /\ q.low = p.low /\ q.warn = p.warn
    BY <2>4, <2>7 DEF Watcher
  <2>13. v \in Nat /\ slot <= v /\ a.seen <= v /\ 2 * (a.birth + v) + MaxGap < Word
    BY <1>0, <2>1, <2>3, <2>4
  <2> HIDE DEF q, v
  <2>14. /\ n \in Watcher /\ n.ticks = 2 /\ n.birth = a.birth /\ n.last = slot /\ n.seen = v
         /\ n.latest = priceAtSlot(slot) /\ n.high = p.high /\ n.low = p.low /\ n.warn = p.warn
    BY <2>11, <2>12, <2>13 DEF Watcher
  <2>15. Knows(n, v)
    BY <2>8, <2>14, KnowsFields
  <2>16. Sound(n)
    BY <2>1, <2>13, <2>14, <2>15 DEF Sound
  <2> QED
    BY <2>13, <2>14, <2>16 DEF n
<1> QED
  BY <1>0, <1>5, <1>6 DEF n

-----------------------------------------------------------------------------
(* The machines.                                                           *)

Files == [form : {"none", "ok", "bad"}, key : Nat, agent : Watcher]
Processes == [pc : {"off", "running", "staged"}, key : Nat, from : Nat, dropped : Files,
              agent : Watcher]

TypeInv ==
  /\ now \in Nat /\ StartNow <= now /\ now <= MaxNow /\ keys \in Nat
  /\ ident \in [Machines -> Nat]
  /\ ckpt \in [Machines -> Files] /\ carried \in Files /\ proc \in [Machines -> Processes]

\* Every watcher, running, stored or in the operator's hands.
SoundInv ==
  /\ \A m \in Machines : Sound(proc[m].agent) /\ Sound(ckpt[m].agent)
  /\ Sound(carried.agent)

\* A running watcher goes on from what its machine has stored, unless that is
\* the checkpoint it failed to load.
GrowInv ==
  \A m \in Machines : Running(m) /\ Known(m) /\ ckpt[m] # proc[m].dropped =>
    /\ proc[m].agent.ticks > 0 /\ proc[m].agent.birth = ckpt[m].agent.birth
    /\ proc[m].agent.seen >= ckpt[m].agent.seen

ContInv == TypeInv /\ SoundInv /\ GrowInv

LEMMA NewSound == NewWatcher \in Watcher /\ Sound(NewWatcher) /\ NewWatcher.ticks = 0
<1>1. NewWatcher \in Watcher /\ NewWatcher.ticks = 0
  BY DEF NewWatcher, Watcher
<1> QED
  BY <1>1 DEF Sound

LEMMA OffFields ==
  /\ NoFile \in Files /\ BadFile \in Files /\ Off \in Processes
  /\ NoFile.agent = NewWatcher /\ BadFile.agent = NewWatcher /\ Off.agent = NewWatcher
  /\ Off.pc = "off" /\ NoFile.form = "none" /\ BadFile.form = "bad"
<1>1. NewWatcher \in Watcher
  BY NewSound
<1> HIDE DEF NewWatcher
<1>2. /\ NoFile \in Files /\ BadFile \in Files
      /\ NoFile.agent = NewWatcher /\ BadFile.agent = NewWatcher
      /\ NoFile.form = "none" /\ BadFile.form = "bad"
  BY <1>1 DEF NoFile, BadFile, File, Files, NoKey
<1> HIDE DEF NoFile
<1>3. Off \in Processes /\ Off.agent = NewWatcher /\ Off.pc = "off"
  BY <1>1, <1>2 DEF Off, Process, Processes, NoKey
<1> QED
  BY <1>2, <1>3

\* A clock reading is a natural number that the wrap of uint64 is far from.
LEMMA ClockFits ==
  ASSUME TypeInv, NEW m \in Machines
  PROVE  Clock(m) \in Nat /\ Clock(m) > 0 /\ 2 * Clock(m) + MaxGap < Word
<1>1. /\ Skew[m] \in Int /\ StartNow + Skew[m] > 0 /\ Word > 2 * (MaxNow + Skew[m]) + MaxGap
      /\ StartNow \in Nat /\ MaxNow \in Nat /\ MaxGap \in Nat /\ Word \in Nat
  BY ContinuityAssumption
<1>2. now \in Nat /\ StartNow <= now /\ now <= MaxNow
  BY DEF TypeInv
<1>3. now + Skew[m] \in Nat /\ now + Skew[m] > 0
  BY <1>1, <1>2
<1>4. 2 * (now + Skew[m]) + MaxGap < Word
  BY <1>1, <1>2
<1> QED
  BY <1>3, <1>4 DEF Clock

\* Only machine m's process changes.
LEMMA ProcStep ==
  ASSUME ContInv, NEW m \in Machines, NEW p \in Processes, proc' = [proc EXCEPT ![m] = p],
         UNCHANGED <<now, ckpt, carried>>, ident' \in [Machines -> Nat], keys' \in Nat,
         Sound(p.agent),
         p.pc = "running" /\ Known(m) /\ ckpt[m] # p.dropped =>
           /\ p.agent.ticks > 0 /\ p.agent.birth = ckpt[m].agent.birth
           /\ p.agent.seen >= ckpt[m].agent.seen
  PROVE  ContInv'
<1>1. proc \in [Machines -> Processes]
  BY DEF ContInv, TypeInv
<1>2. proc' \in [Machines -> Processes] /\ proc'[m] = p
      /\ \A o \in Machines : o # m => proc'[o] = proc[o]
  BY <1>1
<1>3. TypeInv'
  BY <1>2 DEF ContInv, TypeInv
<1>4. SoundInv'
  BY <1>2 DEF ContInv, SoundInv
<1>5. GrowInv'
  BY <1>2 DEF ContInv, GrowInv, Running, Known
<1> QED
  BY <1>3, <1>4, <1>5 DEF ContInv

\* Only the checkpoint of machine m changes, while it does not run or to what
\* runs there.
LEMMA FileStep ==
  ASSUME ContInv, NEW m \in Machines, NEW c \in Files, Sound(c.agent),
         ckpt' = [ckpt EXCEPT ![m] = c],
         UNCHANGED <<now, carried, ident, keys>>, proc' \in [Machines -> Processes],
         \A o \in Machines : Sound(proc'[o].agent),
         \A o \in Machines : o # m => proc'[o] = proc[o],
         Running(m)' => c.agent = proc[m].agent /\ proc'[m] = proc[m]
  PROVE  ContInv'
<1>1. ckpt \in [Machines -> Files] /\ proc \in [Machines -> Processes]
  BY DEF ContInv, TypeInv
<1>2. ckpt' \in [Machines -> Files] /\ ckpt'[m] = c
      /\ \A o \in Machines : o # m => ckpt'[o] = ckpt[o]
  BY <1>1
<1>3. TypeInv'
  BY <1>2 DEF ContInv, TypeInv
<1>4. SoundInv'
  BY <1>2 DEF ContInv, SoundInv
<1>5. GrowInv'
  <2> SUFFICES ASSUME NEW o \in Machines, Running(o)', Known(o)', ckpt'[o] # proc'[o].dropped
               PROVE  /\ proc'[o].agent.ticks > 0 /\ proc'[o].agent.birth = ckpt'[o].agent.birth
                      /\ proc'[o].agent.seen >= ckpt'[o].agent.seen
    BY DEF GrowInv
  <2>1. CASE o = m
    <3>1. proc'[o].agent = ckpt'[o].agent /\ ckpt'[o].agent.seen \in Nat
      BY <1>2, <2>1 DEF Files, Watcher
    <3>2. ckpt'[o].agent.ticks > 0
      BY DEF Known
    <3> QED
      BY <3>1, <3>2
  <2>2. CASE o # m
    BY <1>2, <2>2 DEF ContInv, GrowInv, Running, Known
  <2> QED
    BY <2>1, <2>2
<1> QED
  BY <1>3, <1>4, <1>5 DEF ContInv

LEMMA LoadFields ==
  ASSUME TypeInv, NEW m \in Machines, LoadOrGenerate(m) \/ UNCHANGED <<ident, keys>>
  PROVE  ident' \in [Machines -> Nat] /\ keys' \in Nat
BY DEF TypeInv, LoadOrGenerate

LEMMA LaunchStep ==
  ASSUME ContInv, NEW m \in Machines, Launch(m), UNCHANGED <<now, ckpt, carried>>
  PROVE  ContInv'
<1> DEFINE p == Process("running", ident'[m], ckpt[m].key, NoFile, Restored(ckpt[m]))
<1>1. ident' \in [Machines -> Nat] /\ keys' \in Nat /\ proc' = [proc EXCEPT ![m] = p]
  BY LoadFields DEF Launch, ContInv
<1>2. ckpt[m] \in Files /\ Sound(ckpt[m].agent)
  BY DEF ContInv, TypeInv, SoundInv
<1>3. Restored(ckpt[m]) \in Watcher /\ Sound(Restored(ckpt[m]))
      /\ (ckpt[m].form = "ok" => Restored(ckpt[m]) = ckpt[m].agent)
  BY <1>2, NewSound DEF Restored, Files
<1>4. p \in Processes /\ p.agent = Restored(ckpt[m])
  <2>1. NoFile \in Files /\ ckpt[m].key \in Nat /\ ident'[m] \in Nat
    BY <1>1, <1>2, OffFields DEF Files
  <2> HIDE DEF NoFile
  <2> QED
    BY <1>3, <2>1 DEF Process, Processes
<1>5. ckpt[m].agent.seen \in Nat
  BY <1>2 DEF Files, Watcher
<1> HIDE DEF p
<1>6. Sound(p.agent)
  BY <1>3, <1>4
<1>7. Known(m) =>
        /\ p.agent.ticks > 0 /\ p.agent.birth = ckpt[m].agent.birth
        /\ p.agent.seen >= ckpt[m].agent.seen
  BY <1>3, <1>4, <1>5 DEF Known
<1> QED
  BY <1>1, <1>4, <1>6, <1>7, ProcStep

LEMMA LaunchFreshStep ==
  ASSUME ContInv, NEW m \in Machines, LaunchFresh(m), UNCHANGED <<now, ckpt, carried>>
  PROVE  ContInv'
<1> DEFINE p == Process("running", ident'[m], NoKey, ckpt[m], NewWatcher)
<1>1. ident' \in [Machines -> Nat] /\ keys' \in Nat /\ proc' = [proc EXCEPT ![m] = p]
  BY LoadFields DEF LaunchFresh, ContInv
<1>2. ckpt[m] \in Files /\ NewWatcher \in Watcher /\ Sound(NewWatcher)
  BY NewSound DEF ContInv, TypeInv
<1> HIDE DEF NewWatcher
<1>3. p \in Processes /\ p.agent = NewWatcher /\ p.dropped = ckpt[m]
  BY <1>1, <1>2 DEF Process, Processes, NoKey
<1> HIDE DEF p
<1> QED
  BY <1>1, <1>2, <1>3, ProcStep

\* A process that ends.
LEMMA OffStep ==
  ASSUME ContInv, NEW m \in Machines, proc' = [proc EXCEPT ![m] = Off],
         UNCHANGED <<now, ckpt, carried>>, ident' \in [Machines -> Nat], keys' \in Nat
  PROVE  ContInv'
<1>1. Off \in Processes /\ Sound(Off.agent) /\ Off.pc # "running"
  BY OffFields, NewSound
<1> QED
  BY <1>1, ProcStep

LEMMA CheckpointFields ==
  ASSUME ContInv, NEW m \in Machines
  PROVE  Checkpoint(m) \in Files /\ Checkpoint(m).agent = proc[m].agent /\ Sound(proc[m].agent)
         /\ Checkpoint(m).form = "ok"
<1>1. proc[m] \in Processes /\ Sound(proc[m].agent)
  BY DEF ContInv, TypeInv, SoundInv
<1> QED
  BY <1>1 DEF Checkpoint, File, Files, Processes

LEMMA ContStep == ContInv /\ [Next]_vars => ContInv'
<1> SUFFICES ASSUME ContInv, [Next]_vars PROVE ContInv'
  OBVIOUS
<1>0. /\ TypeInv /\ SoundInv /\ GrowInv /\ ident \in [Machines -> Nat] /\ keys \in Nat
      /\ ckpt \in [Machines -> Files] /\ proc \in [Machines -> Processes]
  BY DEF ContInv, TypeInv
<1>1. CASE Advance
  <2>1. now' \in Nat /\ StartNow <= now' /\ now' <= MaxNow
    BY <1>1, ContinuityAssumption DEF Advance, ContInv, TypeInv
  <2> QED
    BY <1>1, <2>1 DEF Advance, ContInv, TypeInv, SoundInv, GrowInv, Running, Known
<1>2. ASSUME NEW m \in Machines, runStandalone(m) \/ resumeFromCheckpoint(m)
      PROVE  ContInv'
  BY <1>2, LaunchStep, LaunchFreshStep DEF runStandalone, resumeFromCheckpoint
<1>3. ASSUME NEW m \in Machines, Stage(m) PROVE ContInv'
  <2>1. /\ ckpt' = [ckpt EXCEPT ![m] = carried] /\ UNCHANGED <<now, ident, carried, keys>>
        /\ proc' = [proc EXCEPT ![m].pc = "staged"]
    BY <1>3 DEF Stage
  <2>2. /\ proc' \in [Machines -> Processes] /\ proc'[m].pc = "staged"
        /\ proc'[m].agent = proc[m].agent /\ \A o \in Machines : o # m => proc'[o] = proc[o]
    BY <1>0, <2>1 DEF Processes
  <2>3. \A o \in Machines : Sound(proc'[o].agent)
    BY <2>2 DEF ContInv, SoundInv
  <2>4. carried \in Files /\ Sound(carried.agent)
    BY DEF ContInv, TypeInv, SoundInv
  <2>5. ~Running(m)'
    BY <2>2 DEF Running
  <2> QED
    BY <2>1, <2>2, <2>3, <2>4, <2>5, FileStep
<1>4. ASSUME NEW m \in Machines, ResumeFails(m) PROVE ContInv'
  <2>1. ident' \in [Machines -> Nat] /\ keys' \in Nat
    BY <1>0, <1>4, LoadFields DEF ResumeFails
  <2> QED
    BY <1>4, <2>1, OffStep DEF ResumeFails
<1>5. ASSUME NEW m \in Machines, Tick(m) PROVE ContInv'
  <2> DEFINE a == proc[m].agent
             n == WatcherTick(a, Clock(m))
             p == [proc[m] EXCEPT !.agent = n]
  <2>1. /\ proc' = [proc EXCEPT ![m] = p] /\ UNCHANGED <<now, ckpt, ident, carried, keys>>
        /\ Running(m) /\ TickFits(a, Clock(m))
    BY <1>0, <1>5 DEF Tick
  <2>2. Sound(a) /\ proc[m] \in Processes
    BY DEF ContInv, SoundInv, TypeInv
  <2>3. Clock(m) \in Nat /\ Clock(m) > 0 /\ 2 * Clock(m) + MaxGap < Word
    BY <1>0, ClockFits
  <2> HIDE DEF a
  <2>4. /\ Sound(n) /\ n.ticks > 0
        /\ a.ticks > 0 => n.birth = a.birth /\ n.seen >= a.seen
    BY <2>1, <2>2, <2>3, TickSound
  <2> HIDE DEF n
  <2>5. p \in Processes /\ p.agent = n /\ p.dropped = proc[m].dropped
    BY <2>2, <2>4 DEF Processes, Sound
  <2>6. n.seen \in Nat /\ a.seen \in Nat /\ ckpt[m].agent.seen \in Nat
    BY <1>0, <2>2, <2>4 DEF Sound, Watcher, Files
  <2>7. ASSUME Known(m), ckpt[m] # proc[m].dropped
        PROVE  /\ n.ticks > 0 /\ n.birth = ckpt[m].agent.birth
               /\ n.seen >= ckpt[m].agent.seen
    <3>1. a.ticks > 0 /\ a.birth = ckpt[m].agent.birth /\ a.seen >= ckpt[m].agent.seen
      BY <2>1, <2>7 DEF ContInv, GrowInv, a
    <3> QED
      BY <2>4, <2>6, <3>1
  <2>8. Sound(p.agent)
    BY <2>4, <2>5
  <2> HIDE DEF p
  <2> QED
    BY <1>0, <2>1, <2>5, <2>7, <2>8, ProcStep
<1>6. ASSUME NEW m \in Machines, TickTimesOut(m) \/ Kill(m) PROVE ContInv'
  BY <1>0, <1>6, OffStep DEF TickTimesOut, Kill
<1>7. ASSUME NEW m \in Machines, Save(m) PROVE ContInv'
  <2>1. /\ ckpt' = [ckpt EXCEPT ![m] = Checkpoint(m)]
        /\ UNCHANGED <<now, ident, carried, keys, proc>>
    BY <1>7 DEF Save
  <2>2. \A o \in Machines : Sound(proc'[o].agent)
    BY <2>1 DEF ContInv, SoundInv
  <2>3. Checkpoint(m) \in Files /\ Checkpoint(m).agent = proc[m].agent /\ Sound(proc[m].agent)
    BY CheckpointFields
  <2> QED
    BY <1>0, <2>1, <2>2, <2>3, FileStep
<1>8. ASSUME NEW m \in Machines, Shutdown(m) PROVE ContInv'
  <2>1. /\ proc' = [proc EXCEPT ![m] = Off] /\ UNCHANGED <<now, ident, carried, keys>>
        /\ ckpt' = ckpt \/ ckpt' = [ckpt EXCEPT ![m] = Checkpoint(m)]
    BY <1>8 DEF Shutdown
  <2>2. CASE ckpt' = ckpt
    BY <1>0, <2>1, <2>2, OffStep
  <2>3. CASE ckpt' = [ckpt EXCEPT ![m] = Checkpoint(m)]
    <3>1. Checkpoint(m) \in Files /\ Checkpoint(m).agent = proc[m].agent /\ Sound(proc[m].agent)
      BY CheckpointFields
    <3>2. Off \in Processes /\ Sound(Off.agent) /\ Off.pc = "off"
      BY OffFields, NewSound
    <3>3. /\ proc' \in [Machines -> Processes] /\ proc'[m] = Off
          /\ \A o \in Machines : o # m => proc'[o] = proc[o]
      BY <1>0, <2>1, <3>2
    <3>4. \A o \in Machines : Sound(proc'[o].agent)
      BY <3>2, <3>3 DEF ContInv, SoundInv
    <3>5. ~Running(m)'
      BY <3>2, <3>3 DEF Running
    <3> QED
      BY <2>1, <2>3, <3>1, <3>3, <3>4, <3>5, FileStep
  <2> QED
    BY <2>1, <2>2, <2>3
<1>9. ASSUME NEW m \in Machines, CopyCheckpoint(m) PROVE ContInv'
  <2>1. carried' \in {ckpt[m], BadFile} /\ UNCHANGED <<now, ckpt, ident, proc, keys>>
    BY <1>9 DEF CopyCheckpoint
  <2>2. BadFile \in Files /\ Sound(BadFile.agent) /\ ckpt[m] \in Files /\ Sound(ckpt[m].agent)
    BY OffFields, NewSound DEF ContInv, TypeInv, SoundInv
  <2>3. carried' \in Files /\ Sound(carried'.agent)
    BY <2>1, <2>2
  <2> QED
    BY <2>1, <2>3 DEF ContInv, TypeInv, SoundInv, GrowInv, Running, Known
<1>10. ASSUME NEW m \in Machines, NEW o \in Machines, CopyIdentity(m, o) PROVE ContInv'
  <2>1. ident' \in [Machines -> Nat] /\ UNCHANGED <<now, ckpt, proc, carried, keys>>
    BY <1>0, <1>10 DEF CopyIdentity
  <2> QED
    BY <2>1 DEF ContInv, TypeInv, SoundInv, GrowInv, Running, Known
<1>11. CASE UNCHANGED vars
  BY <1>11 DEF vars, ContInv, TypeInv, SoundInv, GrowInv, Running, Known
<1> QED
  BY <1>1, <1>2, <1>3, <1>4, <1>5, <1>6, <1>7, <1>8, <1>9, <1>10, <1>11 DEF Next

LEMMA ContInvariant == Spec => []ContInv
<1>1. Init => ContInv
  <2> SUFFICES ASSUME Init PROVE ContInv
    OBVIOUS
  <2>1. /\ NoFile \in Files /\ Off \in Processes /\ Sound(NoFile.agent) /\ Sound(Off.agent)
        /\ Off.pc = "off"
    BY OffFields, NewSound
  <2>2. StartNow \in Nat /\ StartNow <= MaxNow
    BY ContinuityAssumption
  <2>3. TypeInv
    BY <2>1, <2>2 DEF Init, TypeInv, NoKey
  <2>4. SoundInv
    BY <2>1 DEF Init, SoundInv
  <2>5. GrowInv
    BY <2>1 DEF Init, GrowInv, Running
  <2> QED
    BY <2>3, <2>4, <2>5 DEF ContInv
<1> QED
  BY <1>1, ContStep, PTL DEF Spec

LEMMA MaxIs ==
  ASSUME NEW S \in SUBSET Int, NEW x \in S, \A y \in S : y <= x
  PROVE  Max(S) = x
<1> DEFINE z == Max(S)
<1>1. z \in S /\ \A y \in S : z >= y
  BY DEF Max
<1> HIDE DEF z
<1>2. z = x
  <2>1. z \in Int /\ x \in Int /\ z >= x /\ z <= x
    BY <1>1
  <2> QED
    BY <2>1
<1> QED
  BY <1>2 DEF z

LEMMA MinIs ==
  ASSUME NEW S \in SUBSET Int, NEW x \in S, \A y \in S : x <= y
  PROVE  Min(S) = x
<1> DEFINE z == Min(S)
<1>1. z \in S /\ \A y \in S : z <= y
  BY DEF Min
<1> HIDE DEF z
<1>2. z = x
  <2>1. z \in Int /\ x \in Int /\ z <= x /\ x <= z
    BY <1>1
  <2> QED
    BY <2>1
<1> QED
  BY <1>2 DEF z

\* What Knows says, in the words of NothingMissed.
LEMMA KnowsMeaning ==
  ASSUME NEW a \in Watcher, NEW w \in Nat, Knows(a, w)
  PROVE  LET prices == {priceAtSlot(s) : s \in 0 .. w}
             breaches == {s \in 1 .. w : priceAtSlot(s) < Threshold}
         IN /\ a.high = Max(prices) /\ a.low = Min(prices)
            /\ a.warn = IF breaches = {} THEN 0 ELSE Min(breaches)
<1> DEFINE prices == {priceAtSlot(s) : s \in 0 .. w}
           breaches == {s \in 1 .. w : priceAtSlot(s) < Threshold}
<1>1. prices \in SUBSET Int
  BY PricePositive
<1>2. a.high \in prices /\ \A y \in prices : y <= a.high
  BY DEF Knows
<1>3. a.low \in prices /\ \A y \in prices : a.low <= y
  BY DEF Knows
<1>4. breaches \in SUBSET Int
  OBVIOUS
<1>5. \/ a.warn = 0 /\ breaches = {}
      \/ a.warn \in breaches /\ \A y \in breaches : a.warn <= y
  BY DEF Knows
<1> HIDE DEF prices, breaches
<1>6. a.high = Max(prices)
  BY <1>1, <1>2, MaxIs
<1>7. a.low = Min(prices)
  BY <1>1, <1>3, MinIs
<1>8. a.warn = IF breaches = {} THEN 0 ELSE Min(breaches)
  <2>1. CASE a.warn = 0 /\ breaches = {}
    BY <2>1
  <2>2. CASE a.warn \in breaches /\ \A y \in breaches : a.warn <= y
    <3>1. Min(breaches) = a.warn
      BY <1>4, <2>2, MinIs
    <3> QED
      BY <2>2, <3>1
  <2> QED
    BY <1>5, <2>1, <2>2
<1> QED
  BY <1>6, <1>7, <1>8 DEF prices, breaches

\* The watcher has missed nothing, for every price curve, any skew of the
\* clocks and any number of deaths, copies and resumes: what it knows at its
\* latest tick is what one that never died would know.
THEOREM NoSlotMissed == Spec => []NothingMissed
<1>1. ContInv => NothingMissed
  <2> SUFFICES ASSUME ContInv, NEW a \in Watchers, a.ticks > 0
               PROVE  LET prices == {priceAtSlot(s) : s \in 0 .. a.seen}
                          breaches == {s \in 1 .. a.seen : priceAtSlot(s) < Threshold}
                      IN /\ a.last \in 0 .. a.seen
                         /\ a.latest = priceAtSlot(a.last)
                         /\ a.high = Max(prices)
                         /\ a.low = Min(prices)
                         /\ a.warn = IF breaches = {} THEN 0 ELSE Min(breaches)
    BY DEF NothingMissed
  <2>1. Sound(a)
    BY DEF Watchers, ContInv, SoundInv
  <2>2. a \in Watcher /\ a.seen \in Nat /\ a.last \in Nat /\ a.last <= a.seen
        /\ a.latest = priceAtSlot(a.last) /\ Knows(a, a.seen)
    BY <2>1 DEF Sound, Watcher
  <2>3. a.last \in 0 .. a.seen
    BY <2>2
  <2> DEFINE w == a.seen
             prices == {priceAtSlot(s) : s \in 0 .. w}
             breaches == {s \in 1 .. w : priceAtSlot(s) < Threshold}
  <2>4. w \in Nat /\ Knows(a, w)
    BY <2>2
  <2> HIDE DEF w
  <2>5. /\ a.high = Max(prices) /\ a.low = Min(prices)
        /\ a.warn = IF breaches = {} THEN 0 ELSE Min(breaches)
    BY <2>2, <2>4, KnowsMeaning
  <2> QED
    BY <2>2, <2>3, <2>5 DEF w
<1> QED
  BY <1>1, ContInvariant, PTL

\* Whatever fails, a running process replaces a readable checkpoint only by one
\* of the same life that has seen at least as much, unless it is the one that
\* it failed to load.
THEOREM KnowledgeKept == Spec => KnowledgeGrows
<1>1. ContInv /\ [Next]_vars =>
        [\A m \in Machines :
           Running(m) /\ Known(m) /\ ckpt[m] # proc[m].dropped => Continues(m)]_vars
  <2> SUFFICES ASSUME ContInv, Next, NEW m \in Machines, Running(m), Known(m),
                      ckpt[m] # proc[m].dropped, ckpt'[m] # ckpt[m]
               PROVE  /\ ckpt'[m].agent.birth = ckpt[m].agent.birth
                      /\ ckpt'[m].agent.seen >= ckpt[m].agent.seen
    BY DEF Continues
  <2>1. ckpt \in [Machines -> Files]
    BY DEF ContInv, TypeInv
  <2>2. proc[m] # Off
    BY OffFields DEF Running
  <2>3. PICK o \in Machines : \/ Stage(o)
                              \/ ckpt' = [ckpt EXCEPT ![o] = Checkpoint(o)]
    <3>1. CASE Advance
      BY <3>1 DEF Advance
    <3>2. ASSUME NEW o \in Machines,
                 \/ runStandalone(o) \/ resumeFromCheckpoint(o) \/ ResumeFails(o) \/ Tick(o)
                 \/ TickTimesOut(o) \/ Kill(o) \/ CopyCheckpoint(o)
                 \/ \E n \in Machines : CopyIdentity(o, n)
          PROVE  FALSE
      BY <3>2 DEF runStandalone, resumeFromCheckpoint, ResumeFails, Tick, TickTimesOut, Kill,
         CopyCheckpoint, CopyIdentity
    <3>3. ASSUME NEW o \in Machines, Save(o) \/ Shutdown(o)
          PROVE  ckpt' = [ckpt EXCEPT ![o] = Checkpoint(o)]
      BY <3>3 DEF Save, Shutdown
    <3> QED
      BY <3>1, <3>2, <3>3 DEF Next
  <2>4. CASE Stage(o)
    <3>1. o # m /\ ckpt' = [ckpt EXCEPT ![o] = carried]
      BY <2>2, <2>4 DEF Stage
    <3> QED
      BY <2>1, <3>1
  <2>5. CASE ckpt' = [ckpt EXCEPT ![o] = Checkpoint(o)]
    <3>1. o = m /\ ckpt'[m] = Checkpoint(m)
      BY <2>1, <2>5
    <3>2. ckpt'[m].agent = proc[m].agent
      BY <3>1, CheckpointFields
    <3> QED
      BY <3>2 DEF ContInv, GrowInv
  <2> QED
    BY <2>3, <2>4, <2>5
<1> QED
  BY <1>1, ContInvariant, PTL DEF Spec, KnowledgeGrows

-----------------------------------------------------------------------------
(* Identities.                                                             *)

\* What makes DirectoryKeepsIdentity inductive.
IdentInv == \A m \in Machines : Running(m) => proc[m].key = ident[m]

\* The identity of a machine changes when it has none, or by a copy.
LEMMA IdentChange ==
  ASSUME TypeInv, "identity" \notin Faults, NEW m \in Machines, Next,
         ident[m] # NoKey, ident'[m] # ident[m]
  PROVE  proc[m] = Off /\ proc' = proc /\ \E n \in Machines \ {m} : ident'[m] = ident[n]
<1>0. ident \in [Machines -> Nat]
  BY DEF TypeInv
<1>1. ASSUME NEW o \in Machines, LoadOrGenerate(o) PROVE FALSE
  BY <1>0, <1>1 DEF LoadOrGenerate
<1>2. PICK k \in Machines, o \in Machines : CopyIdentity(k, o)
  <2>1. CASE Advance
    BY <2>1 DEF Advance
  <2>2. ASSUME NEW o \in Machines,
               runStandalone(o) \/ resumeFromCheckpoint(o) \/ ResumeFails(o)
        PROVE  FALSE
    BY <1>1, <2>2 DEF runStandalone, resumeFromCheckpoint, Launch, LaunchFresh, ResumeFails
  <2>3. ASSUME NEW o \in Machines,
               Stage(o) \/ Tick(o) \/ TickTimesOut(o) \/ Save(o) \/ Shutdown(o) \/ Kill(o)
               \/ CopyCheckpoint(o)
        PROVE  FALSE
    BY <2>3 DEF Stage, Tick, TickTimesOut, Save, Shutdown, Kill, CopyCheckpoint
  <2> QED
    BY <2>1, <2>2, <2>3 DEF Next
<1>3. o = m /\ k # m /\ ident'[m] = ident[k] /\ proc[m] = Off /\ proc' = proc
  BY <1>0, <1>2 DEF CopyIdentity
<1> QED
  BY <1>3

LEMMA IdentStep ==
  ASSUME TypeInv, IdentInv, [Next]_vars
  PROVE  IdentInv'
<1> SUFFICES ASSUME NEW m \in Machines, Running(m)' PROVE proc'[m].key = ident'[m]
  BY DEF IdentInv
<1>0. proc \in [Machines -> Processes] /\ ident \in [Machines -> Nat]
  BY DEF TypeInv
<1>1. ASSUME NEW o \in Machines, Launch(o) \/ LaunchFresh(o) PROVE proc'[m].key = ident'[m]
  <2>1. CASE o = m
    BY <1>0, <1>1, <2>1 DEF Launch, LaunchFresh, Process
  <2>2. CASE o # m
    <3>1. proc'[m] = proc[m] /\ ident'[m] = ident[m]
      BY <1>0, <1>1, <2>2 DEF Launch, LaunchFresh, LoadOrGenerate
    <3> QED
      BY <3>1 DEF IdentInv, Running
  <2> QED
    BY <2>1, <2>2
<1>2. ASSUME NEW o \in Machines, proc' = [proc EXCEPT ![o] = Off],
             ident' = ident \/ LoadOrGenerate(o)
      PROVE  proc'[m].key = ident'[m]
  <2>1. o # m
    BY <1>0, <1>2, OffFields DEF Running
  <2>2. proc'[m] = proc[m] /\ ident'[m] = ident[m]
    BY <1>0, <1>2, <2>1 DEF LoadOrGenerate
  <2> QED
    BY <2>2 DEF IdentInv, Running
<1>3. CASE UNCHANGED <<proc, ident>>
  BY <1>3 DEF IdentInv, Running
<1>4. ASSUME NEW o \in Machines, runStandalone(o) \/ resumeFromCheckpoint(o)
      PROVE  proc'[m].key = ident'[m]
  BY <1>1, <1>4 DEF runStandalone, resumeFromCheckpoint
<1>5. ASSUME NEW o \in Machines, ResumeFails(o) \/ TickTimesOut(o) \/ Shutdown(o) \/ Kill(o)
      PROVE  proc'[m].key = ident'[m]
  <2>1. proc' = [proc EXCEPT ![o] = Off] /\ (ident' = ident \/ LoadOrGenerate(o))
    BY <1>5 DEF ResumeFails, TickTimesOut, Shutdown, Kill
  <2> QED
    BY <1>2, <2>1
<1>6. ASSUME NEW o \in Machines, Stage(o) PROVE proc'[m].key = ident'[m]
  <2>1. proc' = [proc EXCEPT ![o].pc = "staged"] /\ ident' = ident
    BY <1>6 DEF Stage
  <2>2. proc'[o].pc = "staged"
    BY <1>0, <2>1 DEF Processes
  <2>3. o # m
    BY <2>2 DEF Running
  <2>4. proc'[m] = proc[m]
    BY <1>0, <2>1, <2>3
  <2> QED
    BY <2>1, <2>4 DEF IdentInv, Running
<1>7. ASSUME NEW o \in Machines, Tick(o) PROVE proc'[m].key = ident'[m]
  <2>1. proc' = [proc EXCEPT ![o].agent = WatcherTick(@, Clock(o))] /\ ident' = ident
    BY <1>7 DEF Tick
  <2>2. proc'[m].key = proc[m].key /\ proc'[m].pc = proc[m].pc
    BY <1>0, <2>1 DEF Processes
  <2> QED
    BY <2>1, <2>2 DEF IdentInv, Running
<1>8. ASSUME NEW k \in Machines, NEW o \in Machines, CopyIdentity(k, o)
      PROVE  proc'[m].key = ident'[m]
  <2>1. proc' = proc /\ proc[o] = Off /\ ident' = [ident EXCEPT ![o] = ident[k]]
    BY <1>8 DEF CopyIdentity
  <2>2. o # m
    BY <2>1, OffFields DEF Running
  <2>3. ident'[m] = ident[m]
    BY <1>0, <2>1, <2>2
  <2> QED
    BY <2>1, <2>3 DEF IdentInv, Running
<1>9. ASSUME NEW o \in Machines, Save(o) \/ CopyCheckpoint(o)
      PROVE  proc'[m].key = ident'[m]
  BY <1>3, <1>9 DEF Save, CopyCheckpoint
<1>10. CASE Advance \/ UNCHANGED vars
  BY <1>3, <1>10 DEF Advance, vars
<1> QED
  BY <1>4, <1>5, <1>6, <1>7, <1>8, <1>9, <1>10 DEF Next

\* A machine keeps its DID through crashes, restarts and resumes, as long as
\* its identity file can be read: the loader generates a key only where there
\* is none, and a process signs with the key of the file until it ends.
THEOREM IdentityKept ==
  ASSUME "identity" \notin Faults
  PROVE  Spec => DirectoryKeepsIdentity
<1>1. Init => IdentInv
  BY OffFields DEF Init, IdentInv, Running
<1>2. ContInv /\ IdentInv /\ [Next]_vars => IdentInv'
  BY IdentStep DEF ContInv
<1>3. ContInv /\ IdentInv /\ [Next]_vars =>
        [\A m \in Machines :
           /\ Running(m) => proc[m].key = ident[m]
           /\ (ident[m] # NoKey /\ ident'[m] # ident[m])
                => \E n \in Machines \ {m} : ident'[m] = ident[n]]_vars
  BY IdentChange DEF ContInv, IdentInv
<1> QED
  BY <1>1, <1>2, <1>3, ContInvariant, PTL DEF Spec, DirectoryKeepsIdentity
=============================================================================

----------------------------- MODULE RingProofs -----------------------------
(* Theorems about the counters of a split virtqueue, for every modulus. *)
EXTENDS Ring, TLAPS

\* Wrapping subtraction without the remainder: a case split.
LEMMA ModCases ==
    ASSUME NEW x \in Int, -Modulus <= x, x < 2 * Modulus
    PROVE  x % Modulus = IF x < 0 THEN x + Modulus
                         ELSE IF x < Modulus THEN x ELSE x - Modulus
  <1>0. Modulus \in Nat \ {0}
    BY QueueSizeAssumption, ModulusAssumption
  <1>1. CASE x < 0
    BY <1>0, <1>1
  <1>2. CASE 0 <= x /\ x < Modulus
    BY <1>0, <1>2
  <1>3. CASE Modulus <= x
    BY <1>0, <1>3
  <1> QED
    BY <1>1, <1>2, <1>3, <1>0

\* Wrapping subtraction of two counters, as a case split.
LEMMA DistCases ==
    ASSUME NEW a \in Counter, NEW b \in Counter
    PROVE  Dist(a, b) = IF a < b THEN a - b + Modulus ELSE a - b
  <1>0. Modulus \in Nat \ {0}
    BY QueueSizeAssumption, ModulusAssumption
  <1>1. a \in Int /\ b \in Int /\ 0 <= a /\ a < Modulus /\ 0 <= b /\ b < Modulus
    BY <1>0 DEF Counter
  <1>2. a - b \in Int /\ -Modulus <= a - b /\ a - b < 2 * Modulus
    BY <1>0, <1>1
  <1> QED
    BY <1>0, <1>1, <1>2, ModCases DEF Dist

\* need_event is exact for every counter width: it holds of three counter
\* values if and only if the counter, stepping from old to new, takes the value
\* event + 1 (layout::need_event).
THEOREM NeedEventCorrect ==
    \A ev, nw, od \in Counter :
        need_event(ev, nw, od) <=> Crossed(ev, nw, od)
  <1> SUFFICES ASSUME NEW ev \in Counter, NEW nw \in Counter, NEW od \in Counter
               PROVE  need_event(ev, nw, od) <=> Crossed(ev, nw, od)
    OBVIOUS
  <1> DEFINE d == Dist(nw, od)
             e == Dist(nw, ev)
  <1>0. Modulus \in Nat /\ Modulus > 1
    BY QueueSizeAssumption, ModulusAssumption
  <1>1. /\ ev \in Int /\ 0 <= ev /\ ev < Modulus
        /\ nw \in Int /\ 0 <= nw /\ nw < Modulus
        /\ od \in Int /\ 0 <= od /\ od < Modulus
    BY <1>0 DEF Counter
  <1>2. d = IF nw < od THEN nw - od + Modulus ELSE nw - od
    BY DistCases
  <1>3. e = IF nw < ev THEN nw - ev + Modulus ELSE nw - ev
    BY DistCases
  <1>4. d \in Counter /\ e \in Counter /\ 1 \in Counter
    BY <1>0, <1>1, <1>2, <1>3 DEF Counter
  <1>5. Dist(e, 1) = IF e < 1 THEN e - 1 + Modulus ELSE e - 1
    BY <1>4, DistCases
  <1>6. Inc(ev) = IF ev + 1 = Modulus THEN 0 ELSE ev + 1
    <2>1. ev + 1 \in Int /\ -Modulus <= ev + 1 /\ ev + 1 < 2 * Modulus
      BY <1>0, <1>1
    <2> QED
      BY <2>1, <1>0, <1>1, ModCases DEF Inc
  <1>7. ASSUME NEW k \in 1 .. d
        PROVE  (od + k) % Modulus = IF od + k < Modulus THEN od + k
                                     ELSE od + k - Modulus
    <2>1. k \in Int /\ 1 <= k /\ k < Modulus
      BY <1>4, <1>0 DEF Counter
    <2>2. od + k \in Int /\ -Modulus <= od + k /\ od + k < 2 * Modulus
      BY <2>1, <1>0, <1>1
    <2> QED
      BY <2>1, <2>2, <1>0, <1>1, ModCases
  <1> HIDE DEF d, e
  <1>8. ASSUME Dist(e, 1) < d
        PROVE  \E k \in 1 .. d : (od + k) % Modulus = Inc(ev)
    <2> DEFINE k == d - Dist(e, 1)
    <2>1. Dist(e, 1) \in Int /\ 0 <= Dist(e, 1) /\ d \in Int
      BY <1>0, <1>4, <1>5 DEF Counter
    <2>2. k \in 1 .. d
      BY <1>8, <2>1
    <2>3. (od + k) % Modulus = IF od + k < Modulus THEN od + k
                                ELSE od + k - Modulus
      BY <2>2, <1>7
    <2>4. (od + k) % Modulus = Inc(ev)
      BY <2>3, <2>2, <1>0, <1>1, <1>2, <1>3, <1>5, <1>6, <1>8
    <2> QED
      BY <2>2, <2>4
  <1>9. ASSUME NEW k \in 1 .. d, (od + k) % Modulus = Inc(ev)
        PROVE  Dist(e, 1) < d
    <2>1. k \in Int /\ 1 <= k /\ k <= d /\ d \in Int
      BY <1>4, <1>0 DEF Counter
    <2>2. (od + k) % Modulus = IF od + k < Modulus THEN od + k
                                ELSE od + k - Modulus
      BY <1>7
    <2> QED
      BY <2>1, <2>2, <1>0, <1>1, <1>2, <1>3, <1>5, <1>6, <1>9
  <1> QED
    BY <1>8, <1>9 DEF need_event, Crossed, d, e

-----------------------------------------------------------------------------
\* Division with a remainder.
LEMMA DivMod ==
    ASSUME NEW n \in Nat \ {0}, NEW x \in Int
    PROVE  /\ x \div n \in Int /\ x % n \in 0 .. n - 1
           /\ x = (n * (x \div n)) + (x % n)
  OBVIOUS

\* The only multiple of n nearer to 0 than n is 0.
LEMMA SmallMultiple ==
    ASSUME NEW n \in Nat \ {0}, NEW t \in Int, -n < n * t, n * t < n
    PROVE  t = 0
  <1>1. CASE t >= 1
    BY <1>1
  <1>2. CASE t <= -1
    BY <1>2
  <1> QED BY <1>1, <1>2

\* Numbers less than n apart have different remainders.
LEMMA ModNear ==
    ASSUME NEW n \in Nat \ {0}, NEW x \in Int, NEW y \in Int,
           x % n = y % n, -n < x - y, x - y < n
    PROVE  x = y
  <1> DEFINE t == (x \div n) - (y \div n)
  <1>1. t \in Int /\ n * t = x - y
    BY DivMod
  <1> HIDE DEF t
  <1>2. t = 0
    BY <1>1, SmallMultiple
  <1> QED BY <1>1, <1>2

\* A multiple of n does not change a remainder.
LEMMA ModShift ==
    ASSUME NEW n \in Nat \ {0}, NEW x \in Int, NEW q \in Int
    PROVE  (x + n * q) % n = x % n
  <1> DEFINE d1 == x \div n
             d2 == (x + n * q) \div n
             r1 == x % n
             r2 == (x + n * q) % n
             t == (d1 + q) - d2
  <1>0. n * q \in Int
    OBVIOUS
  <1>1. d1 \in Int /\ d2 \in Int /\ r1 \in 0 .. n - 1 /\ r2 \in 0 .. n - 1
    BY <1>0, DivMod
  <1>2. x = n * d1 + r1 /\ x + n * q = n * d2 + r2
    BY <1>0, DivMod
  <1> HIDE DEF d1, d2, r1, r2
  <1>3. t \in Int /\ n * t = r2 - r1
    BY <1>0, <1>1, <1>2
  <1>4. t = 0
    BY <1>1, <1>3, SmallMultiple
  <1> QED BY <1>1, <1>3, <1>4 DEF r1, r2

-----------------------------------------------------------------------------
(***************************************************************************)
(* Stretches of the counter circle.                                        *)
(***************************************************************************)

\* The counter values from a up to, and not including, b.
Between(a, b) == {c \in Counter : Dist(c, a) < Dist(b, a)}

\* Counters are small integers.
LEMMA CounterRange ==
    /\ Modulus \in Nat /\ Modulus > 1 /\ QueueSize \in Nat /\ QueueSize > 0
    /\ QueueSize < Modulus
    /\ \A c \in Counter : c \in Int /\ 0 <= c /\ c < Modulus
    /\ \A c \in Int : 0 <= c /\ c < Modulus => c \in Counter
  BY QueueSizeAssumption, ModulusAssumption DEF Counter

\* Wrapping addition of one, as a case split.
LEMMA IncCases ==
    ASSUME NEW a \in Counter
    PROVE  /\ Modulus \in Nat /\ Modulus > 1
           /\ Inc(a) = IF a + 1 = Modulus THEN 0 ELSE a + 1
           /\ Inc(a) \in Counter
  <1>1. a + 1 \in Int /\ -Modulus <= a + 1 /\ a + 1 < 2 * Modulus
    BY CounterRange
  <1> QED BY <1>1, ModCases, CounterRange DEF Inc

\* Distances between counters: their range, what is at distance zero, and that
\* a distance says where one counter is as seen from the other.
LEMMA DistFacts ==
    ASSUME NEW a \in Counter, NEW b \in Counter
    PROVE  /\ Dist(a, b) \in Counter
           /\ Dist(a, b) = 0 <=> a = b
           /\ Dist(a, Dist(a, b)) = b
           /\ \A c \in Counter : Dist(a, b) = Dist(c, b) => a = c
  <1> USE DEF Counter
  <1>0. Modulus \in Nat /\ Modulus > 1
    BY IncCases
  <1>1. Dist(a, b) = IF a < b THEN a - b + Modulus ELSE a - b
    BY DistCases
  <1>2. Dist(a, b) \in Counter
    BY <1>0, <1>1
  <1>3. Dist(a, Dist(a, b)) = IF a < Dist(a, b) THEN a - Dist(a, b) + Modulus
                              ELSE a - Dist(a, b)
    BY <1>2, DistCases
  <1>4. Dist(a, Dist(a, b)) = b
    BY <1>0, <1>1, <1>2, <1>3
  <1>5. ASSUME NEW c \in Counter, Dist(a, b) = Dist(c, b) PROVE a = c
    <2>1. Dist(c, b) = IF c < b THEN c - b + Modulus ELSE c - b
      BY DistCases
    <2> QED BY <2>1, <1>0, <1>1, <1>5
  <1> QED BY <1>0, <1>1, <1>2, <1>4, <1>5

\* How the distance between two counters moves when one of them does.
LEMMA DistMoves ==
    ASSUME NEW a \in Counter, NEW b \in Counter
    PROVE  /\ Dist(b, a) \in Counter
           /\ Dist(b, a) = 0 <=> a = b
           /\ Dist(b, a) + 1 < Modulus => Dist(Inc(b), a) = Dist(b, a) + 1
           /\ a # b => Dist(b, Inc(a)) = Dist(b, a) - 1
           /\ Dist(Inc(a), a) = 1
  <1>1. /\ Inc(a) \in Counter /\ Inc(a) = IF a + 1 = Modulus THEN 0 ELSE a + 1
        /\ Inc(b) \in Counter /\ Inc(b) = IF b + 1 = Modulus THEN 0 ELSE b + 1
    BY IncCases
  <1>2. /\ Dist(b, a) = IF b < a THEN b - a + Modulus ELSE b - a
        /\ Dist(Inc(b), a) = IF Inc(b) < a THEN Inc(b) - a + Modulus ELSE Inc(b) - a
        /\ Dist(b, Inc(a)) = IF b < Inc(a) THEN b - Inc(a) + Modulus ELSE b - Inc(a)
        /\ Dist(Inc(a), a) = IF Inc(a) < a THEN Inc(a) - a + Modulus ELSE Inc(a) - a
    BY <1>1, DistCases
  <1> QED BY <1>1, <1>2, CounterRange

\* Distances add up along a stretch.
LEMMA DistSplit ==
    ASSUME NEW a \in Counter, NEW b \in Counter, NEW c \in Counter
    PROVE  /\ Dist(b, a) <= Dist(c, a) => Dist(c, b) = Dist(c, a) - Dist(b, a)
           /\ Dist(b, a) = Dist(c, a) => b = c
  <1>1. /\ Dist(b, a) = IF b < a THEN b - a + Modulus ELSE b - a
        /\ Dist(c, a) = IF c < a THEN c - a + Modulus ELSE c - a
        /\ Dist(c, b) = IF c < b THEN c - b + Modulus ELSE c - b
    BY DistCases
  <1> QED BY <1>1, CounterRange

\* What is in a stretch, and how it grows and shrinks by one.
LEMMA BetweenFacts ==
    ASSUME NEW a \in Counter, NEW b \in Counter
    PROVE  /\ b \notin Between(a, b)
           /\ a # b => a \in Between(a, b)
           /\ a = b => Between(a, b) = {}
           /\ Dist(b, a) + 1 < Modulus => Between(a, Inc(b)) = Between(a, b) \cup {b}
           /\ a # b => Between(Inc(a), b) = Between(a, b) \ {a}
  <1>1. b \notin Between(a, b)
    BY DistMoves, CounterRange DEF Between
  <1>2. a # b => a \in Between(a, b)
    <2>1. Dist(a, a) = 0 /\ Dist(b, a) \in Counter /\ (a # b => Dist(b, a) # 0)
      BY DistMoves
    <2> QED BY <2>1, CounterRange DEF Between
  <1>3. a = b => Between(a, b) = {}
    BY DistMoves, CounterRange DEF Between
  <1>4. ASSUME Dist(b, a) + 1 < Modulus
        PROVE  Between(a, Inc(b)) = Between(a, b) \cup {b}
    <2>1. Dist(Inc(b), a) = Dist(b, a) + 1 /\ Inc(b) \in Counter
      BY <1>4, DistMoves, IncCases
    <2>2. \A c \in Counter : Dist(c, a) \in Int /\ (Dist(c, a) = Dist(b, a) <=> c = b)
      BY DistCases, CounterRange
    <2> QED BY <2>1, <2>2 DEF Between
  <1>5. ASSUME a # b
        PROVE  Between(Inc(a), b) = Between(a, b) \ {a}
    <2>1. Inc(a) \in Counter /\ Dist(b, Inc(a)) = Dist(b, a) - 1
      BY <1>5, DistMoves, IncCases
    <2>2. \A c \in Counter : c # a => Dist(c, Inc(a)) = Dist(c, a) - 1
      BY DistMoves
    <2>3. Dist(a, Inc(a)) = Modulus - 1
      BY DistCases, IncCases, CounterRange
    <2>4. \A c \in Counter : Dist(c, a) \in Int /\ Dist(c, a) < Modulus
      BY DistMoves, CounterRange
    <2> QED BY <2>1, <2>2, <2>3, <2>4, CounterRange DEF Between
  <1> QED BY <1>1, <1>2, <1>3, <1>4, <1>5

\* A part of a stretch.
LEMMA BetweenParts ==
    ASSUME NEW a \in Counter, NEW b \in Counter, NEW c \in Counter,
           Dist(b, a) <= Dist(c, a)
    PROVE  /\ Between(a, b) \subseteq Between(a, c)
           /\ Between(b, c) \subseteq Between(a, c)
           /\ Between(a, b) \cap Between(b, c) = {}
           /\ b # c => b \in Between(a, c)
  <1>1. \A d \in Counter : Dist(d, b) < Dist(c, b)
                             => Dist(d, a) = Dist(b, a) + Dist(d, b)
    <2> SUFFICES ASSUME NEW d \in Counter, Dist(d, b) < Dist(c, b)
                 PROVE  Dist(d, a) = Dist(b, a) + Dist(d, b)
      OBVIOUS
    <2>1. /\ Dist(b, a) = IF b < a THEN b - a + Modulus ELSE b - a
          /\ Dist(c, a) = IF c < a THEN c - a + Modulus ELSE c - a
          /\ Dist(c, b) = IF c < b THEN c - b + Modulus ELSE c - b
          /\ Dist(d, a) = IF d < a THEN d - a + Modulus ELSE d - a
          /\ Dist(d, b) = IF d < b THEN d - b + Modulus ELSE d - b
      BY DistCases
    <2> QED BY <2>1, CounterRange
  <1>2. Dist(c, b) = Dist(c, a) - Dist(b, a)
    BY DistSplit
  <1>3. \A d \in Counter : Dist(d, b) \in Counter /\ Dist(d, a) \in Counter
    BY DistMoves
  <1>4. b # c => Dist(b, a) # Dist(c, a)
    BY DistSplit
  <1> QED BY <1>1, <1>2, <1>3, <1>4, CounterRange DEF Between

\* The slot of a position is that of the counter that names it.
LEMMA SlotOf ==
    ASSUME NEW x \in Int, 0 <= x, x < 2 * Modulus
    PROVE  Slot(x % Modulus) = Slot(x) /\ x % Modulus \in Counter
  <1> DEFINE q == Modulus \div QueueSize
  <1>1. q \in Int /\ Modulus = QueueSize * q
    <2>1. Modulus \in Int /\ QueueSize \in Nat \ {0} /\ Modulus % QueueSize = 0
      BY QueueSizeAssumption, ModulusAssumption
    <2>2. q \in Int /\ Modulus = (QueueSize * q) + (Modulus % QueueSize)
      BY <2>1, DivMod
    <2>3. QueueSize * q \in Int
      BY <2>1, <2>2
    <2> HIDE DEF q
    <2> QED BY <2>1, <2>2, <2>3
  <1> HIDE DEF q
  <1>2. x - Modulus \in Int /\ (x - Modulus) + (QueueSize * q) = x
    BY <1>1, CounterRange
  <1>3. ((x - Modulus) + (QueueSize * q)) % QueueSize = (x - Modulus) % QueueSize
    BY <1>1, <1>2, ModShift, QueueSizeAssumption
  <1>4. (x - Modulus) % QueueSize = x % QueueSize
    BY <1>2, <1>3
  <1>5. x % Modulus = IF x < Modulus THEN x ELSE x - Modulus
    BY ModCases, CounterRange
  <1> QED BY <1>4, <1>5, CounterRange DEF Slot

\* The k-th position after a counter.
LEMMA Position ==
    ASSUME NEW a \in Counter, NEW k \in Int, 0 <= k, k < Modulus
    PROVE  /\ (a + k) % Modulus \in Counter
           /\ Dist((a + k) % Modulus, a) = k
           /\ Slot((a + k) % Modulus) = Slot(a + k)
           /\ \A c \in Counter : Dist(c, a) = k => c = (a + k) % Modulus
  <1>1. a + k \in Int /\ 0 <= a + k /\ a + k < 2 * Modulus
    BY CounterRange
  <1>2. (a + k) % Modulus = IF a + k < Modulus THEN a + k ELSE a + k - Modulus
    BY <1>1, ModCases, CounterRange
  <1>3. (a + k) % Modulus \in Counter /\ Slot((a + k) % Modulus) = Slot(a + k)
    BY <1>1, SlotOf
  <1>4. Dist((a + k) % Modulus, a) = k
    <2> DEFINE p == (a + k) % Modulus
    <2>1. p \in Counter /\ p = IF a + k < Modulus THEN a + k ELSE a + k - Modulus
      BY <1>2, <1>3
    <2> HIDE DEF p
    <2>2. Dist(p, a) = IF p < a THEN p - a + Modulus ELSE p - a
      BY <2>1, DistCases
    <2>3. Dist(p, a) = k
      BY <2>1, <2>2, CounterRange
    <2> QED BY <2>3 DEF p
  <1>5. \A c \in Counter : Dist(c, a) = k => c = (a + k) % Modulus
    BY <1>3, <1>4, DistSplit, CounterRange
  <1> QED BY <1>3, <1>4, <1>5

\* Counters of a stretch no longer than the ring name different slots.
LEMMA SlotsDiffer ==
    ASSUME NEW a \in Counter, NEW c \in Counter, NEW d \in Counter,
           Dist(c, a) < QueueSize, Dist(d, a) < QueueSize, Slot(c) = Slot(d)
    PROVE  c = d
  <1> DEFINE i == Dist(c, a)
             j == Dist(d, a)
  <1>1. i \in Counter /\ j \in Counter
    BY DistMoves
  <1>2. c = (a + i) % Modulus /\ d = (a + j) % Modulus
    BY <1>1, Position, CounterRange
  <1>3. Slot(c) = Slot(a + i) /\ Slot(d) = Slot(a + j)
    BY <1>1, <1>2, Position, CounterRange
  <1> HIDE DEF i, j
  <1>4. (a + i) % QueueSize = (a + j) % QueueSize
    BY <1>3 DEF Slot
  <1>5. /\ a + i \in Int /\ a + j \in Int
        /\ -QueueSize < (a + i) - (a + j) /\ (a + i) - (a + j) < QueueSize
    BY <1>1, CounterRange DEF i, j
  <1>6. a + i = a + j
    BY <1>4, <1>5, ModNear, QueueSizeAssumption
  <1> QED BY <1>1, <1>2, <1>6, CounterRange
=============================================================================

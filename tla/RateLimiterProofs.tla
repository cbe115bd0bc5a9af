-------------------------- MODULE RateLimiterProofs ---------------------------
(***************************************************************************)
(* The counters of RateLimiter are exact and allow no double burst, for    *)
(* every value of the constants.  Counters are compared rolled to the same *)
(* instant.                                                                *)
(***************************************************************************)
EXTENDS RateLimiter, FiniteSetTheorems, TLAPS

\* The number of the window of time t.
window(t) == t \div windowMs

\* Windows are aligned.
LEMMA Aligned ==
  ASSUME NEW t \in Nat
  PROVE  /\ window(t) \in Nat /\ alignToWindow(t) \in Nat
         /\ alignToWindow(t) = window(t) * windowMs
         /\ alignToWindow(t) <= t /\ t < alignToWindow(t) + windowMs
<1>1. windowMs \in Nat /\ windowMs > 0
  BY LimiterAssumption
<1>2. t \div windowMs \in Nat /\ t % windowMs \in 0..(windowMs - 1)
  BY <1>1
<1>3. t = windowMs * (t \div windowMs) + (t % windowMs)
  BY <1>1
<1>4. QED
  BY <1>1, <1>2, <1>3 DEF window, alignToWindow

\* Windows are counted as the code counts them.
LEMMA ElapsedWindows ==
  ASSUME NEW s \in Nat, NEW t \in Nat
  PROVE  (alignToWindow(t) - alignToWindow(s)) \div windowMs = window(t) - window(s)
<1> DEFINE k == window(t) - window(s)
<1>1. windowMs \in Nat /\ windowMs > 0 /\ k \in Int
  BY LimiterAssumption, Aligned
<1>2. alignToWindow(t) - alignToWindow(s) = k * windowMs
  BY <1>1, Aligned
<1> HIDE DEF k
<1>3. (k * windowMs) \div windowMs = k
  BY <1>1
<1>4. QED
  BY <1>2, <1>3, Zenon DEF k

\* Later times are in later windows.
LEMMA WindowsInOrder ==
  ASSUME NEW s \in Nat, NEW t \in Nat, s <= t
  PROVE  /\ window(s) <= window(t)
         /\ window(s) = window(t) => alignToWindow(t) = alignToWindow(s)
         /\ t - s >= 2 * windowMs => window(t) - window(s) > 1
<1>1. windowMs \in Nat /\ windowMs > 0
  BY LimiterAssumption
<1>2. /\ window(s) \in Nat /\ window(s) * windowMs <= s /\ s < window(s) * windowMs + windowMs
      /\ window(t) \in Nat /\ window(t) * windowMs <= t /\ t < window(t) * windowMs + windowMs
  BY Aligned, Zenon
<1>3. window(s) <= window(t)
  <2> SUFFICES ASSUME window(t) + 1 <= window(s) PROVE FALSE
    BY <1>2
  <2>1. (window(t) + 1) * windowMs <= window(s) * windowMs
    BY <1>1, <1>2
  <2>2. QED
    BY <1>1, <1>2, <2>1
<1>4. ASSUME t - s >= 2 * windowMs PROVE window(t) - window(s) > 1
  <2> SUFFICES ASSUME window(t) <= window(s) + 1 PROVE FALSE
    BY <1>2
  <2>1. window(t) * windowMs <= (window(s) + 1) * windowMs
    BY <1>1, <1>2
  <2>2. QED
    BY <1>1, <1>2, <1>4, <2>1
<1>5. QED
  BY <1>3, <1>4, Aligned, Zenon

\* A counter last used no later than t, in the window it was last used in.
CounterAt(c, t) ==
  /\ c \in [currentWindowStart : Nat, currentCount : Nat, previousCount : Nat, lastSeenAt : Nat]
  /\ c.lastSeenAt <= t
  /\ c.currentWindowStart = alignToWindow(c.lastSeenAt)

\* A counter that has been rolled to time t.
RolledTo(t, current, previous) ==
  [currentWindowStart |-> alignToWindow(t), currentCount |-> current,
   previousCount |-> previous, lastSeenAt |-> t]

\* What rolling does, by the number of windows that have passed.
LEMMA Rolled ==
  ASSUME NEW t \in Nat, NEW c, CounterAt(c, t)
  PROVE  /\ window(c.lastSeenAt) <= window(t)
         /\ window(t) = window(c.lastSeenAt) =>
              rollWindow(c, t) = RolledTo(t, c.currentCount, c.previousCount)
         /\ window(t) = window(c.lastSeenAt) + 1 => rollWindow(c, t) = RolledTo(t, 0, c.currentCount)
         /\ window(t) > window(c.lastSeenAt) + 1 => rollWindow(c, t) = RolledTo(t, 0, 0)
         /\ CounterAt(rollWindow(c, t), t)
         /\ rollWindow(c, t).lastSeenAt = t
         /\ rollWindow(c, t) = RolledTo(t, rollWindow(c, t).currentCount, rollWindow(c, t).previousCount)
<1> DEFINE s == c.lastSeenAt
           e == (alignToWindow(t) - c.currentWindowStart) \div windowMs
<1>1. /\ s \in Nat /\ s <= t /\ c.currentWindowStart = alignToWindow(s)
      /\ c.currentCount \in Nat /\ c.previousCount \in Nat
      /\ c = [currentWindowStart |-> c.currentWindowStart, currentCount |-> c.currentCount,
              previousCount |-> c.previousCount, lastSeenAt |-> s]
  BY Zenon DEF CounterAt
<1>2. e = window(t) - window(s) /\ window(t) \in Nat /\ window(s) \in Nat /\ window(s) <= window(t)
  BY <1>1, ElapsedWindows, Aligned, WindowsInOrder, Zenon
<1>3. rollWindow(c, t) = IF e < 1 THEN [c EXCEPT !.lastSeenAt = t]
                         ELSE RolledTo(t, 0, IF e = 1 THEN c.currentCount ELSE 0)
  BY Zenon DEF rollWindow, RolledTo
<1> HIDE DEF e
<1>4. CASE window(t) = window(s)
  <2>1. rollWindow(c, t) = RolledTo(t, c.currentCount, c.previousCount)
    <3>1. rollWindow(c, t) = [c EXCEPT !.lastSeenAt = t]
      BY <1>2, <1>3, <1>4
    <3>2. alignToWindow(t) = c.currentWindowStart
      BY <1>1, <1>4, WindowsInOrder, Zenon
    <3>3. QED
      BY <1>1, <3>1, <3>2, Zenon DEF RolledTo
  <2>2. QED
    BY <1>1, <1>2, <1>4, <2>1, Aligned DEF RolledTo, CounterAt
<1>5. CASE window(t) = window(s) + 1
  <2>1. rollWindow(c, t) = RolledTo(t, 0, c.currentCount)
    BY <1>2, <1>3, <1>5
  <2>2. QED
    BY <1>1, <1>2, <1>5, <2>1, Aligned DEF RolledTo, CounterAt
<1>6. CASE window(t) > window(s) + 1
  <2>1. rollWindow(c, t) = RolledTo(t, 0, 0)
    BY <1>2, <1>3, <1>6
  <2>2. QED
    BY <1>1, <1>2, <1>6, <2>1, Aligned DEF RolledTo, CounterAt
<1>7. QED
  BY <1>2, <1>4, <1>5, <1>6

\* Rolling in between makes no difference.
LEMMA RolledTwice ==
  ASSUME NEW s \in Nat, NEW t \in Nat, s <= t, NEW c, CounterAt(c, s)
  PROVE  rollWindow(rollWindow(c, s), t) = rollWindow(c, t) /\ CounterAt(c, t)
<1> DEFINE r == c.lastSeenAt
<1>0. PICK d : d = rollWindow(c, s)
  BY Zenon
<1>1. CounterAt(c, t)
  BY DEF CounterAt
<1>2. CounterAt(d, s) /\ d.lastSeenAt = s
  BY <1>0, Rolled, Zenon
<1>3. CounterAt(d, t)
  BY <1>2, Zenon DEF CounterAt
<1>4. window(r) \in Nat /\ window(s) \in Nat /\ window(t) \in Nat
      /\ window(r) <= window(s) /\ window(s) <= window(t)
  BY Aligned, WindowsInOrder, Zenon DEF CounterAt
<1> SUFFICES rollWindow(d, t) = rollWindow(c, t)
  BY <1>0, <1>1, Zenon
<1>5. CASE window(s) = window(r)
  <2>1. d = RolledTo(s, c.currentCount, c.previousCount)
    BY <1>0, <1>5, Rolled, Zenon
  <2>2. d.currentCount = c.currentCount /\ d.previousCount = c.previousCount
    BY <2>1, Zenon DEF RolledTo
  <2>3. CASE window(t) = window(s)
    BY <1>1, <1>2, <1>3, <1>4, <1>5, <2>2, <2>3, Rolled
  <2>4. CASE window(t) = window(s) + 1
    BY <1>1, <1>2, <1>3, <1>4, <1>5, <2>2, <2>4, Rolled
  <2>5. CASE window(t) > window(s) + 1
    BY <1>1, <1>2, <1>3, <1>4, <1>5, <2>5, Rolled, Zenon
  <2>6. QED
    BY <1>4, <2>3, <2>4, <2>5
<1>6. CASE window(s) > window(r)
  <2>1. d.currentCount = 0 /\ (window(s) > window(r) + 1 => d.previousCount = 0)
        /\ (window(s) = window(r) + 1 => d.previousCount = c.currentCount)
    BY <1>0, <1>4, <1>6, Rolled DEF RolledTo
  <2>2. CASE window(t) = window(s)
    BY <1>1, <1>2, <1>3, <1>4, <1>6, <2>1, <2>2, Rolled
  <2>3. CASE window(t) > window(s)
    <3>1. rollWindow(d, t) = RolledTo(t, 0, 0)
      BY <1>2, <1>3, <1>4, <2>1, <2>3, Rolled
    <3>2. rollWindow(c, t) = RolledTo(t, 0, 0)
      BY <1>1, <1>4, <1>6, <2>3, Rolled
    <3>3. QED
      BY <3>1, <3>2, Zenon
  <2>4. QED
    BY <1>4, <2>2, <2>3
<1>7. QED
  BY <1>1, <1>4, <1>5, <1>6

\* A new counter is one that was rolled to its creation.
LEMMA Created ==
  ASSUME NEW t \in Nat
  PROVE  /\ createState(t) = RolledTo(t, 0, 0)
         /\ CounterAt(createState(t), t)
         /\ rollWindow(createState(t), t) = createState(t)
<1>1. createState(t) = RolledTo(t, 0, 0)
  BY Zenon DEF createState, RolledTo
<1>2. CounterAt(RolledTo(t, 0, 0), t) /\ RolledTo(t, 0, 0).lastSeenAt = t
      /\ RolledTo(t, 0, 0).currentCount = 0 /\ RolledTo(t, 0, 0).previousCount = 0
  BY Aligned DEF CounterAt, RolledTo
<1>3. QED
  BY <1>1, <1>2, Rolled

\* Math.min and Math.max of two numbers.
LEMMA OfTwo ==
  ASSUME NEW a \in Int, NEW b \in Int
  PROVE  /\ Max({a, b}) = IF a >= b THEN a ELSE b
         /\ Min({a, b}) = IF a <= b THEN a ELSE b
<1>1. Max({a, b}) \in {a, b} /\ \A y \in {a, b} : Max({a, b}) >= y
  <2>1. \E x \in {a, b} : \A y \in {a, b} : x >= y
    <3>1. CASE a >= b
      BY <3>1
    <3>2. CASE b >= a
      BY <3>2
    <3>3. QED
      BY <3>1, <3>2
  <2>2. QED
    BY <2>1, Zenon DEF Max
<1>2. Min({a, b}) \in {a, b} /\ \A y \in {a, b} : Min({a, b}) =< y
  <2>1. \E x \in {a, b} : \A y \in {a, b} : x =< y
    <3>1. CASE a =< b
      BY <3>1
    <3>2. CASE b =< a
      BY <3>2
    <3>3. QED
      BY <3>1, <3>2
  <2>2. QED
    BY <2>1, Zenon DEF Min
<1>3. QED
  BY <1>1, <1>2

\* How much of the window that ends at t lies in the aligned window before.
overlapAt(t) == windowMs - (t - alignToWindow(t))

\* The estimate of a rolled counter: the previous window always has some weight.
LEMMA Estimate ==
  ASSUME NEW t \in Nat, NEW current \in Nat, NEW previous \in Nat
  PROVE  /\ overlapAt(t) \in 1..windowMs
         /\ estimateCount(RolledTo(t, current, previous), t) = previous * overlapAt(t) + current * windowMs
         /\ estimateCount(RolledTo(t, current, previous), t) \in Nat
<1> DEFINE c == RolledTo(t, current, previous)
           v == overlapAt(t)
<1>1. windowMs \in Nat /\ windowMs > 0 /\ v \in 1..windowMs
  <2>1. windowMs \in Nat /\ windowMs > 0
    BY LimiterAssumption
  <2>2. alignToWindow(t) \in Nat /\ alignToWindow(t) <= t /\ t < alignToWindow(t) + windowMs
    BY Aligned, Zenon
  <2>3. QED
    BY <2>1, <2>2 DEF overlapAt
<1>2. /\ c.currentWindowStart = alignToWindow(t)
      /\ c.currentCount = current /\ c.previousCount = previous
  BY Zenon DEF RolledTo
<1> HIDE DEF c
<1>3. windowMs - (t - c.currentWindowStart) = v
  BY <1>2, Zenon DEF overlapAt
<1> HIDE DEF v
<1>4. Max({0, v}) = v /\ Min({windowMs, v}) = v
  <2>1. v \in Int /\ 0 \in Int /\ windowMs \in Int /\ v > 0 /\ v <= windowMs
    BY <1>1
  <2>2. Max({0, v}) = IF 0 >= v THEN 0 ELSE v
    BY <2>1, OfTwo, Zenon
  <2>3. Min({windowMs, v}) = IF windowMs <= v THEN windowMs ELSE v
    BY <2>1, OfTwo, Zenon
  <2>4. QED
    BY <2>1, <2>2, <2>3
<1>5. estimateCount(c, t) = previous * v + current * windowMs
  BY <1>2, <1>3, <1>4, Zenon DEF estimateCount
<1>6. previous * v \in Nat /\ current * windowMs \in Nat
  BY <1>1
<1>7. QED
  BY <1>1, <1>5, <1>6 DEF c, v

\* No counter exceeds its limit, and no two neighbouring windows are both full.
WithinLimit(c, limit) ==
  /\ c.currentCount <= limit /\ c.previousCount <= limit
  /\ c.currentCount + c.previousCount < 2 * limit

\* A request that is let through leaves the counter within its limit.
LEMMA Admitted ==
  ASSUME NEW t \in Nat, NEW current \in Nat, NEW previous \in Nat, NEW limit \in Nat,
         previous <= limit,
         estimateCount(RolledTo(t, current, previous), t) + windowMs <= limit * windowMs
  PROVE  WithinLimit(RolledTo(t, current + 1, previous), limit)
<1> DEFINE v == overlapAt(t)
<1>1. windowMs \in Nat /\ windowMs > 0 /\ v \in 1..windowMs
  BY LimiterAssumption, Estimate
<1>2. previous * v + current * windowMs + windowMs <= limit * windowMs
  BY Estimate, Zenon
<1> HIDE DEF v
<1>3. previous * v >= previous /\ previous * v \in Nat
  BY <1>1
<1>4. (current + 1) * windowMs = current * windowMs + windowMs /\ current * windowMs \in Nat
  BY <1>1
<1>5. previous + (current + 1) * windowMs <= limit * windowMs /\ limit * windowMs \in Nat
  BY <1>1, <1>2, <1>3, <1>4
<1>6. current + 1 <= limit
  <2> SUFFICES ASSUME limit + 1 <= current + 1 PROVE FALSE
    OBVIOUS
  <2>1. (limit + 1) * windowMs <= (current + 1) * windowMs
    BY <1>1
  <2>2. (limit + 1) * windowMs = limit * windowMs + windowMs
    BY <1>1
  <2>3. QED
    BY <1>1, <1>4, <1>5, <2>1, <2>2
<1>7. ~(current + 1 = limit /\ previous = limit)
  BY <1>1, <1>5
<1>8. QED
  BY <1>6, <1>7 DEF WithinLimit, RolledTo

\* What is reported as remaining is at least one when another request would pass.
LEMMA RoomIsHonest ==
  ASSUME NEW limit \in Nat, NEW est \in Nat
  PROVE  room(limit, est) >= 1 <=> est + windowMs <= limit * windowMs
<1> DEFINE x == limit * windowMs - est
           q == x \div windowMs
<1>1. windowMs \in Nat /\ windowMs > 0 /\ limit * windowMs \in Nat /\ x \in Int
  BY LimiterAssumption
<1> HIDE DEF x
<1>2. q \in Int /\ x = windowMs * q + (x % windowMs) /\ x % windowMs \in 0..(windowMs - 1)
  BY <1>1
<1> HIDE DEF q
<1>3. q >= 1 <=> x >= windowMs
  <2>1. ASSUME q >= 1 PROVE x >= windowMs
    <3>1. windowMs * q >= windowMs /\ windowMs * q \in Int
      BY <1>1, <1>2, <2>1
    <3>2. QED
      BY <1>1, <1>2, <3>1
  <2>2. ASSUME q <= 0 PROVE x < windowMs
    <3>1. windowMs * q <= 0 /\ windowMs * q \in Int
      BY <1>1, <1>2, <2>2
    <3>2. QED
      BY <1>1, <1>2, <3>1
  <2>3. QED
    BY <1>1, <1>2, <2>1, <2>2
<1>4. room(limit, est) = IF 0 >= q THEN 0 ELSE q
  BY <1>2, OfTwo DEF room, x, q
<1>5. QED
  BY <1>1, <1>2, <1>3, <1>4 DEF x

\* One more for one attestor is one more in all.
LEMMA UnitsAdd ==
  ASSUME NEW f \in [Attestor -> Nat], NEW a \in Attestor, IsFiniteSet(units(f)),
         NEW g \in [Attestor -> Nat], g[a] = f[a] + 1, \A b \in Attestor \ {a} : g[b] = f[b]
  PROVE  IsFiniteSet(units(g)) /\ Cardinality(units(g)) = Cardinality(units(f)) + 1
<1> DEFINE new == <<a, f[a] + 1>>
<1>1. \A x : x \in units(f) <=> \E b \in Attestor : \E n \in 1..f[b] : x = <<b, n>>
  BY DEF units
<1>2. \A x : x \in units(g) <=> \E b \in Attestor : \E n \in 1..g[b] : x = <<b, n>>
  BY DEF units
<1>3. new \notin units(f)
  <2> SUFFICES ASSUME new \in units(f) PROVE FALSE
    BY Zenon
  <2>1. PICK b \in Attestor : \E n \in 1..f[b] : new = <<b, n>>
    BY <1>1, Zenon
  <2>1a. PICK n \in 1..f[b] : new = <<b, n>>
    BY <2>1, Zenon
  <2>2. b = a /\ n = f[a] + 1
    BY <2>1a, Zenon
  <2>3. QED
    BY <2>1a, <2>2
<1>4. units(g) = units(f) \cup {new}
  <2>1. ASSUME NEW x \in units(g) PROVE x \in units(f) \cup {new}
    <3>1. PICK b \in Attestor : \E n \in 1..g[b] : x = <<b, n>>
      BY <1>2, <2>1, Zenon
    <3>1a. PICK n \in 1..g[b] : x = <<b, n>>
      BY <3>1, Zenon
    <3>2. CASE b # a
      <4>1. n \in 1..f[b]
        BY <3>1a, <3>2, Zenon
      <4>2. QED
        BY <1>1, <3>1a, <4>1, Zenon
    <3>3. CASE b = a /\ n = f[a] + 1
      BY <3>1a, <3>3, Zenon
    <3>4. CASE b = a /\ n # f[a] + 1
      <4>1. n \in 1..f[b]
        BY <3>1a, <3>4
      <4>2. QED
        BY <1>1, <3>1a, <4>1, Zenon
    <3>5. QED
      BY <3>2, <3>3, <3>4, Zenon
  <2>2. ASSUME NEW x \in units(f) PROVE x \in units(g)
    <3>1. PICK b \in Attestor : \E n \in 1..f[b] : x = <<b, n>>
      BY <1>1, <2>2, Zenon
    <3>1a. PICK n \in 1..f[b] : x = <<b, n>>
      BY <3>1, Zenon
    <3>2. n \in 1..g[b]
      <4>1. CASE b = a
        BY <3>1a, <4>1
      <4>2. CASE b # a
        BY <3>1a, <4>2, Zenon
      <4>3. QED
        BY <4>1, <4>2, Zenon
    <3>3. QED
      BY <1>2, <3>1a, <3>2, Zenon
  <2>3. new \in units(g)
    <3>1. f[a] + 1 \in 1..g[a]
      OBVIOUS
    <3>2. QED
      BY <1>2, <3>1, Zenon
  <2>4. QED
    BY <2>1, <2>2, <2>3, Zenon
<1>5. QED
  BY <1>3, <1>4, FS_AddElement

\* Nothing for anyone is nothing in all.
LEMMA UnitsNone ==
  units([a \in Attestor |-> 0]) = {} /\ IsFiniteSet(units([a \in Attestor |-> 0]))
    /\ Cardinality(units([a \in Attestor |-> 0])) = 0
<1>1. units([a \in Attestor |-> 0]) = {}
  BY DEF units
<1>2. QED
  BY <1>1, FS_EmptySet, Zenon

\* The counters, pruned or not, rolled to now.
ideal(a) == rollWindow(unpruned[a], now)

total == rollWindow(global, now)

\* The grants to S between two instants, and in the current and in the previous
\* aligned window.
grantsBetween(S, first, last) ==
  {i \in DOMAIN granted : granted[i].by \in S /\ granted[i].at \in first..last}

currentGrants(S) == grantsBetween(S, alignToWindow(now), now)

previousGrants(S) == grantsBetween(S, alignToWindow(now) - windowMs, alignToWindow(now) - 1)

\* A counter knows of all the grants to S in the two windows.
GrantsCounted(S, c) ==
  /\ Cardinality(currentGrants(S)) <= c.currentCount
  /\ Cardinality(previousGrants(S)) <= c.previousCount

\* Grants are not in the future.
GrantsTyped ==
  /\ now \in Nat
  /\ granted \in Seq([by : Attestor, at : Nat])
  /\ \A i \in DOMAIN granted : granted[i].at <= now

\* The fields of a grant.
LEMMA GrantTimes ==
  ASSUME GrantsTyped
  PROVE  \A i \in DOMAIN granted :
           granted[i].at \in Nat /\ granted[i].at <= now /\ granted[i].by \in Attestor
<1> DEFINE Grant == [by : Attestor, at : Nat]
<1> SUFFICES ASSUME NEW i \in DOMAIN granted
             PROVE  granted[i] \in Grant
  BY Zenon DEF GrantsTyped
<1>1. granted \in Seq(Grant)
  BY Zenon DEF GrantsTyped
<1> HIDE DEF Grant
<1>2. QED
  BY <1>1

\* A set of grants can be counted, and a smaller one has no more.
LEMMA GrantsFinite ==
  ASSUME NEW n \in Nat, NEW T \in SUBSET (1..n), NEW U \in SUBSET T
  PROVE  /\ IsFiniteSet(T) /\ IsFiniteSet(U) /\ Cardinality(T) \in Nat /\ Cardinality(U) \in Nat
         /\ Cardinality(U) <= Cardinality(T)
<1>1. IsFiniteSet(1..n)
  BY FS_Interval
<1>2. IsFiniteSet(T)
  BY <1>1, FS_Subset, Zenon
<1>3. QED
  BY <1>2, FS_Subset, FS_CardinalityType, Zenon

\* The window that ends now lies in two aligned ones, which are not both full.
LEMMA NoBurstNow ==
  ASSUME GrantsTyped, NEW S, NEW limit \in Nat,
         NEW c \in [currentWindowStart : Nat, currentCount : Nat, previousCount : Nat, lastSeenAt : Nat],
         GrantsCounted(S, c), WithinLimit(c, limit)
  PROVE  Cardinality(grantedIn(S, now)) < 2 * limit
<1> DEFINE C == currentGrants(S)
           P == previousGrants(S)
           n == Len(granted)
<1>1. n \in Nat /\ DOMAIN granted = 1..n
  BY DEF GrantsTyped
<1>2. C \in SUBSET (1..n) /\ P \in SUBSET (1..n)
  BY <1>1, Zenon DEF currentGrants, previousGrants, grantsBetween
<1>3. grantedIn(S, now) \in SUBSET (C \cup P)
  <2> SUFFICES ASSUME NEW i \in grantedIn(S, now) PROVE i \in C \cup P
    BY Zenon
  <2>1. i \in DOMAIN granted /\ granted[i].by \in S /\ granted[i].at \in (now - windowMs + 1)..now
    BY Zenon DEF grantedIn
  <2>2. /\ alignToWindow(now) \in Nat /\ alignToWindow(now) <= now /\ now < alignToWindow(now) + windowMs
        /\ windowMs \in Nat /\ now \in Nat
    BY Aligned, LimiterAssumption, Zenon DEF GrantsTyped
  <2>3. CASE granted[i].at >= alignToWindow(now)
    BY <2>1, <2>2, <2>3 DEF currentGrants, grantsBetween
  <2>4. CASE granted[i].at < alignToWindow(now)
    BY <2>1, <2>2, <2>4 DEF previousGrants, grantsBetween
  <2>5. QED
    BY <2>1, <2>2, <2>3, <2>4
<1>4. IsFiniteSet(C) /\ IsFiniteSet(P) /\ Cardinality(C) \in Nat /\ Cardinality(P) \in Nat
  BY <1>1, <1>2, GrantsFinite, Zenon
<1> HIDE DEF C, P
<1>5. Cardinality(C \cup P) <= Cardinality(C) + Cardinality(P) /\ IsFiniteSet(C \cup P)
  <2>1. /\ IsFiniteSet(C \cup P)
        /\ Cardinality(C \cup P) = Cardinality(C) + Cardinality(P) - Cardinality(C \cap P)
    BY <1>4, FS_Union, Zenon
  <2>2. Cardinality(C \cap P) \in Nat
    BY <1>4, FS_Intersection, FS_CardinalityType, Zenon
  <2>3. QED
    BY <1>4, <2>1, <2>2
<1>6. /\ Cardinality(grantedIn(S, now)) <= Cardinality(C \cup P)
      /\ Cardinality(grantedIn(S, now)) \in Nat /\ Cardinality(C \cup P) \in Nat
  BY <1>3, <1>5, FS_Subset, FS_CardinalityType, Zenon
<1>7. /\ Cardinality(C) <= c.currentCount /\ Cardinality(P) <= c.previousCount
      /\ c.currentCount \in Nat /\ c.previousCount \in Nat /\ c.currentCount + c.previousCount < 2 * limit
  BY Zenon DEF GrantsCounted, WithinLimit, C, P
<1>8. QED
  BY <1>4, <1>5, <1>6, <1>7

\* idleRetentionMs is at least the two windows of the default
\* (DEFAULT_IDLE_RETENTION_MULTIPLIER, rateLimiter.ts:24-26, 34, 104-105).
KeepsTwoWindows == 2 * windowMs <= idleRetentionMs

\* The counters that prune() leaves, and those it would have left, agree.
TrackInv ==
  /\ now \in Nat
  /\ DOMAIN perAttestor \subseteq Attestor
  /\ unpruned \in [Attestor -> [currentWindowStart : Nat, currentCount : Nat,
                               previousCount : Nat, lastSeenAt : Nat]]
  /\ \A a \in DOMAIN perAttestor : CounterAt(perAttestor[a], now)
  /\ \A a \in Attestor : CounterAt(unpruned[a], now)
  /\ CounterAt(global, now)
  /\ \A a \in Attestor :
       ideal(a) = IF a \in DOMAIN perAttestor THEN rollWindow(perAttestor[a], now) ELSE createState(now)

\* Rolling again at the same instant changes nothing.
LEMMA RolledStays ==
  ASSUME NEW t \in Nat, NEW x \in Nat, NEW y \in Nat
  PROVE  /\ CounterAt(RolledTo(t, x, y), t) /\ rollWindow(RolledTo(t, x, y), t) = RolledTo(t, x, y)
         /\ RolledTo(t, x, y).currentCount = x /\ RolledTo(t, x, y).previousCount = y
         /\ counted(RolledTo(t, x, y)) = RolledTo(t, x + 1, y)
<1>1. /\ CounterAt(RolledTo(t, x, y), t) /\ RolledTo(t, x, y).lastSeenAt = t
      /\ RolledTo(t, x, y).currentCount = x /\ RolledTo(t, x, y).previousCount = y
  BY Aligned DEF CounterAt, RolledTo
<1>2. counted(RolledTo(t, x, y)) = RolledTo(t, x + 1, y)
  BY DEF counted, RolledTo
<1>3. QED
  BY <1>1, <1>2, Rolled

\* What the invariant says of the rolled counters.
LEMMA IdealCounters ==
  ASSUME TrackInv
  PROVE  /\ \A a \in Attestor : /\ ideal(a).currentCount \in Nat /\ ideal(a).previousCount \in Nat
                               /\ ideal(a) = RolledTo(now, ideal(a).currentCount, ideal(a).previousCount)
                               /\ CounterAt(ideal(a), now)
         /\ total.currentCount \in Nat /\ total.previousCount \in Nat
         /\ total = RolledTo(now, total.currentCount, total.previousCount)
         /\ CounterAt(total, now)
<1>1. ASSUME NEW c, CounterAt(c, now)
      PROVE  /\ CounterAt(rollWindow(c, now), now)
             /\ rollWindow(c, now).currentCount \in Nat /\ rollWindow(c, now).previousCount \in Nat
             /\ rollWindow(c, now) = RolledTo(now, rollWindow(c, now).currentCount, rollWindow(c, now).previousCount)
  <2>1. /\ CounterAt(rollWindow(c, now), now)
        /\ rollWindow(c, now) = RolledTo(now, rollWindow(c, now).currentCount, rollWindow(c, now).previousCount)
    BY <1>1, Rolled, Zenon DEF TrackInv
  <2>2. QED
    BY <2>1, Zenon DEF CounterAt
<1>2. QED
  BY <1>1, Zenon DEF ideal, total, TrackInv

\* A counter that prune() may discard counts nothing any more.
LEMMA PrunedEmpty ==
  ASSUME TrackInv, KeepsTwoWindows, NEW a \in DOMAIN perAttestor, a \notin kept(now)
  PROVE  rollWindow(perAttestor[a], now) = createState(now)
<1> DEFINE c == perAttestor[a]
<1>1. CounterAt(c, now) /\ c.lastSeenAt \in Nat /\ c.lastSeenAt <= now /\ now \in Nat
  BY Zenon DEF TrackInv, CounterAt
<1>2. now - c.lastSeenAt >= 2 * windowMs
  BY <1>1, LimiterAssumption DEF kept, KeepsTwoWindows
<1>3. window(now) - window(c.lastSeenAt) > 1 /\ window(now) \in Nat /\ window(c.lastSeenAt) \in Nat
  BY <1>1, <1>2, WindowsInOrder, Aligned, Zenon
<1>4. window(now) > window(c.lastSeenAt) + 1
  BY <1>3
<1>5. QED
  BY <1>1, <1>4, Rolled, Created, Zenon

\* Whichever entries are pruned, the counters agree.
LEMMA AgreeAfterPrune ==
  ASSUME TrackInv, KeepsTwoWindows, NEW T, T = kept(now) \/ T = DOMAIN perAttestor
  PROVE  /\ T \subseteq DOMAIN perAttestor
         /\ \A a \in Attestor :
              ideal(a) = IF a \in T THEN rollWindow(perAttestor[a], now) ELSE createState(now)
<1>1. T \subseteq DOMAIN perAttestor
  BY Zenon DEF kept
<1>2. ASSUME NEW a \in Attestor
      PROVE  ideal(a) = IF a \in T THEN rollWindow(perAttestor[a], now) ELSE createState(now)
  <2>1. ideal(a) = IF a \in DOMAIN perAttestor THEN rollWindow(perAttestor[a], now) ELSE createState(now)
    BY Zenon DEF TrackInv
  <2>2. CASE a \in T \/ a \notin DOMAIN perAttestor
    BY <1>1, <2>1, <2>2, Zenon
  <2>3. CASE a \in DOMAIN perAttestor /\ a \notin T
    BY <2>1, <2>3, PrunedEmpty, Zenon
  <2>4. QED
    BY <2>2, <2>3, Zenon
<1>3. QED
  BY <1>1, <1>2, Zenon

\* What checkAndConsume does to the rolled counters: one more in both, and the
\* limits had room for it, or nothing.
LEMMA CheckStep ==
  ASSUME TrackInv, KeepsTwoWindows, back = 0, NEW a \in Attestor, checkAndConsume(a)
  PROVE  /\ TrackInv' /\ now' = now /\ back' = back
         /\ \A b \in Attestor \ {a} : ideal(b)' = ideal(b)
         /\ \/ ideal(a)' = ideal(a) /\ total' = total /\ granted' = granted
            \/ /\ ideal(a)' = RolledTo(now, ideal(a).currentCount + 1, ideal(a).previousCount)
               /\ total' = RolledTo(now, total.currentCount + 1, total.previousCount)
               /\ granted' = Append(granted, [by |-> a, at |-> now])
               /\ estimateCount(ideal(a), now) + windowMs <= perAttestorLimit * windowMs
               /\ estimateCount(total, now) + windowMs <= globalLimit * windowMs
         /\ answer' = [by |-> a, at |-> now,
                       remaining |-> room(perAttestorLimit, estimateCount(ideal(a)', now)),
                       remainingGlobal |-> room(globalLimit, estimateCount(total', now))]
<1> DEFINE due == pruneIntervalCalls > 0 /\ callsSincePrune + 1 >= pruneIntervalCalls
           tracked == IF due THEN kept(now) ELSE DOMAIN perAttestor
           mine == rollWindow(IF a \in tracked THEN perAttestor[a] ELSE createState(now), now)
           all == rollWindow(global, now)
           ownOk == estimateCount(mine, now) + windowMs <= perAttestorLimit * windowMs
           allOk == estimateCount(all, now) + windowMs <= globalLimit * windowMs
           after == consume(<<mine, all>>, ownOk, allOk)
           own == consume(<<rollWindow(unpruned[a], now), all>>, ownOk, allOk)[1]
<1>0. ~(back > 0)
  OBVIOUS
<1>1. /\ perAttestor' = [b \in tracked \cup {a} |-> IF b = a THEN after[1] ELSE perAttestor[b]]
      /\ global' = after[2]
      /\ unpruned' = [unpruned EXCEPT ![a] = own]
      /\ granted' = IF ownOk /\ allOk THEN Append(granted, [by |-> a, at |-> now]) ELSE granted
      /\ answer' = [by |-> a, at |-> now, remaining |-> room(perAttestorLimit, estimateCount(after[1], now)),
                    remainingGlobal |-> room(globalLimit, estimateCount(after[2], now))]
      /\ now' = now /\ back' = back
  BY <1>0, Zenon DEF checkAndConsume
<1>2. PICK T : T = tracked /\ (T = kept(now) \/ T = DOMAIN perAttestor)
  BY Zenon
<1>3. mine = ideal(a)
  <2>1. ideal(a) = IF a \in T THEN rollWindow(perAttestor[a], now) ELSE createState(now)
    BY <1>2, AgreeAfterPrune, Zenon
  <2>2. CASE a \in T
    BY <1>2, <2>1, <2>2, Zenon
  <2>3. CASE a \notin T
    <3>1. mine = rollWindow(createState(now), now)
      BY <1>2, <2>3, Zenon
    <3>2. QED
      BY <2>1, <2>3, <3>1, Created, Zenon DEF TrackInv
  <2>4. QED
    BY <2>2, <2>3, Zenon
<1>4. PICK x, y, u, v, ok :
        /\ x = ideal(a).currentCount /\ y = ideal(a).previousCount
        /\ u = total.currentCount /\ v = total.previousCount
        /\ ok \in BOOLEAN /\ ok = (ownOk /\ allOk)
  BY Zenon
<1>5. /\ x \in Nat /\ y \in Nat /\ u \in Nat /\ v \in Nat /\ now \in Nat
      /\ mine = RolledTo(now, x, y) /\ all = RolledTo(now, u, v)
      /\ ideal(a) = RolledTo(now, x, y) /\ total = RolledTo(now, u, v)
  <2>1. all = total
    BY Zenon DEF total
  <2>2. QED
    BY <1>3, <1>4, <2>1, IdealCounters, Zenon DEF TrackInv
<1> DEFINE x1 == IF ok THEN x + 1 ELSE x
           u1 == IF ok THEN u + 1 ELSE u
<1>6. after = <<RolledTo(now, x1, y), RolledTo(now, u1, v)>> /\ own = RolledTo(now, x1, y)
  <2>1. rollWindow(unpruned[a], now) = mine
    BY <1>3, Zenon DEF ideal
  <2>2. CASE ok
    <3>1. after = <<counted(mine), counted(all)>> /\ own = <<counted(mine), counted(all)>>[1]
      BY <1>4, <2>1, <2>2, Zenon DEF consume
    <3> HIDE DEF after, own, mine, all
    <3>2. counted(mine) = RolledTo(now, x + 1, y) /\ counted(all) = RolledTo(now, u + 1, v)
      BY <1>5, RolledStays
    <3>3. QED
      BY <2>2, <3>1, <3>2, Zenon
  <2>3. CASE ~ok
    <3>1. after = <<mine, all>> /\ own = <<mine, all>>[1]
      BY <1>4, <2>1, <2>3, Zenon DEF consume
    <3> HIDE DEF after, own, mine, all
    <3>3. QED
      BY <2>3, <3>1, <1>5, Zenon
  <2>4. QED
    BY <2>2, <2>3, Zenon
<1>7. ok => /\ estimateCount(ideal(a), now) + windowMs <= perAttestorLimit * windowMs
            /\ estimateCount(total, now) + windowMs <= globalLimit * windowMs
  BY <1>3, <1>4, Zenon DEF total
<1>8. granted' = IF ok THEN Append(granted, [by |-> a, at |-> now]) ELSE granted
  BY <1>1, <1>4, Zenon
<1>9. /\ perAttestor' = [b \in T \cup {a} |-> IF b = a THEN after[1] ELSE perAttestor[b]]
      /\ T \subseteq DOMAIN perAttestor
      /\ \A b \in Attestor : ideal(b) = IF b \in T THEN rollWindow(perAttestor[b], now) ELSE createState(now)
  BY <1>1, <1>2, AgreeAfterPrune, Zenon
<1> HIDE DEF after, own, mine, all, ownOk, allOk, tracked, due
<1>10. /\ x1 \in Nat /\ u1 \in Nat
  BY <1>5
<1> HIDE DEF x1, u1
<1>11. after[1] = RolledTo(now, x1, y) /\ after[2] = RolledTo(now, u1, v)
  BY <1>6, Zenon
<1>12. /\ unpruned'[a] = RolledTo(now, x1, y) /\ global' = RolledTo(now, u1, v)
       /\ \A b \in Attestor \ {a} : unpruned'[b] = unpruned[b]
  BY <1>1, <1>6, <1>11, Zenon DEF TrackInv
<1>13. ideal(a)' = RolledTo(now, x1, y) /\ total' = RolledTo(now, u1, v)
  <2>1. /\ rollWindow(RolledTo(now, x1, y), now) = RolledTo(now, x1, y)
        /\ rollWindow(RolledTo(now, u1, v), now) = RolledTo(now, u1, v)
    <3>1. rollWindow(RolledTo(now, x1, y), now) = RolledTo(now, x1, y)
      BY <1>5, <1>10, RolledStays
    <3>2. rollWindow(RolledTo(now, u1, v), now) = RolledTo(now, u1, v)
      BY <1>5, <1>10, RolledStays
    <3>3. QED
      BY <3>1, <3>2, Zenon
  <2>2. QED
    BY <1>1, <1>12, <2>1, Zenon DEF ideal, total
<1>14. \A b \in Attestor \ {a} : ideal(b)' = ideal(b)
  BY <1>1, <1>12, Zenon DEF ideal
<1>15. TrackInv'
  <2>1. DOMAIN perAttestor' = T \cup {a} /\ DOMAIN perAttestor' \subseteq Attestor
    BY <1>9, Zenon DEF TrackInv
  <2>2. CounterAt(RolledTo(now, x1, y), now) /\ CounterAt(RolledTo(now, u1, v), now)
    BY <1>5, <1>10, RolledStays, Zenon
  <2>3. unpruned' \in [Attestor -> [currentWindowStart : Nat, currentCount : Nat,
                               previousCount : Nat, lastSeenAt : Nat]]
    BY <1>1, <1>6, <2>2, Zenon DEF TrackInv, CounterAt
  <2>4. ASSUME NEW b \in Attestor
        PROVE  CounterAt(unpruned[b], now)'
    <3>1. CounterAt(unpruned'[b], now)
      BY <1>12, <2>2, Zenon DEF TrackInv
    <3>2. QED
      BY <1>1, <3>1, Zenon DEF CounterAt
  <2>5. perAttestor'[a] = RolledTo(now, x1, y) /\ \A b \in T \ {a} : perAttestor'[b] = perAttestor[b]
    BY <1>9, <1>11, Zenon
  <2>6. ASSUME NEW b \in DOMAIN perAttestor'
        PROVE  CounterAt(perAttestor[b], now)'
    <3>1. CounterAt(perAttestor'[b], now)
      BY <1>9, <2>1, <2>2, <2>5, Zenon DEF TrackInv
    <3>2. QED
      BY <1>1, <3>1, Zenon DEF CounterAt
  <2>7. CounterAt(global, now)'
    BY <1>1, <1>12, <2>2, Zenon DEF CounterAt
  <2>8. ASSUME NEW b \in Attestor
        PROVE  ideal(b)' = IF b \in DOMAIN perAttestor' THEN rollWindow(perAttestor'[b], now) ELSE createState(now)
    <3>1. CASE b = a
      <4>1. rollWindow(RolledTo(now, x1, y), now) = RolledTo(now, x1, y)
        BY <1>5, <1>10, RolledStays
      <4>2. QED
        BY <1>13, <2>1, <2>5, <3>1, <4>1, Zenon
    <3>2. CASE b # a
      BY <1>9, <1>14, <2>1, <2>5, <3>2, Zenon
    <3>3. QED
      BY <3>1, <3>2, Zenon
  <2>9. QED
    BY <1>1, <1>5, <2>1, <2>3, <2>4, <2>6, <2>7, <2>8, Zenon DEF TrackInv
<1>16. \/ ideal(a)' = ideal(a) /\ total' = total /\ granted' = granted
       \/ /\ ideal(a)' = RolledTo(now, ideal(a).currentCount + 1, ideal(a).previousCount)
          /\ total' = RolledTo(now, total.currentCount + 1, total.previousCount)
          /\ granted' = Append(granted, [by |-> a, at |-> now])
          /\ estimateCount(ideal(a), now) + windowMs <= perAttestorLimit * windowMs
          /\ estimateCount(total, now) + windowMs <= globalLimit * windowMs
  <2>1. CASE ok
    BY <1>4, <1>7, <1>8, <1>13, <2>1, Zenon DEF x1, u1
  <2>2. CASE ~ok
    BY <1>5, <1>8, <1>13, <2>2, Zenon DEF x1, u1
  <2>3. QED
    BY <2>1, <2>2, Zenon
<1>17. QED
  BY <1>1, <1>11, <1>13, <1>14, <1>15, <1>16, Zenon

\* What the passing of time does to the rolled counters.
LEMMA ClockStep ==
  ASSUME TrackInv, NEW t \in Nat, now < t, now' = t, perAttestor' = perAttestor,
         global' = global, unpruned' = unpruned
  PROVE  /\ TrackInv'
         /\ \A a \in Attestor : ideal(a)' = rollWindow(ideal(a), t)
         /\ total' = rollWindow(total, t)
<1>1. now \in Nat /\ now <= t
  BY DEF TrackInv
<1>2. ASSUME NEW c, CounterAt(c, now)
      PROVE  CounterAt(c, t) /\ rollWindow(rollWindow(c, now), t) = rollWindow(c, t)
  BY <1>1, <1>2, RolledTwice, Zenon
<1>3. \A a \in Attestor : CounterAt(unpruned[a], t) /\ ideal(a)' = rollWindow(ideal(a), t)
  BY <1>2, Zenon DEF TrackInv, ideal
<1>4. CounterAt(global, t) /\ total' = rollWindow(total, t)
  BY <1>2, Zenon DEF TrackInv, total
<1>5. \A a \in DOMAIN perAttestor :
         CounterAt(perAttestor[a], t) /\ rollWindow(rollWindow(perAttestor[a], now), t) = rollWindow(perAttestor[a], t)
  BY <1>2, Zenon DEF TrackInv
<1>6. rollWindow(createState(now), t) = createState(t)
  <2>1. /\ createState(now) = RolledTo(now, 0, 0) /\ createState(t) = RolledTo(t, 0, 0)
        /\ CounterAt(createState(now), now)
    BY <1>1, Created, Zenon
  <2>2. CounterAt(createState(now), t)
    BY <1>2, <2>1, Zenon
  <2>3. /\ createState(now).currentCount = 0 /\ createState(now).previousCount = 0
        /\ createState(now).lastSeenAt = now
    BY <2>1 DEF RolledTo
  <2>4. window(now) \in Nat /\ window(t) \in Nat /\ window(now) <= window(t)
    BY <1>1, Aligned, WindowsInOrder, Zenon
  <2>5. QED
    BY <2>1, <2>2, <2>3, <2>4, Rolled
<1>7. ASSUME NEW a \in Attestor
      PROVE  ideal(a)' = IF a \in DOMAIN perAttestor THEN rollWindow(perAttestor[a], t) ELSE createState(t)
  <2>1. ideal(a) = IF a \in DOMAIN perAttestor THEN rollWindow(perAttestor[a], now) ELSE createState(now)
    BY Zenon DEF TrackInv
  <2>2. ideal(a)' = rollWindow(ideal(a), t)
    BY <1>3, Zenon
  <2>3. QED
    BY <1>5, <1>6, <2>1, <2>2, Zenon
<1>8. TrackInv'
  <2>1. \A a \in Attestor : CounterAt(unpruned[a], now)'
    BY <1>3, Zenon DEF CounterAt
  <2>2. \A a \in DOMAIN perAttestor' : CounterAt(perAttestor[a], now)'
    BY <1>5, Zenon DEF CounterAt
  <2>3. CounterAt(global, now)'
    BY <1>4, Zenon DEF CounterAt
  <2>4. QED
    BY <1>7, <2>1, <2>2, <2>3, Zenon DEF TrackInv
<1>9. QED
  BY <1>3, <1>4, <1>8, Zenon

\* What the passing of time does to the grants in the two windows.
LEMMA ClockGrants ==
  ASSUME GrantsTyped, NEW t \in Nat, now < t, now' = t, granted' = granted,
         NEW S, NEW c, CounterAt(c, now), c.lastSeenAt = now, GrantsCounted(S, c)
  PROVE  GrantsCounted(S, rollWindow(c, t))'
<1> DEFINE w == windowMs
           A == alignToWindow(now)
           B == alignToWindow(t)
<1>1. now \in Nat /\ w \in Nat /\ w > 0
  BY LimiterAssumption DEF GrantsTyped
<1>2. /\ A \in Nat /\ A <= now /\ now < A + w /\ A = window(now) * w /\ window(now) \in Nat
      /\ B \in Nat /\ B <= t /\ t < B + w /\ B = window(t) * w /\ window(t) \in Nat
      /\ window(now) <= window(t)
  <2>1. A \in Nat /\ A <= now /\ now < A + w /\ A = window(now) * w /\ window(now) \in Nat
    BY <1>1, Aligned, Zenon
  <2>2. B \in Nat /\ B <= t /\ t < B + w /\ B = window(t) * w /\ window(t) \in Nat
    BY Aligned, Zenon
  <2>3. now <= t
    BY <1>1
  <2>4. window(now) <= window(t)
    BY <1>1, <2>3, WindowsInOrder, Zenon
  <2>5. QED
    BY <2>1, <2>2, <2>4, Zenon
<1>3. \A i \in DOMAIN granted : granted[i].at \in Nat /\ granted[i].at <= now
  BY GrantTimes, Zenon
<1>4. /\ c.currentCount \in Nat /\ c.previousCount \in Nat /\ CounterAt(c, t)
      /\ Cardinality(currentGrants(S)) <= c.currentCount
      /\ Cardinality(previousGrants(S)) <= c.previousCount
  BY <1>1 DEF CounterAt, GrantsCounted
<1>5. /\ currentGrants(S)' = {i \in DOMAIN granted : granted[i].by \in S /\ granted[i].at \in B..t}
      /\ previousGrants(S)' = {i \in DOMAIN granted : granted[i].by \in S /\ granted[i].at \in (B - w)..(B - 1)}
      /\ currentGrants(S) = {i \in DOMAIN granted : granted[i].by \in S /\ granted[i].at \in A..now}
      /\ previousGrants(S) = {i \in DOMAIN granted : granted[i].by \in S /\ granted[i].at \in (A - w)..(A - 1)}
  BY Zenon DEF currentGrants, previousGrants, grantsBetween
<1> HIDE DEF A, B
<1>6. CASE window(t) = window(now)
  <2>1. B = A
    BY <1>2, <1>6, Zenon
  <2>2. currentGrants(S)' = currentGrants(S) /\ previousGrants(S)' = previousGrants(S)
    BY <1>1, <1>2, <1>3, <1>5, <2>1
  <2>3. rollWindow(c, t).currentCount = c.currentCount /\ rollWindow(c, t).previousCount = c.previousCount
    BY <1>4, <1>6, Rolled DEF RolledTo
  <2>4. QED
    BY <1>4, <2>2, <2>3, Zenon DEF GrantsCounted
<1>7. CASE window(t) = window(now) + 1
  <2>1. B = A + w
    BY <1>1, <1>2, <1>7
  <2>2. currentGrants(S)' = {}
    BY <1>1, <1>2, <1>3, <1>5, <2>1
  <2>3. previousGrants(S)' = currentGrants(S)
    BY <1>1, <1>2, <1>3, <1>5, <2>1
  <2>4. rollWindow(c, t).currentCount = 0 /\ rollWindow(c, t).previousCount = c.currentCount
    BY <1>4, <1>7, Rolled DEF RolledTo
  <2>5. QED
    BY <1>4, <2>2, <2>3, <2>4, FS_EmptySet DEF GrantsCounted
<1>8. CASE window(t) > window(now) + 1
  <2>1. B >= A + 2 * w
    <3>1. window(t) * w >= (window(now) + 2) * w
      BY <1>1, <1>2, <1>8
    <3>2. QED
      BY <1>1, <1>2, <3>1
  <2>2. currentGrants(S)' = {} /\ previousGrants(S)' = {}
    BY <1>1, <1>2, <1>3, <1>5, <2>1
  <2>3. rollWindow(c, t).currentCount = 0 /\ rollWindow(c, t).previousCount = 0
    BY <1>4, <1>8, Rolled DEF RolledTo
  <2>4. QED
    BY <2>2, <2>3, FS_EmptySet DEF GrantsCounted
<1>9. QED
  BY <1>2, <1>6, <1>7, <1>8

\* No window that ended before now had twice as many grants as the limit.
PastBursts(S, limit) == \A t \in 0..(now - 1) : Cardinality(grantedIn(S, t)) < 2 * limit

\* A window that ends later, without a grant in between, has no more than the one
\* that ends now.
LEMMA ClockBursts ==
  ASSUME GrantsTyped, NEW t \in Nat, now < t, now' = t, granted' = granted,
         NEW S, NEW limit \in Nat, PastBursts(S, limit), Cardinality(grantedIn(S, now)) < 2 * limit
  PROVE  PastBursts(S, limit)'
<1> SUFFICES ASSUME NEW u \in 0..(t - 1)
             PROVE  Cardinality(grantedIn(S, u)') < 2 * limit
  BY Zenon DEF PastBursts, grantedIn
<1>1. grantedIn(S, u)' = grantedIn(S, u) /\ now \in Nat /\ windowMs \in Nat
  BY LimiterAssumption, Zenon DEF grantedIn, GrantsTyped
<1>2. CASE u < now
  BY <1>1, <1>2 DEF PastBursts
<1>3. CASE now <= u
  <2>1. grantedIn(S, u) \in SUBSET grantedIn(S, now)
    <3> SUFFICES ASSUME NEW i \in grantedIn(S, u) PROVE i \in grantedIn(S, now)
      BY Zenon
    <3>1. /\ i \in DOMAIN granted /\ granted[i].by \in S /\ granted[i].at \in (u - windowMs + 1)..u
          /\ granted[i].at <= now /\ granted[i].at \in Nat
      BY GrantTimes, Zenon DEF grantedIn
    <3>2. granted[i].at \in (now - windowMs + 1)..now
      BY <1>1, <1>3, <3>1
    <3>3. QED
      BY <3>1, <3>2, Zenon DEF grantedIn
  <2>2. grantedIn(S, now) \in SUBSET (1..Len(granted)) /\ Len(granted) \in Nat
    BY DEF grantedIn, GrantsTyped
  <2>3. /\ Cardinality(grantedIn(S, u)) <= Cardinality(grantedIn(S, now))
        /\ Cardinality(grantedIn(S, u)) \in Nat /\ Cardinality(grantedIn(S, now)) \in Nat
    BY <2>1, <2>2, GrantsFinite, Zenon
  <2>4. QED
    BY <1>1, <2>3
<1>4. QED
  BY <1>1, <1>2, <1>3

\* What a grant to a does to the grants to S.
LEMMA CheckGrants ==
  ASSUME GrantsTyped, NEW a \in Attestor, now' = now,
         granted' = Append(granted, [by |-> a, at |-> now]),
         NEW S, NEW c, c.currentCount \in Nat, c.previousCount \in Nat, GrantsCounted(S, c),
         NEW limit \in Nat, PastBursts(S, limit)
  PROVE  /\ GrantsTyped' /\ PastBursts(S, limit)'
         /\ a \notin S => GrantsCounted(S, c)'
         /\ \A d : d.currentCount = c.currentCount + 1 /\ d.previousCount = c.previousCount =>
              GrantsCounted(S, d)'
<1> DEFINE new == [by |-> a, at |-> now]
           k == Len(granted) + 1
<1>1. now \in Nat /\ windowMs \in Nat /\ alignToWindow(now) \in Nat /\ alignToWindow(now) <= now
  BY LimiterAssumption, Aligned, Zenon DEF GrantsTyped
<1>2. new \in [by : Attestor, at : Nat] /\ new.by = a /\ new.at = now
  BY <1>1, Zenon
<1> HIDE DEF new
<1>3. /\ granted' \in Seq([by : Attestor, at : Nat])
      /\ DOMAIN granted' = DOMAIN granted \cup {k} /\ k \notin DOMAIN granted
      /\ granted'[k] = new /\ \A i \in DOMAIN granted : granted'[i] = granted[i]
      /\ Len(granted) \in Nat /\ DOMAIN granted = 1..Len(granted)
  <2>1. granted \in Seq([by : Attestor, at : Nat]) /\ granted' = Append(granted, new)
    BY Zenon DEF GrantsTyped, new
  <2> DEFINE Grant == [by : Attestor, at : Nat]
  <2>2. granted \in Seq(Grant) /\ new \in Grant
    BY <1>2, <2>1, Zenon
  <2> HIDE DEF Grant
  <2>3. /\ granted' \in Seq(Grant)
        /\ DOMAIN granted' = DOMAIN granted \cup {k} /\ k \notin DOMAIN granted
        /\ granted'[k] = new /\ \A i \in DOMAIN granted : granted'[i] = granted[i]
        /\ Len(granted) \in Nat /\ DOMAIN granted = 1..Len(granted)
    BY <2>1, <2>2
  <2>4. QED
    BY <2>3, Zenon DEF Grant
<1>4. GrantsTyped'
  BY <1>1, <1>2, <1>3, GrantTimes DEF GrantsTyped
<1>5. ASSUME NEW u \in 0..(now - 1)
      PROVE  Cardinality(grantedIn(S, u)') < 2 * limit
  <2>1. grantedIn(S, u)' = grantedIn(S, u)
    <3>1. \A x : now \notin x..u
      BY <1>1
    <3>2. QED
      BY <1>2, <1>3, <3>1, Zenon DEF grantedIn
  <2>2. QED
    BY <2>1, Zenon DEF PastBursts
<1>6. previousGrants(S)' = previousGrants(S)
  <2>1. \A x : now \notin x..(alignToWindow(now) - 1)
    BY <1>1
  <2>2. QED
    BY <1>2, <1>3, <2>1, Zenon DEF previousGrants, grantsBetween
<1>7. /\ currentGrants(S)' \in SUBSET (currentGrants(S) \cup {k})
      /\ a \notin S => currentGrants(S)' = currentGrants(S)
  BY <1>2, <1>3, Zenon DEF currentGrants, grantsBetween
<1>8. IsFiniteSet(currentGrants(S)) /\ Cardinality(currentGrants(S)) \in Nat
  <2>1. currentGrants(S) \in SUBSET (1..Len(granted))
    BY <1>3, Zenon DEF currentGrants, grantsBetween
  <2>2. QED
    BY <1>3, <2>1, GrantsFinite, Zenon
<1>9. /\ IsFiniteSet(currentGrants(S) \cup {k})
      /\ Cardinality(currentGrants(S) \cup {k}) <= Cardinality(currentGrants(S)) + 1
      /\ Cardinality(currentGrants(S) \cup {k}) \in Nat
  <2>1. /\ IsFiniteSet(currentGrants(S) \cup {k})
        /\ Cardinality(currentGrants(S) \cup {k}) =
             IF k \in currentGrants(S) THEN Cardinality(currentGrants(S)) ELSE Cardinality(currentGrants(S)) + 1
    BY <1>8, FS_AddElement, Zenon
  <2>2. QED
    BY <1>8, <2>1
<1>10. /\ Cardinality(currentGrants(S)') <= Cardinality(currentGrants(S)) + 1
       /\ Cardinality(currentGrants(S)') \in Nat
  <2>1. /\ Cardinality(currentGrants(S)') <= Cardinality(currentGrants(S) \cup {k})
        /\ IsFiniteSet(currentGrants(S)')
    BY <1>7, <1>9, FS_Subset, Zenon
  <2>2. Cardinality(currentGrants(S)') \in Nat
    BY <2>1, FS_CardinalityType, Zenon
  <2>3. QED
    BY <1>8, <1>9, <2>1, <2>2
<1>11. PastBursts(S, limit)'
  BY <1>5, Zenon DEF PastBursts
<1>12. ASSUME a \notin S PROVE GrantsCounted(S, c)'
  BY <1>6, <1>7, <1>12, Zenon DEF GrantsCounted
<1>13. ASSUME NEW d, d.currentCount = c.currentCount + 1, d.previousCount = c.previousCount
       PROVE  GrantsCounted(S, d)'
  BY <1>6, <1>8, <1>10, <1>13 DEF GrantsCounted
<1>14. QED
  BY <1>4, <1>11, <1>12, <1>13, Zenon

\* No counter is over its limit.
LimitInv ==
  /\ \A a \in Attestor : WithinLimit(ideal(a), perAttestorLimit)
  /\ WithinLimit(total, globalLimit)

\* The counts, attestor by attestor.
currentCounts == [a \in Attestor |-> ideal(a).currentCount]

previousCounts == [a \in Attestor |-> ideal(a).previousCount]

\* The global counter is the sum of the others, in both windows.
UnitsInv ==
  /\ IsFiniteSet(units(currentCounts)) /\ total.currentCount = Cardinality(units(currentCounts))
  /\ IsFiniteSet(units(previousCounts)) /\ total.previousCount = Cardinality(units(previousCounts))

\* The counters know of every grant that could still matter.
GrantsInv ==
  /\ GrantsTyped
  /\ \A a \in Attestor : GrantsCounted({a}, ideal(a)) /\ PastBursts({a}, perAttestorLimit)
  /\ GrantsCounted(Attestor, total) /\ PastBursts(Attestor, globalLimit)

\* What was answered at this instant is what the counters still say.
AnswerInv ==
  answer # NoAnswer =>
    /\ answer.by \in Attestor /\ answer.at \in Nat /\ answer.at <= now
    /\ answer.at = now =>
         /\ answer.remaining = room(perAttestorLimit, estimateCount(ideal(answer.by), now))
         /\ answer.remainingGlobal = room(globalLimit, estimateCount(total, now))

\* The invariant, while the clock has not stepped back.
LimiterExact == TrackInv /\ LimitInv /\ UnitsInv /\ GrantsInv /\ AnswerInv

\* After a step that leaves the rolled counters and the grants alone.
LEMMA SameCounters ==
  ASSUME LimiterExact, TrackInv', now' = now, granted' = granted, total' = total,
         \A a \in Attestor : ideal(a)' = ideal(a)
  PROVE  LimitInv' /\ UnitsInv' /\ GrantsInv'
<1>1. LimitInv'
  BY Zenon DEF LimiterExact, LimitInv, WithinLimit
<1>2. UnitsInv'
  <2>1. currentCounts' = currentCounts /\ previousCounts' = previousCounts
    BY Zenon DEF currentCounts, previousCounts
  <2>2. QED
    BY <2>1, Zenon DEF LimiterExact, UnitsInv, units
<1>3. GrantsTyped' /\ \A S, c : GrantsCounted(S, c)' <=> GrantsCounted(S, c)
  BY Zenon DEF LimiterExact, GrantsInv, GrantsTyped, GrantsCounted, currentGrants, previousGrants, grantsBetween
<1>4. \A S, limit : PastBursts(S, limit)' <=> PastBursts(S, limit)
  BY Zenon DEF PastBursts, grantedIn
<1>5. GrantsInv'
  <2>1. ASSUME NEW a \in Attestor PROVE GrantsCounted({a}, ideal(a))'
    <3>1. GrantsCounted({a}, ideal(a))
      BY Zenon DEF LimiterExact, GrantsInv
    <3>2. QED
      BY <3>1, Zenon DEF GrantsCounted, currentGrants, previousGrants, grantsBetween
  <2>2. GrantsCounted(Attestor, total)'
    <3>1. GrantsCounted(Attestor, total)
      BY Zenon DEF LimiterExact, GrantsInv
    <3>2. QED
      BY <3>1, Zenon DEF GrantsCounted, currentGrants, previousGrants, grantsBetween
  <2>3. QED
    BY <1>3, <1>4, <2>1, <2>2, Zenon DEF LimiterExact, GrantsInv
<1>6. QED
  BY <1>1, <1>2, <1>5, Zenon

\* Every check, allowed or refused, keeps the invariant.
LEMMA CheckKeeps ==
  ASSUME LimiterExact, KeepsTwoWindows, back = 0, NEW a \in Attestor, checkAndConsume(a)
  PROVE  LimiterExact' /\ back' = 0
<1>1. /\ TrackInv' /\ now' = now /\ back' = back
      /\ \A b \in Attestor \ {a} : ideal(b)' = ideal(b)
      /\ answer' = [by |-> a, at |-> now,
                    remaining |-> room(perAttestorLimit, estimateCount(ideal(a)', now)),
                    remainingGlobal |-> room(globalLimit, estimateCount(total', now))]
      /\ now \in Nat /\ perAttestorLimit \in Nat /\ globalLimit \in Nat
  BY CheckStep, LimiterAssumption, Zenon DEF LimiterExact, TrackInv
<1>2. AnswerInv'
  <2>1. /\ answer'.by = a /\ answer'.at = now
        /\ answer'.remaining = room(perAttestorLimit, estimateCount(ideal(a)', now))
        /\ answer'.remainingGlobal = room(globalLimit, estimateCount(total', now))
    BY <1>1, Zenon
  <2>2. ideal(answer.by)' = ideal(a)'
    BY <2>1, Zenon DEF ideal
  <2>3. estimateCount(ideal(answer.by), now)' = estimateCount(ideal(a)', now)
    BY <1>1, <2>2, Zenon DEF estimateCount
  <2>4. estimateCount(total, now)' = estimateCount(total', now)
    BY <1>1, Zenon DEF estimateCount
  <2>5. QED
    BY <1>1, <2>1, <2>3, <2>4 DEF AnswerInv, room
<1>3. CASE ideal(a)' = ideal(a) /\ total' = total /\ granted' = granted
  BY <1>1, <1>2, <1>3, SameCounters, Zenon DEF LimiterExact
<1>4. ASSUME /\ ideal(a)' = RolledTo(now, ideal(a).currentCount + 1, ideal(a).previousCount)
             /\ total' = RolledTo(now, total.currentCount + 1, total.previousCount)
             /\ granted' = Append(granted, [by |-> a, at |-> now])
             /\ estimateCount(ideal(a), now) + windowMs <= perAttestorLimit * windowMs
             /\ estimateCount(total, now) + windowMs <= globalLimit * windowMs
      PROVE  LimitInv' /\ UnitsInv' /\ GrantsInv'
  <2>1. /\ \A b \in Attestor : /\ ideal(b).currentCount \in Nat /\ ideal(b).previousCount \in Nat
                              /\ ideal(b) = RolledTo(now, ideal(b).currentCount, ideal(b).previousCount)
        /\ total.currentCount \in Nat /\ total.previousCount \in Nat
        /\ total = RolledTo(now, total.currentCount, total.previousCount)
    BY IdealCounters, Zenon DEF LimiterExact
  <2>2. /\ ideal(a)'.currentCount = ideal(a).currentCount + 1 /\ ideal(a)'.previousCount = ideal(a).previousCount
        /\ total'.currentCount = total.currentCount + 1 /\ total'.previousCount = total.previousCount
    BY <1>4 DEF RolledTo
  <2>3. LimitInv'
    <3>1. WithinLimit(ideal(a)', perAttestorLimit)
      <4>1. ideal(a).previousCount <= perAttestorLimit
        BY Zenon DEF LimiterExact, LimitInv, WithinLimit
      <4>2. estimateCount(RolledTo(now, ideal(a).currentCount, ideal(a).previousCount), now) + windowMs
              <= perAttestorLimit * windowMs
        BY <1>4, <2>1, Zenon
      <4>3. WithinLimit(RolledTo(now, ideal(a).currentCount + 1, ideal(a).previousCount), perAttestorLimit)
        BY <1>1, <2>1, <4>1, <4>2, Admitted, Zenon
      <4>4. QED
        BY <1>4, <4>3, Zenon
    <3>2. WithinLimit(total', globalLimit)
      <4>1. total.previousCount <= globalLimit
        BY Zenon DEF LimiterExact, LimitInv, WithinLimit
      <4>2. estimateCount(RolledTo(now, total.currentCount, total.previousCount), now) + windowMs
              <= globalLimit * windowMs
        BY <1>4, <2>1, Zenon
      <4>3. WithinLimit(RolledTo(now, total.currentCount + 1, total.previousCount), globalLimit)
        BY <1>1, <2>1, <4>1, <4>2, Admitted, Zenon
      <4>4. QED
        BY <1>4, <4>3, Zenon
    <3>3. QED
      BY <1>1, <3>1, <3>2, Zenon DEF LimiterExact, LimitInv, WithinLimit
  <2>4. UnitsInv'
    <3>1. /\ currentCounts \in [Attestor -> Nat] /\ currentCounts' \in [Attestor -> Nat]
          /\ currentCounts'[a] = currentCounts[a] + 1
          /\ \A b \in Attestor \ {a} : currentCounts'[b] = currentCounts[b]
      BY <1>1, <2>1, <2>2 DEF currentCounts
    <3>2. previousCounts' = previousCounts
      BY <1>1, <2>2, Zenon DEF previousCounts
    <3>3. /\ IsFiniteSet(units(currentCounts))
          /\ total.currentCount = Cardinality(units(currentCounts))
      BY Zenon DEF LimiterExact, UnitsInv
    <3>4. /\ IsFiniteSet(units(currentCounts'))
          /\ Cardinality(units(currentCounts')) = Cardinality(units(currentCounts)) + 1
      BY <3>1, <3>3, UnitsAdd, Zenon
    <3>5. QED
      BY <2>2, <3>2, <3>3, <3>4, Zenon DEF LimiterExact, UnitsInv
  <2>5. GrantsInv'
    <3>1. ASSUME NEW b \in Attestor
          PROVE  GrantsTyped' /\ GrantsCounted({b}, ideal(b))' /\ PastBursts({b}, perAttestorLimit)'
      <4>1. GrantsTyped /\ GrantsCounted({b}, ideal(b)) /\ PastBursts({b}, perAttestorLimit)
        BY Zenon DEF LimiterExact, GrantsInv
      <4>2. /\ GrantsTyped' /\ PastBursts({b}, perAttestorLimit)'
            /\ a \notin {b} => \A d : d = ideal(b) => GrantsCounted({b}, d)'
            /\ \A d : d.currentCount = ideal(b).currentCount + 1 /\ d.previousCount = ideal(b).previousCount =>
                 GrantsCounted({b}, d)'
        <5>1. PICK c : c = ideal(b)
          BY Zenon
        <5>2. c.currentCount \in Nat /\ c.previousCount \in Nat /\ GrantsCounted({b}, c)
          BY <2>1, <4>1, <5>1, Zenon
        <5>3. QED
          BY <1>1, <1>4, <4>1, <5>1, <5>2, CheckGrants, ZenonT(30)
      <4>3. PICK d : d = ideal(b)'
        BY Zenon
      <4>4. GrantsCounted({b}, d)'
        <5>1. CASE b = a
          BY <2>2, <4>2, <4>3, <5>1, Zenon
        <5>2. CASE b # a
          BY <1>1, <4>2, <4>3, <5>2, Zenon
        <5>3. QED
          BY <5>1, <5>2, Zenon
      <4>5. QED
        BY <4>2, <4>3, <4>4, Zenon DEF GrantsCounted
    <3>2. GrantsCounted(Attestor, total)' /\ PastBursts(Attestor, globalLimit)'
      <4>1. GrantsTyped /\ GrantsCounted(Attestor, total) /\ PastBursts(Attestor, globalLimit)
        BY Zenon DEF LimiterExact, GrantsInv
      <4>2. PICK c : c = total
        BY Zenon
      <4>3. c.currentCount \in Nat /\ c.previousCount \in Nat /\ GrantsCounted(Attestor, c)
        BY <2>1, <4>1, <4>2, Zenon
      <4>4. PICK d : d = total'
        BY Zenon
      <4>5. d.currentCount = c.currentCount + 1 /\ d.previousCount = c.previousCount
        BY <2>2, <4>2, <4>4, Zenon
      <4>6. GrantsCounted(Attestor, d)' /\ PastBursts(Attestor, globalLimit)'
        BY <1>1, <1>4, <4>1, <4>3, <4>5, CheckGrants, Zenon
      <4>7. QED
        BY <4>4, <4>6, Zenon DEF GrantsCounted
    <3>3. QED
      BY <3>1, <3>2, Zenon DEF GrantsInv
  <2>6. QED
    BY <2>3, <2>4, <2>5, Zenon
<1>5. QED
  BY <1>1, <1>2, <1>3, <1>4, CheckStep, Zenon DEF LimiterExact

\* Time passes.
LEMMA ClockKeeps ==
  ASSUME LimiterExact, NEW t \in Nat, now < t, now' = t, perAttestor' = perAttestor, global' = global,
         unpruned' = unpruned, granted' = granted, answer' = answer
  PROVE  LimiterExact'
<1>1. /\ TrackInv' /\ total' = rollWindow(total, t)
      /\ \A a \in Attestor : ideal(a)' = rollWindow(ideal(a), t)
  BY ClockStep, Zenon DEF LimiterExact
<1>2. /\ now \in Nat /\ window(now) \in Nat /\ window(t) \in Nat /\ window(now) <= window(t)
      /\ perAttestorLimit \in Nat /\ globalLimit \in Nat /\ perAttestorLimit > 0 /\ globalLimit > 0
  <2>1. now \in Nat /\ now <= t
    BY DEF LimiterExact, TrackInv
  <2>2. window(now) \in Nat /\ window(t) \in Nat
    BY <2>1, Aligned, Zenon
  <2>3. window(now) <= window(t)
    BY <2>1, WindowsInOrder, Zenon
  <2>4. QED
    BY <2>1, <2>2, <2>3, LimiterAssumption
<1>3. /\ \A a \in Attestor : /\ CounterAt(ideal(a), now) /\ CounterAt(ideal(a), t) /\ ideal(a).lastSeenAt = now
                            /\ ideal(a).currentCount \in Nat /\ ideal(a).previousCount \in Nat
      /\ CounterAt(total, now) /\ CounterAt(total, t) /\ total.lastSeenAt = now
      /\ total.currentCount \in Nat /\ total.previousCount \in Nat
  <2>1. ASSUME NEW c, c = RolledTo(now, c.currentCount, c.previousCount), CounterAt(c, now)
        PROVE  CounterAt(c, t) /\ c.lastSeenAt = now
    BY <1>2, <2>1 DEF CounterAt, RolledTo
  <2>2. QED
    BY <2>1, IdealCounters, Zenon DEF LimiterExact
<1>4. ASSUME NEW c, CounterAt(c, t), c.lastSeenAt = now
      PROVE  /\ window(t) = window(now) => /\ rollWindow(c, t).currentCount = c.currentCount
                                          /\ rollWindow(c, t).previousCount = c.previousCount
             /\ window(t) = window(now) + 1 => /\ rollWindow(c, t).currentCount = 0
                                              /\ rollWindow(c, t).previousCount = c.currentCount
             /\ window(t) > window(now) + 1 => /\ rollWindow(c, t).currentCount = 0
                                              /\ rollWindow(c, t).previousCount = 0
  BY <1>4, Rolled DEF RolledTo
<1>5. LimitInv'
  <2>1. ASSUME NEW c, CounterAt(c, t), c.lastSeenAt = now, c.currentCount \in Nat, c.previousCount \in Nat,
               NEW limit \in Nat, limit > 0, WithinLimit(c, limit)
        PROVE  WithinLimit(rollWindow(c, t), limit)
    BY <1>2, <1>4, <2>1 DEF WithinLimit
  <2>2. \A a \in Attestor : WithinLimit(rollWindow(ideal(a), t), perAttestorLimit)
    BY <1>2, <1>3, <2>1, Zenon DEF LimiterExact, LimitInv
  <2>3. WithinLimit(rollWindow(total, t), globalLimit)
    BY <1>2, <1>3, <2>1, Zenon DEF LimiterExact, LimitInv
  <2>4. QED
    BY <1>1, <2>2, <2>3, Zenon DEF LimitInv, WithinLimit
<1>6. UnitsInv'
  <2>1. /\ currentCounts' = [a \in Attestor |-> rollWindow(ideal(a), t).currentCount]
        /\ previousCounts' = [a \in Attestor |-> rollWindow(ideal(a), t).previousCount]
    BY <1>1, Zenon DEF currentCounts, previousCounts
  <2>2. CASE window(t) = window(now)
    <3>1. currentCounts' = currentCounts /\ previousCounts' = previousCounts
      BY <1>3, <1>4, <2>1, <2>2, Zenon DEF currentCounts, previousCounts
    <3>2. total'.currentCount = total.currentCount /\ total'.previousCount = total.previousCount
      BY <1>1, <1>3, <1>4, <2>2, Zenon
    <3>3. QED
      BY <3>1, <3>2, Zenon DEF LimiterExact, UnitsInv
  <2>3. CASE window(t) = window(now) + 1
    <3>1. currentCounts' = [a \in Attestor |-> 0] /\ previousCounts' = currentCounts
      BY <1>3, <1>4, <2>1, <2>3, Zenon DEF currentCounts, previousCounts
    <3>2. total'.currentCount = 0 /\ total'.previousCount = total.currentCount
      BY <1>1, <1>3, <1>4, <2>3, Zenon
    <3>3. QED
      BY <3>1, <3>2, UnitsNone, Zenon DEF LimiterExact, UnitsInv
  <2>4. CASE window(t) > window(now) + 1
    <3>1. currentCounts' = [a \in Attestor |-> 0] /\ previousCounts' = [a \in Attestor |-> 0]
      BY <1>3, <1>4, <2>1, <2>4, Zenon
    <3>2. total'.currentCount = 0 /\ total'.previousCount = 0
      BY <1>1, <1>3, <1>4, <2>4, Zenon
    <3>3. QED
      BY <3>1, <3>2, UnitsNone, Zenon DEF UnitsInv
  <2>5. QED
    BY <1>2, <2>2, <2>3, <2>4
<1>7. GrantsInv'
  <2>1. ASSUME NEW S, NEW c, CounterAt(c, now), c.lastSeenAt = now, c.currentCount \in Nat,
               c.previousCount \in Nat, GrantsCounted(S, c), NEW limit \in Nat, WithinLimit(c, limit),
               PastBursts(S, limit)
        PROVE  GrantsCounted(S, rollWindow(c, t))' /\ PastBursts(S, limit)'
    <3>1. GrantsTyped
      BY Zenon DEF LimiterExact, GrantsInv
    <3>2. GrantsCounted(S, rollWindow(c, t))'
      BY <2>1, <3>1, ClockGrants, Zenon
    <3>3. c \in [currentWindowStart : Nat, currentCount : Nat, previousCount : Nat, lastSeenAt : Nat]
      BY <2>1, Zenon DEF CounterAt
    <3>4. Cardinality(grantedIn(S, now)) < 2 * limit
      BY <2>1, <3>1, <3>3, NoBurstNow, Zenon
    <3>5. QED
      BY <2>1, <3>1, <3>2, <3>4, ClockBursts, Zenon
  <2>2. ASSUME NEW a \in Attestor
        PROVE  GrantsCounted({a}, ideal(a))' /\ PastBursts({a}, perAttestorLimit)'
    <3>1. PICK c : c = ideal(a)
      BY Zenon
    <3>2. /\ CounterAt(c, now) /\ c.lastSeenAt = now /\ c.currentCount \in Nat /\ c.previousCount \in Nat
          /\ GrantsCounted({a}, c) /\ WithinLimit(c, perAttestorLimit) /\ PastBursts({a}, perAttestorLimit)
      BY <1>3, <3>1, Zenon DEF LimiterExact, LimitInv, GrantsInv
    <3>3. GrantsCounted({a}, rollWindow(c, t))' /\ PastBursts({a}, perAttestorLimit)'
      BY <1>2, <2>1, <3>2, Zenon
    <3>4. ideal(a)' = rollWindow(c, t)
      BY <1>1, <3>1, Zenon
    <3>5. QED
      BY <3>3, <3>4, Zenon DEF GrantsCounted
  <2>3. GrantsCounted(Attestor, total)' /\ PastBursts(Attestor, globalLimit)'
    <3>1. PICK c : c = total
      BY Zenon
    <3>2. /\ CounterAt(c, now) /\ c.lastSeenAt = now /\ c.currentCount \in Nat /\ c.previousCount \in Nat
          /\ GrantsCounted(Attestor, c) /\ WithinLimit(c, globalLimit) /\ PastBursts(Attestor, globalLimit)
      BY <1>3, <3>1, Zenon DEF LimiterExact, LimitInv, GrantsInv
    <3>3. GrantsCounted(Attestor, rollWindow(c, t))' /\ PastBursts(Attestor, globalLimit)'
      BY <1>2, <2>1, <3>2, Zenon
    <3>4. total' = rollWindow(c, t)
      BY <1>1, <3>1, Zenon
    <3>5. QED
      BY <3>3, <3>4, Zenon DEF GrantsCounted
  <2>4. GrantsTyped'
    <3>1. \A i \in DOMAIN granted : granted[i].at \in Nat /\ granted[i].at <= now
      BY GrantTimes, Zenon DEF LimiterExact, GrantsInv
    <3>2. \A i \in DOMAIN granted : granted[i].at <= t
      BY <1>2, <3>1
    <3>3. QED
      BY <3>2, Zenon DEF LimiterExact, GrantsInv, GrantsTyped
  <2>5. QED
    BY <2>2, <2>3, <2>4, Zenon DEF GrantsInv
<1>8. AnswerInv'
  BY <1>2 DEF LimiterExact, AnswerInv
<1>9. QED
  BY <1>1, <1>5, <1>6, <1>7, <1>8, Zenon DEF LimiterExact

\* All counters new: at the start, and after a reset.
Fresh ==
  /\ now \in Nat /\ perAttestor = << >> /\ global = createState(now)
  /\ unpruned = [a \in Attestor |-> createState(now)] /\ granted = << >> /\ answer = NoAnswer

\* New counters satisfy the invariant.
LEMMA FreshCounters == Fresh => LimiterExact
<1> DEFINE t == now
<1> SUFFICES ASSUME Fresh PROVE LimiterExact
  BY Zenon
<1>0. /\ t \in Nat /\ perAttestor = << >> /\ global = createState(t)
      /\ unpruned = [a \in Attestor |-> createState(t)] /\ granted = << >> /\ answer = NoAnswer
  BY Zenon DEF Fresh
<1>1. /\ createState(t) = RolledTo(t, 0, 0) /\ CounterAt(createState(t), t)
      /\ rollWindow(createState(t), t) = createState(t)
      /\ createState(t).currentCount = 0 /\ createState(t).previousCount = 0
  BY <1>0, Created, Zenon DEF createState
<1>2. (\A a \in Attestor : ideal(a) = createState(t)) /\ total = createState(t)
  BY <1>0, <1>1, Zenon DEF ideal, total
<1>3. TrackInv
  BY <1>0, <1>1, <1>2 DEF TrackInv, CounterAt
<1>4. LimitInv
  BY <1>1, <1>2, LimiterAssumption DEF LimitInv, WithinLimit
<1>5. UnitsInv
  <2>1. currentCounts = [a \in Attestor |-> 0] /\ previousCounts = [a \in Attestor |-> 0]
    BY <1>1, <1>2, Zenon DEF currentCounts, previousCounts
  <2>2. QED
    BY <1>1, <1>2, <2>1, UnitsNone, Zenon DEF UnitsInv
<1>6. GrantsInv
  <2>1. DOMAIN granted = {} /\ GrantsTyped
    BY <1>0 DEF GrantsTyped
  <2>2. \A S : /\ currentGrants(S) = {} /\ previousGrants(S) = {}
               /\ \A u \in Int : grantedIn(S, u) = {}
    BY <2>1, Zenon DEF currentGrants, previousGrants, grantsBetween, grantedIn
  <2>3. \A S : GrantsCounted(S, createState(t))
    BY <1>1, <2>2, FS_EmptySet DEF GrantsCounted
  <2>4. \A S : \A limit \in Nat : limit > 0 => PastBursts(S, limit)
    BY <1>0, <2>2, FS_EmptySet DEF PastBursts
  <2>5. QED
    BY <1>2, <2>1, <2>3, <2>4, LimiterAssumption DEF GrantsInv
<1>7. QED
  BY <1>0, <1>3, <1>4, <1>5, <1>6, Zenon DEF LimiterExact, AnswerInv

\* Steps back of the clock are counted, and not undone.
LimiterInv == back \in Nat /\ (back = 0 => LimiterExact)

\* The invariant of the limiter, step by step.
LEMMA LimiterInvKept ==
  ASSUME KeepsTwoWindows, LimiterInv, [LimiterNext]_limiterVars, Fresh' => LimiterExact'
  PROVE  LimiterInv'
<1>1. CASE \E a \in Attestor : checkAndConsume(a)
  <2>1. PICK a \in Attestor : checkAndConsume(a)
    BY <1>1, Zenon
  <2>2. back' = back
    BY <2>1, Zenon DEF checkAndConsume
  <2>3. CASE back = 0
    BY <2>1, <2>3, CheckKeeps, Zenon DEF LimiterInv
  <2>4. QED
    BY <2>2, <2>3, Zenon DEF LimiterInv
<1>2. CASE prune
  <2>1. /\ perAttestor' = Restrict(perAttestor, kept(now)) /\ global' = global /\ now' = now
        /\ answer' = answer /\ unpruned' = unpruned /\ granted' = granted /\ back' = back
    BY <1>2, Zenon DEF prune
  <2> SUFFICES ASSUME back = 0 PROVE LimiterExact'
    BY <2>1, Zenon DEF LimiterInv
  <2>2. LimiterExact
    BY Zenon DEF LimiterInv
  <2>3. (\A a \in Attestor : ideal(a)' = ideal(a)) /\ total' = total
    BY <2>1, Zenon DEF ideal, total
  <2>4. /\ DOMAIN perAttestor' = kept(now) /\ kept(now) \subseteq DOMAIN perAttestor
        /\ \A a \in kept(now) : perAttestor'[a] = perAttestor[a]
    BY <2>1, Zenon DEF Restrict, kept
  <2>5. \A a \in Attestor : ideal(a) = IF a \in kept(now) THEN rollWindow(perAttestor[a], now) ELSE createState(now)
    BY <2>2, AgreeAfterPrune, Zenon DEF LimiterExact
  <2>6. TrackInv'
    <3>1. TrackInv
      BY <2>2, Zenon DEF LimiterExact
    <3>2. ASSUME NEW a \in DOMAIN perAttestor' PROVE CounterAt(perAttestor[a], now)'
      <4>1. CounterAt(perAttestor[a], now) /\ perAttestor'[a] = perAttestor[a] /\ now' = now
        BY <2>1, <2>4, <3>1, Zenon DEF TrackInv
      <4>2. QED
        BY <4>1, Zenon DEF CounterAt
    <3>3. (\A a \in Attestor : CounterAt(unpruned[a], now)') /\ CounterAt(global, now)'
      BY <2>1, <3>1, Zenon DEF TrackInv, CounterAt
    <3>4. \A a \in Attestor :
            ideal(a)' = IF a \in DOMAIN perAttestor' THEN rollWindow(perAttestor'[a], now') ELSE createState(now')
      BY <2>1, <2>3, <2>4, <2>5, Zenon
    <3>5. QED
      BY <2>1, <2>4, <3>1, <3>2, <3>3, <3>4, Zenon DEF TrackInv
  <2>7. LimitInv' /\ UnitsInv' /\ GrantsInv'
    BY <2>1, <2>2, <2>3, <2>6, SameCounters, Zenon
  <2>8. AnswerInv'
    <3>1. AnswerInv
      BY <2>2, Zenon DEF LimiterExact
    <3>2. \A a \in Attestor : estimateCount(ideal(a), now)' = estimateCount(ideal(a), now)
      BY <2>1, <2>3, Zenon DEF estimateCount
    <3>3. estimateCount(total, now)' = estimateCount(total, now)
      BY <2>1, <2>3, Zenon DEF estimateCount
    <3>4. QED
      BY <2>1, <3>1, <3>2, <3>3, Zenon DEF AnswerInv, ideal
  <2>9. QED
    BY <2>6, <2>7, <2>8, Zenon DEF LimiterExact
<1>3. CASE reset
  <2>1. back' = back /\ now' = now /\ perAttestor' = << >> /\ global' = createState(now)
        /\ granted' = << >> /\ answer' = NoAnswer
        /\ unpruned' = [a \in Attestor |-> createState(IF back > 0 THEN 0 ELSE now)]
    BY <1>3, Zenon DEF reset
  <2> SUFFICES ASSUME back = 0 PROVE LimiterExact'
    BY <2>1, Zenon DEF LimiterInv
  <2>2. Fresh'
    <3>1. now \in Nat /\ ~(back > 0)
      BY DEF LimiterInv, LimiterExact, TrackInv
    <3>2. createState(now)' = createState(now)
      BY <2>1, Zenon DEF createState, alignToWindow
    <3>3. QED
      BY <2>1, <3>1, <3>2, Zenon DEF Fresh
  <2>3. QED
    BY <2>2, Zenon
<1>4. CASE \E t \in 0..MaxTime : ClockMoves(t)
  <2>1. PICK t \in 0..MaxTime : ClockMoves(t)
    BY <1>4, Zenon
  <2>2. t \in Nat /\ t # now /\ now' = t /\ perAttestor' = perAttestor /\ global' = global
    BY <2>1, LimiterAssumption DEF ClockMoves
  <2>3. CASE t < now
    <3>1. back' = back + 1
      BY <2>1, <2>3, Zenon DEF ClockMoves
    <3>2. QED
      BY <3>1 DEF LimiterInv
  <2>4. CASE ~(t < now)
    <3>1. answer' = answer /\ granted' = granted /\ unpruned' = unpruned /\ back' = back
      BY <2>1, <2>4, Zenon DEF ClockMoves
    <3> SUFFICES ASSUME back = 0 PROVE LimiterExact'
      BY <3>1, Zenon DEF LimiterInv
    <3>2. LimiterExact /\ now < t
      BY <2>2, <2>4 DEF LimiterInv, LimiterExact, TrackInv
    <3>3. QED
      BY <2>2, <3>1, <3>2, ClockKeeps, Zenon
  <2>5. QED
    BY <2>3, <2>4, Zenon
<1>5. CASE UNCHANGED limiterVars
  <2>1. /\ perAttestor' = perAttestor /\ global' = global /\ now' = now
        /\ answer' = answer /\ unpruned' = unpruned /\ granted' = granted /\ back' = back
    BY <1>5, Zenon DEF limiterVars
  <2> SUFFICES ASSUME back = 0 PROVE LimiterExact'
    BY <2>1, Zenon DEF LimiterInv
  <2>2. LimiterExact
    BY Zenon DEF LimiterInv
  <2>3. (\A a \in Attestor : ideal(a)' = ideal(a)) /\ total' = total
    BY <2>1, Zenon DEF ideal, total
  <2>4. TrackInv'
    BY <2>1, <2>2, Zenon DEF LimiterExact, TrackInv, CounterAt, ideal
  <2>5. LimitInv' /\ UnitsInv' /\ GrantsInv'
    BY <2>1, <2>2, <2>3, <2>4, SameCounters, Zenon
  <2>6. AnswerInv'
    BY <2>1, <2>2, Zenon DEF LimiterExact, AnswerInv, ideal, total
  <2>7. QED
    BY <2>4, <2>5, <2>6, Zenon DEF LimiterExact
<1>6. QED
  BY <1>1, <1>2, <1>3, <1>4, <1>5, Zenon DEF LimiterNext

\* The invariant holds, with the default retention or a longer one.
THEOREM LimiterInvCorrect == ASSUME KeepsTwoWindows PROVE LimiterSpec => []LimiterInv
<1>1. LimiterInit => LimiterInv
  <2> SUFFICES ASSUME LimiterInit PROVE LimiterInv
    BY Zenon
  <2>1. Fresh /\ back = 0
    BY Zenon DEF LimiterInit, Fresh
  <2>2. QED
    BY <2>1, FreshCounters, Zenon DEF LimiterInv
<1>2. Fresh' => LimiterExact'
  BY FreshCounters, PTL
<1>3. LimiterInv /\ [LimiterNext]_limiterVars => LimiterInv'
  BY <1>2, LimiterInvKept, Zenon
<1>4. QED
  BY <1>1, <1>3, PTL DEF LimiterSpec

\* The counters are exact: prune() is invisible, the global counter is the sum of
\* the attestors', and what is reported as remaining is honest, for any limits,
\* windows, attestors and times (rateLimiter.ts:23-26, 115-187).
THEOREM CountersCorrect == ASSUME KeepsTwoWindows PROVE LimiterSpec => []CountersExact
<1>1. LimiterInv => CountersExact
  <2> SUFFICES ASSUME LimiterInv, back = 0
               PROVE  CountersExact
    BY Zenon DEF CountersExact, PruneForgetsNothing, GlobalIsSum, RemainingIsHonest
  <2>1. LimiterExact /\ TrackInv /\ now \in Nat
    BY Zenon DEF LimiterInv, LimiterExact, TrackInv
  <2>2. PruneForgetsNothing
    <3> SUFFICES ASSUME NEW a \in Attestor
                 PROVE  estimateOf(unpruned[a]) =
                          IF a \in DOMAIN perAttestor THEN estimateOf(perAttestor[a]) ELSE 0
      BY Zenon DEF PruneForgetsNothing
    <3>1. ideal(a) = IF a \in DOMAIN perAttestor THEN rollWindow(perAttestor[a], now) ELSE createState(now)
      BY <2>1, Zenon DEF TrackInv
    <3>2. estimateCount(createState(now), now) = 0
      <4>1. createState(now) = RolledTo(now, 0, 0)
        BY <2>1, Created, Zenon
      <4>2. overlapAt(now) \in 1..windowMs /\ windowMs \in Nat
            /\ estimateCount(RolledTo(now, 0, 0), now) = 0 * overlapAt(now) + 0 * windowMs
        BY <2>1, Estimate, LimiterAssumption, Zenon
      <4>3. QED
        BY <4>1, <4>2
    <3>3. QED
      BY <3>1, <3>2, Zenon DEF estimateOf, ideal
  <2>3. GlobalIsSum
    BY <2>1, Zenon DEF GlobalIsSum, LimiterExact, UnitsInv, currentCounts, previousCounts, ideal, total
  <2>4. RemainingIsHonest
    <3> SUFFICES ASSUME answer # NoAnswer, answer.at = now
                 PROVE  (/\ estimateOf(unpruned[answer.by]) + windowMs <= perAttestorLimit * windowMs
                         /\ estimateOf(global) + windowMs <= globalLimit * windowMs)
                           <=> (answer.remaining >= 1 /\ answer.remainingGlobal >= 1)
      BY Zenon DEF RemainingIsHonest
    <3>1. PICK a \in Attestor : a = answer.by
      BY <2>1, Zenon DEF LimiterExact, AnswerInv
    <3>2. /\ answer.remaining = room(perAttestorLimit, estimateCount(ideal(a), now))
          /\ answer.remainingGlobal = room(globalLimit, estimateCount(total, now))
      BY <2>1, <3>1, Zenon DEF LimiterExact, AnswerInv
    <3>3. /\ estimateOf(unpruned[answer.by]) = estimateCount(ideal(a), now)
          /\ estimateOf(global) = estimateCount(total, now)
      BY <3>1, Zenon DEF estimateOf, ideal, total
    <3>4. estimateCount(ideal(a), now) \in Nat /\ estimateCount(total, now) \in Nat
      <4>1. /\ ideal(a).currentCount \in Nat /\ ideal(a).previousCount \in Nat
            /\ ideal(a) = RolledTo(now, ideal(a).currentCount, ideal(a).previousCount)
            /\ total.currentCount \in Nat /\ total.previousCount \in Nat
            /\ total = RolledTo(now, total.currentCount, total.previousCount)
        BY <2>1, IdealCounters, Zenon
      <4>2. estimateCount(RolledTo(now, ideal(a).currentCount, ideal(a).previousCount), now) \in Nat
        BY <2>1, <4>1, Estimate, Zenon
      <4>3. estimateCount(RolledTo(now, total.currentCount, total.previousCount), now) \in Nat
        BY <2>1, <4>1, Estimate, Zenon
      <4>4. QED
        BY <4>1, <4>2, <4>3, Zenon
    <3>5. perAttestorLimit \in Nat /\ globalLimit \in Nat
      BY LimiterAssumption, Zenon
    <3>6. answer.remaining >= 1 <=> estimateCount(ideal(a), now) + windowMs <= perAttestorLimit * windowMs
      BY <3>2, <3>4, <3>5, RoomIsHonest, Zenon
    <3>7. answer.remainingGlobal >= 1 <=> estimateCount(total, now) + windowMs <= globalLimit * windowMs
      BY <3>2, <3>4, <3>5, RoomIsHonest, Zenon
    <3>8. QED
      BY <3>3, <3>6, <3>7, Zenon
  <2>5. QED
    BY <2>2, <2>3, <2>4, Zenon DEF CountersExact
<1>2. QED
  BY <1>1, LimiterInvCorrect, PTL

\* No boundary burst, for any limits, windows, attestors and times: in no window of
\* windowMs are there twice as many requests as the limit (rateLimiter.ts:7-18).
THEOREM NoDoubleBurstCorrect == ASSUME KeepsTwoWindows PROVE LimiterSpec => []NoDoubleBurst
<1>1. LimiterInv => NoDoubleBurst
  <2> SUFFICES ASSUME LimiterInv, back = 0, NEW t \in 0..now
               PROVE  /\ \A a \in Attestor : Cardinality(grantedIn({a}, t)) < 2 * perAttestorLimit
                      /\ Cardinality(grantedIn(Attestor, t)) < 2 * globalLimit
    BY Zenon DEF NoDoubleBurst
  <2>1. TrackInv /\ LimitInv /\ GrantsInv /\ now \in Nat
    BY Zenon DEF LimiterInv, LimiterExact, TrackInv
  <2>2. CASE t < now
    <3>1. t \in 0..(now - 1)
      BY <2>1, <2>2
    <3>2. QED
      BY <2>1, <3>1, Zenon DEF GrantsInv, PastBursts
  <2>3. CASE t = now
    <3>1. /\ \A a \in Attestor : ideal(a) \in [currentWindowStart : Nat, currentCount : Nat,
                                             previousCount : Nat, lastSeenAt : Nat]
          /\ total \in [currentWindowStart : Nat, currentCount : Nat, previousCount : Nat, lastSeenAt : Nat]
      BY <2>1, IdealCounters, Zenon DEF CounterAt
    <3>2. perAttestorLimit \in Nat /\ globalLimit \in Nat
      BY LimiterAssumption, Zenon
    <3>3. \A a \in Attestor : Cardinality(grantedIn({a}, now)) < 2 * perAttestorLimit
      BY <2>1, <3>1, <3>2, NoBurstNow, Zenon DEF GrantsInv, LimitInv
    <3>4. Cardinality(grantedIn(Attestor, now)) < 2 * globalLimit
      BY <2>1, <3>1, <3>2, NoBurstNow, Zenon DEF GrantsInv, LimitInv
    <3>5. QED
      BY <2>3, <3>3, <3>4, Zenon
  <2>4. QED
    BY <2>1, <2>2, <2>3
<1>2. QED
  BY <1>1, LimiterInvCorrect, PTL

\* A window begins at a multiple of its length.
LEMMA WindowStart ==
  ASSUME NEW t \in 0..MaxTime
  PROVE  alignToWindow(t) \in {w \in 0..MaxTime : w % windowMs = 0}
<1>1. windowMs \in Nat /\ windowMs > 0 /\ MaxTime \in Nat /\ t \in Nat /\ t <= MaxTime
  BY LimiterAssumption
<1>2. /\ alignToWindow(t) \in Nat /\ alignToWindow(t) <= t
      /\ window(t) \in Nat /\ alignToWindow(t) = window(t) * windowMs
  BY <1>1, Aligned, Zenon
<1>3. alignToWindow(t) % windowMs = 0
  <2>1. PICK q \in Nat : alignToWindow(t) = q * windowMs
    BY <1>2, Zenon
  <2>2. (q * windowMs) % windowMs = 0
    BY <1>1, <2>1
  <2>3. QED
    BY <2>1, <2>2, Zenon
<1>4. QED
  BY <1>1, <1>2, <1>3

\* Rolling keeps the counts within a limit, also back in time.
LEMMA RollsWithin ==
  ASSUME NEW limit \in Nat, NEW c \in Counter(limit), NEW t \in 0..MaxTime
  PROVE  rollWindow(c, t) \in Counter(limit)
<1> DEFINE e == (alignToWindow(t) - c.currentWindowStart) \div windowMs
<1>1. rollWindow(c, t) = IF e < 1 THEN [c EXCEPT !.lastSeenAt = t]
                         ELSE [currentWindowStart |-> alignToWindow(t), currentCount |-> 0,
                               previousCount |-> IF e = 1 THEN c.currentCount ELSE 0,
                               lastSeenAt |-> t]
  BY Zenon DEF rollWindow
<1>2. alignToWindow(t) \in {w \in 0..MaxTime : w % windowMs = 0}
  BY WindowStart, Zenon
<1> HIDE DEF e
<1>3. QED
  BY <1>1, <1>2 DEF Counter

\* A new counter is within every limit.
LEMMA CreatedWithin ==
  ASSUME NEW limit \in Nat, NEW t \in 0..MaxTime
  PROVE  createState(t) \in Counter(limit)
  BY WindowStart DEF createState, Counter

\* A request is counted only below the limit, whatever window the counter is in.
LEMMA CountedWithin ==
  ASSUME NEW limit \in Nat, NEW c \in Counter(limit), NEW t \in 0..MaxTime,
         estimateCount(c, t) + windowMs <= limit * windowMs
  PROVE  counted(c) \in Counter(limit)
<1> DEFINE v == Min({windowMs, Max({0, windowMs - (t - c.currentWindowStart)})})
<1>1. /\ windowMs \in Nat /\ windowMs > 0 /\ c.currentWindowStart \in Int /\ t \in Int
      /\ c.currentCount \in 0..limit /\ c.previousCount \in 0..limit
  BY LimiterAssumption DEF Counter
<1>2. v \in Nat
  <2>1. PICK x \in Int : x = windowMs - (t - c.currentWindowStart)
    BY <1>1
  <2>2. Max({0, x}) = IF 0 >= x THEN 0 ELSE x
    BY OfTwo
  <2>3. PICK y \in Nat : y = Max({0, x})
    BY <2>1, <2>2
  <2>4. windowMs \in Int /\ y \in Int
    BY <1>1
  <2>5. Min({windowMs, y}) = IF windowMs <= y THEN windowMs ELSE y
    BY <2>4, OfTwo, Zenon
  <2>6. QED
    BY <1>1, <2>1, <2>3, <2>5, Zenon
<1>3. estimateCount(c, t) = c.previousCount * v + c.currentCount * windowMs
  BY Zenon DEF estimateCount
<1> HIDE DEF v
<1>4. c.currentCount + 1 <= limit
  <2>1. PICK n \in Nat, p \in Nat : n = c.currentCount /\ p = c.previousCount
    BY <1>1
  <2>2. p * v \in Nat /\ n * windowMs \in Nat /\ limit * windowMs \in Nat
    BY <1>1, <1>2
  <2>3. n * windowMs + windowMs <= limit * windowMs
    BY <1>1, <1>3, <2>1, <2>2
  <2> SUFFICES ASSUME limit <= n PROVE FALSE
    BY <2>1
  <2>4. limit * windowMs <= n * windowMs
    BY <1>1
  <2>5. QED
    BY <1>1, <2>2, <2>3, <2>4
<1>5. QED
  BY <1>1, <1>4 DEF counted, Counter

\* What a call leaves of a counter.
LEMMA ConsumedWithin ==
  ASSUME LimiterTypeOK, NEW own \in Counter(perAttestorLimit), NEW all \in Counter(globalLimit),
         NEW ownOk \in BOOLEAN, NEW allOk \in BOOLEAN,
         ownOk => estimateCount(own, now) + windowMs <= perAttestorLimit * windowMs,
         allOk => estimateCount(all, now) + windowMs <= globalLimit * windowMs
  PROVE  /\ consume(<<own, all>>, ownOk, allOk)[1] \in Counter(perAttestorLimit)
         /\ consume(<<own, all>>, ownOk, allOk)[2] \in Counter(globalLimit)
<1>1. now \in 0..MaxTime /\ perAttestorLimit \in Nat /\ globalLimit \in Nat
  BY LimiterAssumption, Zenon DEF LimiterTypeOK
<1>2. CASE ownOk /\ allOk
  <2>1. counted(own) \in Counter(perAttestorLimit) /\ counted(all) \in Counter(globalLimit)
    BY <1>1, <1>2, CountedWithin, Zenon
  <2>2. QED
    BY <1>2, <2>1, Zenon DEF consume
<1>3. CASE ~(ownOk /\ allOk)
  BY <1>3, Zenon DEF consume
<1>4. QED
  BY <1>2, <1>3, Zenon

\* No counter ever exceeds its limit, for any limits, windows and retention, and
\* however the clock jumps (rateLimiter.ts:51-78, 147-160).
THEOREM LimiterTypeCorrect == LimiterSpec => []LimiterTypeOK
<1>0. /\ perAttestorLimit \in Nat /\ globalLimit \in Nat /\ pruneIntervalCalls \in Nat
      /\ MaxTime \in Nat /\ MaxBackSteps \in Nat
  BY LimiterAssumption, Zenon
<1>1. LimiterInit => LimiterTypeOK
  <2> SUFFICES ASSUME LimiterInit PROVE LimiterTypeOK
    BY Zenon
  <2>1. createState(0) \in Counter(globalLimit) /\ now \in 0..MaxTime
    BY <1>0, CreatedWithin DEF LimiterInit
  <2>2. QED
    BY <1>0, <2>1 DEF LimiterInit, LimiterTypeOK
<1>2. LimiterTypeOK /\ [LimiterNext]_limiterVars => LimiterTypeOK'
  <2> SUFFICES ASSUME LimiterTypeOK, [LimiterNext]_limiterVars PROVE LimiterTypeOK'
    BY Zenon
  <2>1. ASSUME NEW a \in Attestor, checkAndConsume(a) PROVE LimiterTypeOK'
    <3> DEFINE due == pruneIntervalCalls > 0 /\ callsSincePrune + 1 >= pruneIntervalCalls
               tracked == IF due THEN kept(now) ELSE DOMAIN perAttestor
               mine == rollWindow(IF a \in tracked THEN perAttestor[a] ELSE createState(now), now)
               all == rollWindow(global, now)
               ownOk == estimateCount(mine, now) + windowMs <= perAttestorLimit * windowMs
               allOk == estimateCount(all, now) + windowMs <= globalLimit * windowMs
               after == consume(<<mine, all>>, ownOk, allOk)
    <3>1. /\ callsSincePrune' = IF pruneIntervalCalls = 0 \/ due THEN 0 ELSE callsSincePrune + 1
          /\ perAttestor' = [b \in tracked \cup {a} |-> IF b = a THEN after[1] ELSE perAttestor[b]]
          /\ global' = after[2]
          /\ now' = now /\ back' = back
      BY <2>1, Zenon DEF checkAndConsume
    <3>2. callsSincePrune' \in 0..pruneIntervalCalls
      <4>1. callsSincePrune \in 0..pruneIntervalCalls
        BY Zenon DEF LimiterTypeOK
      <4>2. CASE pruneIntervalCalls = 0 \/ due
        <5>1. callsSincePrune' = 0
          BY <3>1, <4>2, Zenon
        <5>2. QED
          BY <1>0, <5>1
      <4>3. CASE ~(pruneIntervalCalls = 0 \/ due)
        <5>1. callsSincePrune' = callsSincePrune + 1
          BY <3>1, <4>3, Zenon
        <5>2. pruneIntervalCalls > 0 /\ ~(callsSincePrune + 1 >= pruneIntervalCalls)
          BY <1>0, <4>3
        <5>3. QED
          BY <1>0, <4>1, <5>1, <5>2
      <4>4. QED
        BY <4>2, <4>3, Zenon
    <3>3. tracked \subseteq DOMAIN perAttestor /\ tracked \subseteq Attestor
      BY Zenon DEF kept, LimiterTypeOK
    <3>4. mine \in Counter(perAttestorLimit) /\ all \in Counter(globalLimit)
      <4>1. createState(now) \in Counter(perAttestorLimit)
        BY <1>0, CreatedWithin, Zenon DEF LimiterTypeOK
      <4>2. (IF a \in tracked THEN perAttestor[a] ELSE createState(now)) \in Counter(perAttestorLimit)
        <5> HIDE DEF tracked
        <5>1. QED
          BY <3>3, <4>1, Zenon DEF LimiterTypeOK
      <4>3. QED
        BY <1>0, <4>2, RollsWithin, Zenon DEF LimiterTypeOK
    <3>5. after[1] \in Counter(perAttestorLimit) /\ after[2] \in Counter(globalLimit)
      <4>1. ownOk \in BOOLEAN /\ allOk \in BOOLEAN
        OBVIOUS
      <4> HIDE DEF mine, all
      <4>2. QED
        BY <3>4, <4>1, ConsumedWithin, ZenonT(30)
    <3> HIDE DEF after, tracked
    <3>6. QED
      BY <3>1, <3>2, <3>3, <3>5, Zenon DEF LimiterTypeOK
  <2>2. CASE prune
    <3>1. kept(now) \subseteq DOMAIN perAttestor
      BY Zenon DEF kept
    <3>2. perAttestor' = [a \in kept(now) |-> perAttestor[a]]
      BY <2>2, <3>1, Zenon DEF prune, Restrict
    <3>3. QED
      BY <2>2, <3>1, <3>2, Zenon DEF prune, LimiterTypeOK
  <2>3. CASE reset
    <3>1. createState(now) \in Counter(globalLimit)
      BY <1>0, CreatedWithin, Zenon DEF LimiterTypeOK
    <3>2. QED
      BY <1>0, <2>3, <3>1 DEF reset, LimiterTypeOK
  <2>4. ASSUME NEW t \in 0..MaxTime, ClockMoves(t) PROVE LimiterTypeOK'
    BY <1>0, <2>4 DEF ClockMoves, LimiterTypeOK
  <2>5. CASE UNCHANGED limiterVars
    BY <2>5, Zenon DEF limiterVars, LimiterTypeOK
  <2>6. QED
    BY <2>1, <2>2, <2>3, <2>4, <2>5, Zenon DEF LimiterNext
<1>3. QED
  BY <1>1, <1>2, PTL DEF LimiterSpec

=============================================================================

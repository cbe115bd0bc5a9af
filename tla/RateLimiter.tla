----------------------------- MODULE RateLimiter -----------------------------
(***************************************************************************)
(* The sliding-window rate limiter (sdk/src/services/rateLimiter.ts).      *)
(* Time is counted in ticks, windowMs of them to a window.  The estimate   *)
(* is kept multiplied by windowMs, so that it is an integer: the rounding  *)
(* of the floating-point division is left out.                             *)
(*                                                                         *)
(* History: unpruned[a] is the counter attestor a would have if prune()    *)
(* never ran; granted is the sequence of [by, at] of the requests allowed  *)
(* since the last reset; back counts the times the clock stepped back.     *)
(* From then on the history is not kept.                                   *)
(***************************************************************************)
EXTENDS Integers, Sequences, FiniteSets, FiniteSetsExt, Functions

CONSTANTS Attestor, perAttestorLimit, globalLimit, windowMs, idleRetentionMs,
          pruneIntervalCalls, MaxTime, MaxBackSteps

\* The constructor refuses any other configuration.
ASSUME LimiterAssumption ==
    /\ perAttestorLimit \in Nat \ {0}
    /\ globalLimit \in Nat \ {0}
    /\ windowMs \in Nat \ {0}
    /\ perAttestorLimit <= globalLimit
    /\ idleRetentionMs \in Nat /\ pruneIntervalCalls \in Nat
    /\ MaxTime \in Nat /\ MaxBackSteps \in Nat

VARIABLES perAttestor, global, callsSincePrune, now, answer,
          unpruned, granted, back

limiterVars == <<perAttestor, global, callsSincePrune, now, answer,
                 unpruned, granted, back>>

Counter(limit) ==
    [currentWindowStart : {w \in 0..MaxTime : w % windowMs = 0},
     currentCount : 0..limit, previousCount : 0..limit, lastSeenAt : 0..MaxTime]

\* What the last call returned, and when.
NoAnswer == [by |-> "nobody"]

\* The counts never exceed the limits, even after the clock has stepped back.
LimiterTypeOK ==
    /\ DOMAIN perAttestor \subseteq Attestor
    /\ \A a \in DOMAIN perAttestor : perAttestor[a] \in Counter(perAttestorLimit)
    /\ global \in Counter(globalLimit)
    /\ callsSincePrune \in 0..pruneIntervalCalls
    /\ now \in 0..MaxTime
    /\ back \in 0..MaxBackSteps

alignToWindow(t) == (t \div windowMs) * windowMs

createState(t) ==
    [currentWindowStart |-> alignToWindow(t), currentCount |-> 0,
     previousCount |-> 0, lastSeenAt |-> t]

\* elapsedWindows is 1, more, or (same window, or the clock stepped back) less.
rollWindow(c, t) ==
    LET elapsedWindows == (alignToWindow(t) - c.currentWindowStart) \div windowMs
    IN  IF elapsedWindows < 1
        THEN [c EXCEPT !.lastSeenAt = t]
        ELSE [currentWindowStart |-> alignToWindow(t), currentCount |-> 0,
              previousCount |-> IF elapsedWindows = 1 THEN c.currentCount ELSE 0,
              lastSeenAt |-> t]

\* Wrong on purpose: the previous window has no weight.
estimateCountFixed(c, t) == c.currentCount * windowMs

\* In ticks: previousCount * overlap + currentCount, times windowMs.
estimateCount(c, t) ==
    LET overlap == Min({windowMs, Max({0, windowMs - (t - c.currentWindowStart)})})
    IN  c.previousCount * overlap + c.currentCount * windowMs

\* prune(t): the entries it keeps.
kept(t) ==
    {a \in DOMAIN perAttestor : t - perAttestor[a].lastSeenAt < idleRetentionMs}

LimiterInit ==
    /\ now = 0
    /\ perAttestor = << >>
    /\ global = createState(0)
    /\ callsSincePrune = 0
    /\ answer = NoAnswer
    /\ unpruned = [a \in Attestor |-> createState(0)]
    /\ granted = << >>
    /\ back = 0

counted(c) == [c EXCEPT !.currentCount = @ + 1]

\* The room a limit leaves above an estimate, in whole requests.
room(limit, est) == Max({0, (limit * windowMs - est) \div windowMs})

\* Wrong on purpose: a request the global cap refuses still counts against its
\* attestor.
consumeEither(rolled, ownOk, allOk) ==
    <<IF ownOk THEN counted(rolled[1]) ELSE rolled[1],
      IF ownOk /\ allOk THEN counted(rolled[2]) ELSE rolled[2]>>

\* Only an allowed request is counted, in both counters.
consume(rolled, ownOk, allOk) ==
    IF ownOk /\ allOk THEN <<counted(rolled[1]), counted(rolled[2])>> ELSE rolled

checkAndConsume(a) ==
    LET due == pruneIntervalCalls > 0 /\ callsSincePrune + 1 >= pruneIntervalCalls
        tracked == IF due THEN kept(now) ELSE DOMAIN perAttestor
        mine == rollWindow(IF a \in tracked THEN perAttestor[a] ELSE createState(now), now)
        all == rollWindow(global, now)
        ownOk == estimateCount(mine, now) + windowMs <= perAttestorLimit * windowMs
        allOk == estimateCount(all, now) + windowMs <= globalLimit * windowMs
        after == consume(<<mine, all>>, ownOk, allOk)
        ideal == rollWindow(unpruned[a], now)
    IN  /\ callsSincePrune' = IF pruneIntervalCalls = 0 \/ due THEN 0 ELSE callsSincePrune + 1
        /\ perAttestor' = [b \in tracked \cup {a} |-> IF b = a THEN after[1] ELSE perAttestor[b]]
        /\ global' = after[2]
        /\ IF back > 0 THEN UNCHANGED <<answer, unpruned, granted>>
           ELSE /\ answer' = [by |-> a, at |-> now, remaining |-> room(perAttestorLimit, estimateCount(after[1], now)),
                        remainingGlobal |-> room(globalLimit, estimateCount(after[2], now))]
                /\ unpruned' = [unpruned EXCEPT ![a] = consume(<<ideal, all>>, ownOk, allOk)[1]]
                /\ granted' = IF ownOk /\ allOk
                              THEN Append(granted, [by |-> a, at |-> now]) ELSE granted
        /\ UNCHANGED <<now, back>>

\* A caller's own housekeeping.
prune ==
    /\ kept(now) # DOMAIN perAttestor
    /\ perAttestor' = Restrict(perAttestor, kept(now))
    /\ UNCHANGED <<global, callsSincePrune, now, answer, unpruned, granted, back>>

reset ==
    /\ perAttestor' = << >>
    /\ global' = createState(now)
    /\ callsSincePrune' = 0
    /\ answer' = NoAnswer
    /\ unpruned' = [a \in Attestor |-> createState(IF back > 0 THEN 0 ELSE now)]
    /\ granted' = << >>
    /\ UNCHANGED <<now, back>>

\* External: Date.now() moves on, or is set back.
ClockMoves(t) ==
    /\ t # now
    /\ t < now => back < MaxBackSteps
    /\ now' = t
    /\ IF t < now
       THEN /\ back' = back + 1
            /\ answer' = NoAnswer
            /\ granted' = << >>
            /\ unpruned' = [a \in Attestor |-> createState(0)]
       ELSE UNCHANGED <<answer, granted, unpruned, back>>
    /\ UNCHANGED <<perAttestor, global, callsSincePrune>>

LimiterNext ==
    \/ \E a \in Attestor : checkAndConsume(a)
    \/ prune
    \/ reset
    \/ \E t \in 0..MaxTime : ClockMoves(t)

LimiterSpec == LimiterInit /\ [][LimiterNext]_limiterVars

-----------------------------------------------------------------------------

estimateOf(c) == estimateCount(rollWindow(c, now), now)

\* prune() is invisible: an attestor whose entry was discarded is treated as if
\* it had been kept, so idleRetentionMs of two windows loses nothing
\* (rateLimiter.ts:23-26, 178-187).
PruneForgetsNothing ==
    back = 0 => \A a \in Attestor :
        estimateOf(unpruned[a]) =
            IF a \in DOMAIN perAttestor THEN estimateOf(perAttestor[a]) ELSE 0

\* As many pairs as the counts add up to.
units(count) == UNION {{a} \X (1..count[a]) : a \in Attestor}

\* The global counter is the sum of the attestors', window by window: no request
\* is counted in one and not in the other, whatever was denied, pruned or rolled
\* at different times (rateLimiter.ts:115-121, 141-154).
GlobalIsSum ==
    back = 0 =>
        LET rolled(a) == rollWindow(unpruned[a], now)
            all == rollWindow(global, now)
        IN  /\ all.currentCount = Cardinality(units([a \in Attestor |-> rolled(a).currentCount]))
            /\ all.previousCount = Cardinality(units([a \in Attestor |-> rolled(a).previousCount]))

\* The requests granted to S in the window that ends at time t.
grantedIn(S, t) ==
    {i \in DOMAIN granted : granted[i].by \in S /\ granted[i].at \in (t - windowMs + 1)..t}

\* In no window of windowMs, wherever it begins, are there twice as many
\* requests as the limit: the boundary burst of a fixed window cannot happen
\* (rateLimiter.ts:7-18).
NoDoubleBurst ==
    back = 0 => \A t \in 0..now :
        /\ \A a \in Attestor : Cardinality(grantedIn({a}, t)) < 2 * perAttestorLimit
        /\ Cardinality(grantedIn(Attestor, t)) < 2 * globalLimit

\* remaining and remainingGlobal tell the truth: another call of the same
\* attestor at the same instant would be allowed exactly if both say that there
\* is room (rateLimiter.ts:156-160).
RemainingIsHonest ==
    (back = 0 /\ answer # NoAnswer /\ answer.at = now) =>
        ((/\ estimateOf(unpruned[answer.by]) + windowMs <= perAttestorLimit * windowMs
          /\ estimateOf(global) + windowMs <= globalLimit * windowMs)
            <=> (answer.remaining >= 1 /\ answer.remainingGlobal >= 1))

\* The counters and what is reported of them are exact, through denials, pruning,
\* resets and windows that roll at different times.
CountersExact == PruneForgetsNothing /\ GlobalIsSum /\ RemainingIsHonest
=============================================================================

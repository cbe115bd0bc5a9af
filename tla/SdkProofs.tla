------------------------------ MODULE SdkProofs -------------------------------
(***************************************************************************)
(* The SEP-10 flow and the hot reload of the configuration, for every      *)
(* value of the constants.                                                 *)
(*                                                                         *)
(* Each part has an invariant that says what its property leaves out: that *)
(* until the config changes the challenge and the requests belong to it;   *)
(* that a loop's position stays inside the array of listeners.             *)
(***************************************************************************)
EXTENDS Sep10Flow, ConfigManager, WellFoundedInduction, TLAPS

\* The type invariants bound sequences by sets of functions.
LEMMA BoundedSequence ==
  ASSUME NEW S, NEW s \in Seq(S), NEW N \in Nat, Len(s) <= N
  PROVE  \E n \in 0..N : s \in [1..n -> S]
<1>1. Len(s) \in 0..N /\ s \in [1..Len(s) -> S]
  OBVIOUS
<1>2. QED
  BY <1>1, Zenon

\* A concatenation, element by element.
LEMMA ConcatenationAt ==
  ASSUME NEW S, NEW s \in Seq(S), NEW t \in Seq(S)
  PROVE  /\ s \o t \in Seq(S)
         /\ Len(s \o t) = Len(s) + Len(t)
         /\ \A i \in 1..(Len(s) + Len(t)) :
              (s \o t)[i] = IF i <= Len(s) THEN s[i] ELSE t[i - Len(s)]
  OBVIOUS

\* The head and the tail of a sequence.
LEMMA HeadAndTail ==
  ASSUME NEW S, NEW s \in Seq(S), s # << >>
  PROVE  /\ Head(s) \in S
         /\ Tail(s) \in Seq(S)
         /\ Len(s) \in Nat /\ Len(Tail(s)) = Len(s) - 1
         /\ \A i \in 1..Len(Tail(s)) : Tail(s)[i] = s[i + 1]
  OBVIOUS

-----------------------------------------------------------------------------
(* The SEP-10 flow.                                                        *)

\* FlowConsistent is inductive together with the types of what it reads, and with
\* where a challenge and the request for a token come from.
FlowTypes ==
  /\ stage \in Stage
  /\ config \in Anchor
  /\ challenge \in Anchor \cup {Nothing}
  /\ pending \in Request \cup {NoRequest}
  /\ sessionToken \in [from : Anchor, of : Anchor] \cup {Nothing}

FlowFlags ==
  /\ flowError \in BOOLEAN
  /\ isAuthenticated \in BOOLEAN
  /\ switched \in BOOLEAN

\* Until the config changes, the challenge at hand, the request that asks for it
\* and the request that answers it all belong to the current config.
SameAnchor ==
  ~switched =>
    /\ stage = "requesting" => pending.service = config
    /\ stage = "awaiting_signature" => challenge \in {config, Nothing}
    /\ stage = "verifying" => pending.service = pending.of

\* The invariant of the flow.
FlowInv ==
  /\ FlowTypes /\ FlowFlags
  /\ OneRequestAtATime /\ IdleIsClean /\ TokenFromChallenger
  /\ SameAnchor
  /\ stage \in {"awaiting_signature", "verifying"} => sessionToken = Nothing
  /\ stage = "verifying" => challenge \in Anchor

\* What is known of the awaited request.
LEMMA PendingCases ==
  ASSUME FlowTypes
  PROVE  \/ pending = NoRequest /\ pending.kind = "none"
         \/ /\ pending # NoRequest
            /\ pending.kind \in {"challenge", "token"} /\ pending.service \in Anchor
            /\ pending.of \in Anchor \cup {Nothing} /\ pending.part \in {"headers", "body"}
  BY DEF FlowTypes, Request, NoRequest

\* The flags stay Boolean.
LEMMA FlowFlagsKeep ==
  ASSUME FlowFlags, [FlowNext]_flowVars
  PROVE  FlowFlags'
  <1>1. ASSUME NEW present \in BOOLEAN, NEW throws \in BOOLEAN, tokenArrives(present, throws)
        PROVE  FlowFlags'
    BY <1>1, Zenon DEF FlowFlags, tokenArrives
  <1>2. ASSUME NEW c \in Anchor, ConfigChanges(c)
        PROVE  FlowFlags'
    BY <1>2, Zenon DEF FlowFlags, ConfigChanges
  <1>3. CASE \/ requestChallenge \/ submitSignedChallenge \/ requestFails
             \/ headersArrive \/ fetchWithTimeout \/ retry
             \/ \E tx \in Anchor \cup {Nothing} : challengeArrives(tx)
             \/ UNCHANGED flowVars
    BY <1>3, Zenon DEF FlowFlags, requestChallenge, submitSignedChallenge, requestFails,
       headersArrive, fetchWithTimeout, retry, challengeArrives, flowVars
  <1> QED
    BY <1>1, <1>2, <1>3, Zenon DEF FlowNext

\* The clicks: the stage gates them, so no request is awaited when one is sent.
LEMMA RequestChallengeKeeps ==
  ASSUME FlowInv, requestChallenge, FlowFlags'
  PROVE  FlowInv'
  <1>1. FlowTypes'
    BY Zenon DEF FlowInv, FlowTypes, requestChallenge, Request, Stage
  <1>2. OneRequestAtATime' /\ IdleIsClean' /\ SameAnchor'
    BY Zenon DEF FlowInv, FlowTypes, requestChallenge, NoRequest, OneRequestAtATime,
       IdleIsClean, SameAnchor
  <1>3. TokenFromChallenger'
    BY Zenon DEF FlowInv, IdleIsClean, requestChallenge, TokenFromChallenger
  <1> QED
    BY <1>1, <1>2, <1>3, Zenon DEF FlowInv, requestChallenge

\* Submit passes the challenge on, to the anchor of the current config.
LEMMA SubmitKeeps ==
  ASSUME FlowInv, submitSignedChallenge, FlowFlags'
  PROVE  FlowInv'
  <1>0. pending = NoRequest /\ sessionToken = Nothing /\ sessionToken' = sessionToken
    BY Zenon DEF FlowInv, OneRequestAtATime, submitSignedChallenge
  <1>1. FlowTypes' /\ (stage' = "verifying" => challenge' \in Anchor)
    BY DEF FlowInv, FlowTypes, submitSignedChallenge, Request, Stage
  <1>2. OneRequestAtATime'
    BY <1>0 DEF submitSignedChallenge, NoRequest, OneRequestAtATime
  <1>3. IdleIsClean' /\ TokenFromChallenger'
    BY <1>0, Zenon DEF IdleIsClean, TokenFromChallenger, submitSignedChallenge
  <1>4. SameAnchor'
    BY DEF FlowInv, SameAnchor, submitSignedChallenge
  <1> QED
    BY <1>0, <1>1, <1>2, <1>3, <1>4, Zenon DEF FlowInv

\* Cancel, Try Again and Start New Session.
LEMMA RetryKeeps ==
  ASSUME FlowInv, retry, FlowFlags'
  PROVE  FlowInv'
  <1>1. FlowTypes'
    BY Zenon DEF FlowInv, FlowTypes, retry, Stage
  <1>2. OneRequestAtATime' /\ IdleIsClean' /\ SameAnchor' /\ TokenFromChallenger'
    BY Zenon DEF FlowInv, retry, OneRequestAtATime, IdleIsClean, SameAnchor, TokenFromChallenger
  <1> QED
    BY <1>1, <1>2, Zenon DEF FlowInv, retry

\* The answers.
LEMMA ChallengeArrivesKeeps ==
  ASSUME FlowInv, NEW tx \in Anchor \cup {Nothing}, challengeArrives(tx), FlowFlags'
  PROVE  FlowInv'
  <1>0. stage = "requesting" /\ pending' = NoRequest /\ stage' = "awaiting_signature"
    BY PendingCases, Zenon DEF FlowInv, OneRequestAtATime, challengeArrives, FlowTypes, Stage
  <1>1. FlowTypes'
    BY <1>0, Zenon DEF FlowInv, FlowTypes, challengeArrives, Stage
  <1>2. OneRequestAtATime'
    BY <1>0, Zenon DEF OneRequestAtATime
  <1>3. IdleIsClean' /\ TokenFromChallenger' /\ sessionToken' = Nothing
    BY <1>0, Zenon DEF FlowInv, IdleIsClean, TokenFromChallenger, challengeArrives
  <1>4. SameAnchor'
    BY <1>0, Zenon DEF FlowInv, SameAnchor, challengeArrives
  <1> QED
    BY <1>0, <1>1, <1>2, <1>3, <1>4, ZenonT(60) DEF FlowInv

\* The token is of the request that was awaited.
LEMMA TokenArrivesKeeps ==
  ASSUME FlowInv, NEW present \in BOOLEAN, NEW throws \in BOOLEAN,
         tokenArrives(present, throws), FlowFlags'
  PROVE  FlowInv'
  <1>0. stage = "verifying" /\ pending' = NoRequest /\ stage' \in {"error", "done"}
    BY PendingCases, Zenon DEF FlowInv, OneRequestAtATime, tokenArrives, FlowTypes, Stage
  <1>1. pending.service \in Anchor /\ pending.of \in Anchor
    BY <1>0, PendingCases, Zenon DEF FlowInv, OneRequestAtATime
  <1>2. \/ sessionToken' = Nothing
        \/ sessionToken' = [from |-> pending.service, of |-> pending.of]
    BY Zenon DEF tokenArrives
  <1>3. FlowTypes'
    BY <1>0, <1>1, <1>2, ZenonT(60) DEF FlowInv, FlowTypes, tokenArrives, Stage
  <1>4. OneRequestAtATime' /\ IdleIsClean' /\ SameAnchor'
    BY <1>0, Zenon DEF OneRequestAtATime, IdleIsClean, SameAnchor
  <1>5. TokenFromChallenger'
    BY <1>0, <1>2, Zenon DEF FlowInv, SameAnchor, TokenFromChallenger, tokenArrives
  <1> QED
    BY <1>0, <1>3, <1>4, <1>5, ZenonT(60) DEF FlowInv

\* A request that fails leaves no token behind.
LEMMA RequestFailsKeeps ==
  ASSUME FlowInv, requestFails, FlowFlags'
  PROVE  FlowInv'
  <1>0. /\ stage \in {"requesting", "verifying"} /\ pending' = NoRequest /\ stage' = "error"
        /\ sessionToken = Nothing /\ sessionToken' = Nothing
    BY Zenon DEF FlowInv, OneRequestAtATime, IdleIsClean, requestFails
  <1>1. FlowTypes'
    BY <1>0, Zenon DEF FlowInv, FlowTypes, requestFails, Stage
  <1>2. OneRequestAtATime' /\ IdleIsClean' /\ SameAnchor' /\ TokenFromChallenger'
    BY <1>0, Zenon DEF OneRequestAtATime, IdleIsClean, SameAnchor, TokenFromChallenger
  <1> QED
    BY <1>0, <1>1, <1>2, Zenon DEF FlowInv

\* The headers change nothing but how far the request is.
LEMMA HeadersArriveKeeps ==
  ASSUME FlowInv, headersArrive, FlowFlags'
  PROVE  FlowInv'
  <1>0. /\ pending # NoRequest /\ pending \in Request
        /\ pending' = [pending EXCEPT !.part = "body"]
    BY Zenon DEF FlowInv, FlowTypes, headersArrive
  <1>1. /\ pending' \in Request /\ pending' # NoRequest
        /\ pending'.kind = pending.kind /\ pending'.service = pending.service
        /\ pending'.of = pending.of
    BY <1>0, Zenon DEF Request, NoRequest
  <1>2. FlowTypes'
    BY <1>1, Zenon DEF FlowInv, FlowTypes, headersArrive
  <1>3. OneRequestAtATime' /\ SameAnchor'
    BY <1>0, <1>1, Zenon DEF FlowInv, OneRequestAtATime, SameAnchor, headersArrive
  <1>4. IdleIsClean' /\ TokenFromChallenger'
    BY Zenon DEF FlowInv, IdleIsClean, TokenFromChallenger, headersArrive
  <1> QED
    BY <1>2, <1>3, <1>4, Zenon DEF FlowInv, headersArrive

\* Another config does not touch the flow; SameAnchor holds because the change is
\* remembered in switched, or because it comes too late to matter.
LEMMA ConfigChangesKeeps ==
  ASSUME FlowInv, NEW c \in Anchor, ConfigChanges(c), FlowFlags'
  PROVE  FlowInv'
  <1>1. FlowTypes'
    BY Zenon DEF FlowInv, FlowTypes, ConfigChanges
  <1>2. OneRequestAtATime' /\ IdleIsClean'
    BY Zenon DEF FlowInv, OneRequestAtATime, IdleIsClean, ConfigChanges
  <1>3. ~switched' => ~switched /\ stage \notin {"requesting", "awaiting_signature"}
    BY Zenon DEF ConfigChanges
  <1>4. TokenFromChallenger' /\ SameAnchor'
    BY <1>3, Zenon DEF FlowInv, SameAnchor, TokenFromChallenger, ConfigChanges
  <1> QED
    BY <1>1, <1>2, <1>4, Zenon DEF FlowInv, ConfigChanges

\* The inductive invariant of the flow.
THEOREM FlowInvCorrect == FlowSpec => []FlowInv
  <1>1. FlowInit => FlowInv
    <2> SUFFICES ASSUME FlowInit
                 PROVE  FlowInv
      BY Zenon
    <2>1. FlowTypes
      BY Zenon DEF FlowInit, FlowTypes, Stage
    <2>2. FlowFlags
      BY Zenon DEF FlowInit, FlowFlags
    <2>3. OneRequestAtATime /\ IdleIsClean /\ TokenFromChallenger /\ SameAnchor
      BY Zenon DEF FlowInit, OneRequestAtATime, IdleIsClean, TokenFromChallenger, SameAnchor
    <2> QED
      BY <2>1, <2>2, <2>3, Zenon DEF FlowInv, FlowInit
  <1>2. FlowInv /\ [FlowNext]_flowVars => FlowInv'
    <2> SUFFICES ASSUME FlowInv, [FlowNext]_flowVars
                 PROVE  FlowInv'
      BY Zenon
    <2>0. FlowFlags'
      BY FlowFlagsKeep, Zenon DEF FlowInv
    <2>1. CASE UNCHANGED flowVars
      BY <2>1, Zenon DEF flowVars, FlowInv, FlowTypes, FlowFlags, OneRequestAtATime,
         IdleIsClean, TokenFromChallenger, SameAnchor
    <2>2. CASE fetchWithTimeout
      BY <2>0, <2>2, RequestFailsKeeps, Zenon DEF fetchWithTimeout
    <2>3. CASE requestChallenge
      BY <2>0, <2>3, RequestChallengeKeeps, Zenon
    <2>4. ASSUME NEW tx \in Anchor \cup {Nothing}, challengeArrives(tx)
          PROVE  FlowInv'
      BY <2>0, <2>4, ChallengeArrivesKeeps, Zenon
    <2>5. CASE submitSignedChallenge
      BY <2>0, <2>5, SubmitKeeps, Zenon
    <2>6. ASSUME NEW present \in BOOLEAN, NEW throws \in BOOLEAN, tokenArrives(present, throws)
          PROVE  FlowInv'
      BY <2>0, <2>6, TokenArrivesKeeps, Zenon
    <2>7. CASE requestFails
      BY <2>0, <2>7, RequestFailsKeeps, Zenon
    <2>8. CASE headersArrive
      BY <2>0, <2>8, HeadersArriveKeeps, Zenon
    <2>9. CASE retry
      BY <2>0, <2>9, RetryKeeps, Zenon
    <2>10. ASSUME NEW c \in Anchor, ConfigChanges(c)
           PROVE  FlowInv'
      BY <2>0, <2>10, ConfigChangesKeeps, Zenon
    <2> QED
      BY <2>1, <2>2, <2>3, <2>4, <2>5, <2>6, <2>7, <2>8, <2>9, <2>10, Zenon DEF FlowNext
  <1> QED
    BY <1>1, <1>2, PTL DEF FlowSpec

\* For any anchors and any number of changes of config: a request is awaited exactly
\* in the stages that say so, an idle flow is clean, and a token comes from the anchor
\* whose challenge was signed unless the config changed (FlowConsistent).
THEOREM FlowCorrect == FlowSpec => []FlowConsistent
  <1>1. FlowInv => FlowConsistent
    BY Zenon DEF FlowInv, FlowConsistent
  <1> QED
    BY <1>1, FlowInvCorrect, PTL

SwitchesBounded == switches \in 0..MaxSwitches

\* The types of the flow: a request, a challenge or a token always belongs to some
\* anchor that was configured (Sep10Flow.tsx:32-107).
THEOREM FlowTypeCorrect == FlowSpec => []FlowTypeOK
  <1>1. FlowInit => SwitchesBounded
    BY FlowAssumption DEF SwitchesBounded, FlowInit
  <1>2. SwitchesBounded /\ [FlowNext]_flowVars => SwitchesBounded'
    <2> SUFFICES ASSUME SwitchesBounded, [FlowNext]_flowVars
                 PROVE  SwitchesBounded'
      BY Zenon
    <2>1. switches' = switches \/ (switches < MaxSwitches /\ switches' = switches + 1)
      BY Zenon DEF FlowNext, flowVars, requestChallenge, challengeArrives,
         submitSignedChallenge, tokenArrives, requestFails, headersArrive, fetchWithTimeout,
         retry, ConfigChanges
    <2> QED
      BY <2>1, FlowAssumption DEF SwitchesBounded
  <1>3. FlowInv /\ SwitchesBounded => FlowTypeOK
    BY Zenon DEF SwitchesBounded, FlowInv, FlowTypes, FlowFlags, FlowTypeOK
  <1> QED
    BY <1>1, <1>2, <1>3, FlowInvCorrect, PTL DEF FlowSpec

-----------------------------------------------------------------------------

\* A non-empty set of numbers has a least element, which Min returns.
LEMMA MinOfNumbers ==
  ASSUME NEW T \in SUBSET Nat, T # {}
  PROVE  Min(T) \in T
  <1> DEFINE R == {ss \in Nat \X Nat : ss[1] < ss[2]}
  <1>0. IsWellFoundedOn(R, Nat)
    BY NatLessThanWellFounded, Zenon DEF OpToRel
  <1> HIDE DEF R
  <1>1. PICK x \in T : \A y \in T : ~ (<<y, x>> \in R)
    BY <1>0, WFMin, Zenon
  <1>2. ASSUME NEW y \in T
        PROVE  x =< y
    <2>1. ASSUME y < x
          PROVE  <<y, x>> \in R
      <3>1. <<y, x>> \in Nat \X Nat /\ <<y, x>>[1] < <<y, x>>[2]
        BY <2>1, Zenon
      <3> QED
        BY <3>1, Zenon DEF R
    <2>2. x \in Nat /\ y \in Nat
      BY Zenon
    <2> QED
      BY <1>1, <2>1, <2>2
  <1> QED
    BY <1>2, Zenon DEF Min

\* The registration that unsubscribe finds.
LEMMA IndexOfListener ==
  ASSUME NEW s \in Seq(Listener), NEW l, Contains(s, l)
  PROVE  LET I == {i \in 1..Len(s) : s[i] = l}
         IN  I # {} /\ Min(I) \in 1..Len(s)
  <1> DEFINE I == {i \in 1..Len(s) : s[i] = l}
  <1>1. I \in SUBSET Nat /\ I # {}
    BY DEF Contains
  <1> QED
    BY <1>1, MinOfNumbers, Zenon

\* splice: what is before the gap stays, what is behind it moves up.
LEMMA SpliceSpec ==
  ASSUME NEW s \in Seq(Listener), NEW n \in 1..Len(s)
  PROVE  /\ RemoveAt(s, n) \in Seq(Listener)
         /\ Len(RemoveAt(s, n)) = Len(s) - 1
         /\ \A i \in 1..(n - 1) : RemoveAt(s, n)[i] = s[i]
         /\ \A i \in n..(Len(s) - 1) : RemoveAt(s, n)[i] = s[i + 1]
  <1> DEFINE front == SubSeq(s, 1, n - 1)
             rest == SubSeq(s, n + 1, Len(s))
  <1>1. Len(s) \in Nat /\ n \in Nat
    OBVIOUS
  <1>2. /\ front \in Seq(Listener) /\ Len(front) = n - 1
        /\ \A i \in 1..(n - 1) : front[i] = s[i]
    BY <1>1
  <1>3. /\ rest \in Seq(Listener) /\ Len(rest) = Len(s) - n
        /\ \A i \in 1..(Len(s) - n) : rest[i] = s[i + n]
    BY <1>1
  <1>4. RemoveAt(s, n) = front \o rest
    BY Zenon DEF RemoveAt
  <1> HIDE DEF front, rest
  <1>5. /\ RemoveAt(s, n) \in Seq(Listener)
        /\ Len(RemoveAt(s, n)) = Len(front) + Len(rest)
        /\ \A i \in 1..(Len(front) + Len(rest)) :
              RemoveAt(s, n)[i] = IF i <= Len(front) THEN front[i] ELSE rest[i - Len(front)]
    <2>1. front \in Seq(Listener) /\ rest \in Seq(Listener)
      BY <1>2, <1>3, Zenon
    <2>2. /\ front \o rest \in Seq(Listener)
          /\ Len(front \o rest) = Len(front) + Len(rest)
          /\ \A i \in 1..(Len(front) + Len(rest)) :
                (front \o rest)[i] = IF i <= Len(front) THEN front[i] ELSE rest[i - Len(front)]
      BY <2>1, ConcatenationAt, Zenon
    <2> QED
      BY <1>4, <2>2, Zenon
  <1>6. Len(front) + Len(rest) = Len(s) - 1
    BY <1>1, <1>2, <1>3
  <1>7. ASSUME NEW i \in 1..(n - 1)
        PROVE  RemoveAt(s, n)[i] = s[i]
    <2>1. i \in 1..(Len(front) + Len(rest)) /\ i <= Len(front)
      BY <1>1, <1>2, <1>6
    <2> QED
      BY <1>2, <1>5, <2>1, Zenon
  <1>8. ASSUME NEW i \in n..(Len(s) - 1)
        PROVE  RemoveAt(s, n)[i] = s[i + 1]
    <2>1. i \in 1..(Len(front) + Len(rest)) /\ ~(i <= Len(front))
      BY <1>1, <1>2, <1>6
    <2>2. i - Len(front) \in 1..(Len(s) - n) /\ i - Len(front) + n = i + 1
      BY <1>1, <1>2
    <2> QED
      BY <1>3, <1>5, <2>1, <2>2, ZenonT(60)
  <1> QED
    BY <1>5, <1>6, <1>7, <1>8, Zenon

\* A loop that is entered lies on top of those around it.
LEMMA PushSpec ==
  ASSUME NEW T, NEW x \in T, NEW around \in Seq(T)
  PROVE  /\ <<x>> \o around \in Seq(T) /\ <<x>> \o around # << >>
         /\ Head(<<x>> \o around) = x
         /\ Len(<<x>> \o around) = Len(around) + 1
         /\ \A k \in 1..(Len(around) + 1) :
               (<<x>> \o around)[k] = IF k = 1 THEN x ELSE around[k - 1]
  OBVIOUS

\* A notification loop without the bounds of the model.
NatLoop == [previous : Nat, position : Nat]

\* The shape of the configuration's state; a loop's position stays inside the
\* array as long as no listener was removed under it.
ConfigInv ==
  /\ _listeners \in Seq(Listener)
  /\ calls \in Seq(NatLoop)
  /\ swaps \in Nat
  /\ seen \in [Listener -> Nat]
  /\ \A l \in Listener : seen[l] <= swaps
  /\ ~jumped => \A k \in 1..Len(calls) : calls[k].position <= Len(_listeners)
  /\ ListenersUpToDate

\* One step of a notification loop, from a state whose earlier positions are up to
\* date: either the next listener is, too, or the array is exhausted.
LEMMA NotifyKeeps ==
  ASSUME _listeners \in Seq(Listener), seen \in [Listener -> Nat],
         NEW i \in Nat, i >= 1, NEW previous \in Nat, NEW ver \in Nat,
         NEW around \in Seq(NatLoop),
         \A l \in Listener : seen[l] <= ver,
         _listeners' = _listeners, swaps' = ver,
         ~jumped' => /\ \A k \in 1..Len(around) : around[k].position <= Len(_listeners)
                     /\ \A j \in 1..Len(_listeners) : j < i => seen[_listeners[j]] = ver,
         notify(i, previous, around, ver)
  PROVE  ConfigInv'
  <1> DEFINE loop == [previous |-> previous, position |-> i]
  <1>0. Len(_listeners) \in Nat /\ DOMAIN _listeners = 1..Len(_listeners)
    OBVIOUS
  <1>1. CASE i <= Len(_listeners)
    <2>1. calls' = <<loop>> \o around /\ seen' = [seen EXCEPT ![_listeners[i]] = ver]
      BY <1>1, Zenon DEF notify
    <2>2. loop \in NatLoop /\ loop.position = i
      BY Zenon DEF NatLoop
    <2> HIDE DEF loop
    <2>3. /\ calls' \in Seq(NatLoop) /\ calls' # << >>
          /\ Head(calls') = loop /\ Len(calls') = Len(around) + 1 /\ Len(around) \in Nat
          /\ \A k \in 1..(Len(around) + 1) :
               calls'[k] = IF k = 1 THEN loop ELSE around[k - 1]
      BY <2>1, <2>2, PushSpec
    <2>4. _listeners[i] \in Listener
      BY <1>0, <1>1
    <2>5. /\ seen' \in [Listener -> Nat]
          /\ \A l \in Listener : seen'[l] = IF l = _listeners[i] THEN ver ELSE seen[l]
      BY <2>1, <2>4, ZenonT(60)
    <2>6. ASSUME NEW l \in Listener
          PROVE  seen'[l] <= ver
      <3>1. seen[l] <= ver
        BY Zenon
      <3>2. seen'[l] = ver \/ seen'[l] = seen[l]
        BY <2>5, <2>6, Zenon
      <3>3. ver <= ver
        OBVIOUS
      <3> QED
        BY <3>1, <3>2, <3>3, ZenonT(60)
    <2>7. ASSUME ~jumped'
          PROVE  \A k \in 1..Len(calls') : calls'[k].position <= Len(_listeners)
      <3> SUFFICES ASSUME NEW k \in 1..(Len(around) + 1)
                   PROVE  calls'[k].position <= Len(_listeners)
        BY <2>3, Zenon
      <3>1. CASE k = 1
        BY <1>1, <2>2, <2>3, <3>1, ZenonT(60)
      <3>2. CASE k # 1
        <4>1. k - 1 \in 1..Len(around) /\ calls'[k] = around[k - 1]
          BY <2>3, <3>2
        <4> QED
          BY <2>7, <4>1, Zenon
      <3> QED
        BY <3>1, <3>2, Zenon
    <2>8. ListenersUpToDate'
      <3> SUFFICES ASSUME ~jumped', NEW j \in 1..Len(_listeners), j <= i
                   PROVE  seen'[_listeners[j]] = ver
        BY <1>0, <2>2, <2>3, Zenon DEF ListenersUpToDate
      <3>1. _listeners[j] \in Listener
        BY <1>0
      <3>2. CASE j = i
        BY <2>5, <3>1, <3>2, Zenon
      <3>3. CASE j < i
        BY <2>5, <3>1, <3>3, Zenon
      <3> QED
        BY <1>0, <3>2, <3>3
    <2> QED
      BY <2>3, <2>5, <2>6, <2>7, <2>8, ZenonT(60) DEF ConfigInv
  <1>2. CASE ~(i <= Len(_listeners))
    <2>1. calls' = around /\ seen' = seen
      BY <1>2, Zenon DEF notify
    <2>2. ListenersUpToDate'
      <3> SUFFICES ASSUME ~jumped', NEW j \in 1..Len(_listeners)
                   PROVE  seen[_listeners[j]] = ver
        BY <1>0, <2>1, Zenon DEF ListenersUpToDate
      <3>1. j < i
        BY <1>0, <1>2
      <3> QED
        BY <3>1, Zenon
    <2> QED
      BY <2>1, <2>2, Zenon DEF ConfigInv
  <1> QED
    BY <1>1, <1>2, Zenon

\* A reload starts a loop at the first position, over an older config or none.
LEMMA ReloadKeeps ==
  ASSUME ConfigInv, NEW candidate, reload(candidate)
  PROVE  ConfigInv'
  <1>1. /\ _listeners \in Seq(Listener) /\ seen \in [Listener -> Nat]
        /\ calls \in Seq(NatLoop)
        /\ swaps \in Nat /\ swaps + 1 \in Nat
        /\ _listeners' = _listeners /\ swaps' = swaps + 1
        /\ notify(1, swaps, calls, swaps + 1)
    BY DEF ConfigInv, reload
  <1>2. \A l \in Listener : seen[l] <= swaps + 1
    BY DEF ConfigInv
  <1>3. ~jumped' => \A k \in 1..Len(calls) : calls[k].position <= Len(_listeners)
    <2>1. CASE calls = << >>
      BY <2>1
    <2>2. CASE calls # << >>
      <3>1. ~jumped' => ~jumped
        BY <2>2, Zenon DEF reload
      <3> QED
        BY <3>1, Zenon DEF ConfigInv
    <2> QED
      BY <2>1, <2>2, Zenon
  <1>4. \A j \in 1..Len(_listeners) : ~(j < 1)
    BY <1>1
  <1> QED
    BY <1>1, <1>2, <1>3, <1>4, NotifyKeeps

\* A loop goes on, or ends with every listener up to date.
LEMMA ListenerReturnsKeeps ==
  ASSUME ConfigInv, listenerReturns
  PROVE  ConfigInv'
  <1>1. /\ _listeners \in Seq(Listener) /\ seen \in [Listener -> Nat]
        /\ calls \in Seq(NatLoop) /\ calls # << >>
        /\ swaps \in Nat /\ \A l \in Listener : seen[l] <= swaps
        /\ _listeners' = _listeners /\ swaps' = swaps
        /\ notify(Head(calls).position + 1, Head(calls).previous, Tail(calls), swaps)
    BY Zenon DEF ConfigInv, listenerReturns
  <1>2. /\ Head(calls) \in NatLoop
        /\ Tail(calls) \in Seq(NatLoop)
        /\ Len(Tail(calls)) = Len(calls) - 1 /\ Len(calls) \in Nat
        /\ \A k \in 1..Len(Tail(calls)) : Tail(calls)[k] = calls[k + 1]
    <2>1. calls \in Seq(NatLoop) /\ calls # << >>
      BY <1>1, Zenon
    <2> QED
      BY <2>1, HeadAndTail, Zenon
  <1>3. /\ Head(calls).position + 1 \in Nat /\ Head(calls).position + 1 >= 1
        /\ Head(calls).position \in Nat /\ Head(calls).previous \in Nat
    BY <1>2 DEF NatLoop
  <1>4. ASSUME ~jumped'
        PROVE  /\ \A k \in 1..Len(Tail(calls)) : Tail(calls)[k].position <= Len(_listeners)
               /\ \A j \in 1..Len(_listeners) : j < Head(calls).position + 1
                                                  => seen[_listeners[j]] = swaps
    <2>1. ~jumped
      BY <1>4, Zenon DEF listenerReturns
    <2>2. ASSUME NEW k \in 1..Len(Tail(calls))
          PROVE  Tail(calls)[k].position <= Len(_listeners)
      <3>1. k + 1 \in 1..Len(calls) /\ Tail(calls)[k] = calls[k + 1]
        BY <1>2
      <3> QED
        BY <2>1, <3>1, Zenon DEF ConfigInv
    <2>3. ASSUME NEW j \in 1..Len(_listeners), j < Head(calls).position + 1
          PROVE  seen[_listeners[j]] = swaps
      <3>1. _listeners \in Seq(Listener)
        BY <1>1, Zenon
      <3>2. j \in DOMAIN _listeners
        BY <3>1
      <3>3. j \in Nat /\ j <= Head(calls).position
        BY <1>3, <2>3
      <3> QED
        BY <2>1, <3>2, <3>3, Zenon DEF ConfigInv, ListenersUpToDate
    <2> QED
      BY <2>2, <2>3, Zenon
  <1> QED
    BY <1>1, <1>2, <1>3, <1>4, NotifyKeeps, ZenonT(60)

\* A listener that registers goes to the end, behind every running loop.
LEMMA OnChangeKeeps ==
  ASSUME ConfigInv, NEW l \in Listener, onChange(l)
  PROVE  ConfigInv'
  <1>1. /\ _listeners \in Seq(Listener) /\ Len(_listeners) \in Nat
        /\ seen \in [Listener -> Nat] /\ swaps \in Nat
        /\ \A m \in Listener : seen[m] <= swaps
        /\ calls' = calls /\ swaps' = swaps /\ jumped' = jumped
    BY DEF ConfigInv, onChange
  <1>2. /\ _listeners' \in Seq(Listener) /\ Len(_listeners') = Len(_listeners) + 1
        /\ \A i \in 1..Len(_listeners) : _listeners'[i] = _listeners[i]
        /\ _listeners'[Len(_listeners) + 1] = l
        /\ DOMAIN _listeners' = 1..(Len(_listeners) + 1)
    BY <1>1 DEF onChange
  <1>3. \A m \in Listener :
           seen'[m] = IF m = l /\ ~Contains(_listeners, l) THEN swaps ELSE seen[m]
    BY <1>1, Zenon DEF onChange
  <1>4. seen' \in [Listener -> Nat] /\ \A m \in Listener : seen'[m] <= swaps
    <2>1. seen' \in [Listener -> Nat]
      BY <1>1, Zenon DEF onChange
    <2>2. ASSUME NEW m \in Listener
          PROVE  seen'[m] <= swaps
      BY <1>1, <1>3
    <2> QED
      BY <2>1, <2>2, Zenon
  <1>5. ASSUME ~jumped', NEW k \in 1..Len(calls')
        PROVE  calls'[k].position <= Len(_listeners')
    <2>1. calls[k].position <= Len(_listeners) /\ calls[k].position \in Nat
      <3>1. calls[k] \in NatLoop /\ calls[k].position <= Len(_listeners)
        BY <1>1, <1>5 DEF ConfigInv
      <3> QED
        BY <3>1, Zenon DEF NatLoop
    <2> QED
      BY <1>1, <1>2, <2>1
  <1>6. ListenersUpToDate'
    <2> SUFFICES ASSUME ~jumped, NEW i \in 1..(Len(_listeners) + 1),
                        calls = << >> \/ i <= Head(calls).position
                 PROVE  seen'[_listeners'[i]] = swaps
      BY <1>1, <1>2, Zenon DEF ListenersUpToDate
    <2>1. \A j \in 1..Len(_listeners) : (calls = << >> \/ j <= Head(calls).position)
                                          => seen[_listeners[j]] = swaps
      <3>1. DOMAIN _listeners = 1..Len(_listeners)
        <4>1. _listeners \in Seq(Listener)
          BY <1>1, Zenon
        <4> QED
          BY <4>1
      <3> QED
        BY <3>1, Zenon DEF ConfigInv, ListenersUpToDate
    <2>2. CASE i <= Len(_listeners)
      <3>1. i \in 1..Len(_listeners) /\ _listeners[i] \in Listener
        BY <1>1, <2>2
      <3> QED
        BY <1>2, <1>3, <2>1, <3>1, Zenon
    <2>3. CASE i = Len(_listeners) + 1
      <3>1. calls = << >>
        <4>1. SUFFICES ASSUME calls # << >>
                       PROVE  FALSE
          BY Zenon
        <4>2. Head(calls) = calls[1] /\ 1 \in 1..Len(calls) /\ calls[1] \in NatLoop
          BY <4>1 DEF ConfigInv
        <4>3. Head(calls).position <= Len(_listeners) /\ Head(calls).position \in Nat
          BY <4>2, Zenon DEF ConfigInv, NatLoop
        <4> QED
          BY <1>1, <2>3, <4>1, <4>3
      <3>2. CASE Contains(_listeners, l)
        <4>1. PICK j \in 1..Len(_listeners) : _listeners[j] = l
          BY <3>2, Zenon DEF Contains
        <4> QED
          BY <1>2, <1>3, <2>1, <2>3, <3>1, <3>2, <4>1
      <3>3. CASE ~Contains(_listeners, l)
        BY <1>2, <1>3, <2>3, <3>3, Zenon
      <3> QED
        BY <3>2, <3>3, Zenon
    <2> QED
      BY <1>1, <2>2, <2>3
  <1> QED
    BY <1>1, <1>2, <1>4, <1>5, <1>6, Zenon DEF ConfigInv

\* A listener that leaves: unless jumped is set, it was behind every running loop.
LEMMA UnsubscribeKeeps ==
  ASSUME ConfigInv, NEW l \in Listener, unsubscribeListener(l)
  PROVE  ConfigInv'
  <1> DEFINE idx == SelectInSeq(_listeners, LAMBDA x : x = l)
  <1>1. /\ _listeners \in Seq(Listener) /\ Len(_listeners) \in Nat
        /\ seen \in [Listener -> Nat] /\ swaps \in Nat
        /\ \A m \in Listener : seen[m] <= swaps
        /\ calls \in Seq(NatLoop)
        /\ calls' = calls /\ swaps' = swaps /\ seen' = seen
    BY DEF ConfigInv, unsubscribeListener
  <1>2. idx \in 1..Len(_listeners)
    <2>1. Contains(_listeners, l)
      BY Zenon DEF unsubscribeListener
    <2>2. idx = Min({i \in 1..Len(_listeners) : _listeners[i] = l})
      BY <1>1, <2>1, IndexOfListener, Zenon DEF SelectInSeq
    <2> HIDE DEF idx
    <2> QED
      BY <1>1, <2>1, <2>2, IndexOfListener, Zenon
  <1>3. /\ _listeners' = RemoveAt(_listeners, idx)
        /\ ~jumped' => ~jumped /\ \A k \in DOMAIN calls : ~(idx <= calls[k].position)
    BY Zenon DEF unsubscribeListener
  <1> HIDE DEF idx
  <1>4. /\ _listeners' \in Seq(Listener) /\ Len(_listeners') = Len(_listeners) - 1
        /\ \A i \in 1..(idx - 1) : _listeners'[i] = _listeners[i]
        /\ \A i \in idx..(Len(_listeners) - 1) : _listeners'[i] = _listeners[i + 1]
    BY <1>1, <1>2, <1>3, SpliceSpec, Zenon
  <1>5. ASSUME NEW k \in 1..Len(calls), ~jumped'
        PROVE  calls[k].position \in Nat /\ calls[k].position < idx
    <2>1. k \in DOMAIN calls /\ calls[k] \in NatLoop
      BY <1>1
    <2>2. calls[k].position \in Nat
      BY <2>1, Zenon DEF NatLoop
    <2>3. ~(idx <= calls[k].position)
      BY <1>3, <1>5, <2>1, Zenon
    <2>4. idx \in Nat
      BY <1>2
    <2> QED
      BY <2>2, <2>3, <2>4
  <1>6. ASSUME ~jumped', NEW k \in 1..Len(calls')
        PROVE  calls'[k].position <= Len(_listeners')
    <2>1. calls[k].position \in Nat /\ calls[k].position < idx
      BY <1>1, <1>5, <1>6, Zenon
    <2>2. /\ calls' = calls /\ Len(_listeners) \in Nat
          /\ Len(_listeners') = Len(_listeners) - 1
      BY <1>1, <1>4, Zenon
    <2>3. calls[k].position <= Len(_listeners')
      BY <1>2, <2>1, <2>2
    <2> QED
      BY <2>2, <2>3, Zenon
  <1>7. /\ DOMAIN _listeners = 1..Len(_listeners)
        /\ DOMAIN _listeners' = 1..(Len(_listeners) - 1)
    <2>1. /\ _listeners \in Seq(Listener) /\ _listeners' \in Seq(Listener)
          /\ Len(_listeners') = Len(_listeners) - 1
      BY <1>1, <1>4, Zenon
    <2> QED
      BY <2>1
  <1>8. ListenersUpToDate'
    <2> SUFFICES ASSUME ~jumped', NEW i \in 1..(Len(_listeners) - 1),
                        calls = << >> \/ i <= Head(calls).position
                 PROVE  seen[_listeners'[i]] = swaps
      BY <1>1, <1>7, Zenon DEF ListenersUpToDate
    <2>0. Len(_listeners) \in Nat
      BY <1>1, Zenon
    <2>1. \A j \in 1..Len(_listeners) : (calls = << >> \/ j <= Head(calls).position)
                                          => seen[_listeners[j]] = swaps
      BY <1>3, <1>7, Zenon DEF ConfigInv, ListenersUpToDate
    <2>2. CASE i < idx
      <3>1. i \in 1..(idx - 1) /\ i \in 1..Len(_listeners)
        BY <1>2, <2>0, <2>2
      <3> QED
        BY <1>4, <2>1, <3>1, Zenon
    <2>3. CASE ~(i < idx)
      <3>1. calls = << >>
        <4>1. SUFFICES ASSUME calls # << >>
                       PROVE  FALSE
          BY Zenon
        <4>2. Head(calls) = calls[1] /\ 1 \in 1..Len(calls)
          BY <1>1, <4>1
        <4>3. Head(calls).position \in Nat /\ Head(calls).position < idx
          BY <1>5, <4>2, Zenon
        <4> QED
          BY <1>2, <2>3, <4>1, <4>3
      <3>2. i \in idx..(Len(_listeners) - 1) /\ i + 1 \in 1..Len(_listeners)
        BY <1>1, <1>2, <2>3
      <3> QED
        BY <1>4, <2>1, <3>1, <3>2, ZenonT(60)
    <2> QED
      BY <2>2, <2>3, Zenon
  <1> QED
    BY <1>1, <1>4, <1>6, <1>8, Zenon DEF ConfigInv

\* The inductive invariant of the configuration.
THEOREM ConfigInvCorrect == ConfigSpec => []ConfigInv
  <1>1. ConfigInit => ConfigInv
    <2> SUFFICES ASSUME ConfigInit
                 PROVE  ConfigInv
      BY Zenon
    <2>1. _listeners = << >> /\ calls = << >> /\ swaps = 0 /\ seen = [l \in Listener |-> 0]
      BY Zenon DEF ConfigInit
    <2> QED
      BY <2>1 DEF ConfigInv, ListenersUpToDate
  <1>2. ConfigInv /\ [ConfigNext]_configVars => ConfigInv'
    <2> SUFFICES ASSUME ConfigInv, [ConfigNext]_configVars
                 PROVE  ConfigInv'
      BY Zenon
    <2>1. CASE UNCHANGED configVars
      BY <2>1, Zenon DEF configVars, ConfigInv, ListenersUpToDate
    <2> QED
      BY <2>1, ReloadKeeps, ListenerReturnsKeeps, OnChangeKeeps, UnsubscribeKeeps, Zenon
         DEF ConfigNext
  <1> QED
    BY <1>1, <1>2, PTL DEF ConfigSpec

\* For any listeners and any nesting of reloads, every listener that the innermost
\* loop has reached, and after the loops every listener, has last seen the current
\* config, unless one was unsubscribed under a running loop (ListenersUpToDate).
THEOREM ListenersCorrect == ConfigSpec => []ListenersUpToDate
  <1>1. ConfigInv => ListenersUpToDate
    BY Zenon DEF ConfigInv
  <1> QED
    BY <1>1, ConfigInvCorrect, PTL

\* No listener is shown an older config after a newer one (NeverShownOlder).
THEOREM NeverOlderCorrect == ConfigSpec => NeverShownOlder
  <1>1. ConfigInv /\ [ConfigNext]_configVars
          => [\A l \in Listener : seen'[l] >= seen[l]]_configVars
    <2> SUFFICES ASSUME ConfigInv, ConfigNext, NEW l \in Listener
                 PROVE  seen'[l] >= seen[l]
      BY Zenon DEF NeverShownOlder
    <2>0. seen \in [Listener -> Nat] /\ swaps \in Nat /\ seen[l] <= swaps
      BY Zenon DEF ConfigInv
    <2>1. seen'[l] \in {seen[l], swaps, swaps + 1}
      BY <2>0, Zenon DEF ConfigNext, reload, listenerReturns, notify, onChange, unsubscribeListener
    <2> QED
      BY <2>0, <2>1
  <1> QED
    BY <1>1, ConfigInvCorrect, PTL DEF ConfigSpec, NeverShownOlder

\* The bounds of the configuration: loops nest at most as deep as there were
\* reloads, and a loop's position is within what was ever registered.
ConfigBounds ==
  /\ _current \in Candidate
  /\ Len(_listeners) <= MaxListeners
  /\ calls \in Seq(Loop) /\ Len(calls) <= swaps
  /\ swaps <= MaxReloads
  /\ jumped \in BOOLEAN
  /\ registrations \in 0..MaxRegistrations

\* A loop that goes on, is entered or ends keeps the bounds.
LEMMA NotifyBounds ==
  ASSUME ConfigInv, ConfigBounds, NEW i \in Nat \ {0}, NEW previous \in 0..MaxReloads,
         NEW around \in Seq(Loop), NEW ver, notify(i, previous, around, ver)
  PROVE  calls' \in Seq(Loop) /\ Len(calls') <= Len(around) + 1
<1>0. Len(around) \in Nat /\ Len(_listeners) \in Nat /\ MaxListeners \in Nat
  BY ConfigAssumption DEF ConfigInv
<1>1. CASE i <= Len(_listeners)
  <2>0. PICK x : x = [previous |-> previous, position |-> i]
    BY Zenon
  <2>1. i \in 1..MaxListeners
    BY <1>0, <1>1 DEF ConfigBounds
  <2>2. x \in Loop /\ calls' = <<x>> \o around
    BY <1>1, <2>0, <2>1, Zenon DEF Loop, notify
  <2>3. calls' \in Seq(Loop) /\ Len(calls') = Len(around) + 1
    BY <2>2, PushSpec
  <2>4. QED
    BY <1>0, <2>3
<1>2. CASE ~(i <= Len(_listeners))
  BY <1>0, <1>2 DEF notify
<1>3. QED
  BY <1>1, <1>2, Zenon

\* Each step keeps the bounds.
LEMMA ConfigBoundsKept ==
  ASSUME ConfigInv, ConfigBounds, [ConfigNext]_configVars
  PROVE  ConfigBounds'
<1>0. /\ swaps \in Nat /\ Len(calls) \in Nat /\ Len(_listeners) \in Nat
      /\ MaxReloads \in Nat /\ MaxListeners \in Nat /\ MaxRegistrations \in Nat
      /\ calls \in Seq(Loop) /\ Len(calls) <= swaps /\ swaps <= MaxReloads
  BY ConfigAssumption DEF ConfigInv, ConfigBounds
<1>1. ASSUME NEW c \in Candidate, reload(c)
      PROVE  ConfigBounds'
  <2>1. /\ _current' = c /\ swaps' = swaps + 1 /\ swaps < MaxReloads
        /\ notify(1, swaps, calls, swaps + 1)
        /\ UNCHANGED <<_listeners, registrations>>
    BY <1>1, Zenon DEF reload
  <2>2. jumped' \in BOOLEAN
    BY <1>1, Zenon DEF reload
  <2>3. swaps \in 0..MaxReloads
    BY <1>0
  <2>4. calls' \in Seq(Loop) /\ Len(calls') <= Len(calls) + 1 /\ Len(calls') \in Nat
    BY <1>0, <2>1, <2>3, NotifyBounds
  <2>5. Len(calls') <= swaps' /\ swaps' <= MaxReloads
    BY <1>0, <2>1, <2>4
  <2>6. QED
    BY <2>1, <2>2, <2>4, <2>5, Zenon DEF ConfigBounds
<1>2. CASE listenerReturns
  <2>1. /\ calls # << >>
        /\ notify(Head(calls).position + 1, Head(calls).previous, Tail(calls), swaps)
        /\ UNCHANGED <<_current, _listeners, swaps, jumped, registrations>>
    BY <1>2, Zenon DEF listenerReturns
  <2>2. Head(calls) \in Loop /\ Tail(calls) \in Seq(Loop) /\ Len(Tail(calls)) = Len(calls) - 1
    BY <1>0, <2>1, HeadAndTail, Zenon
  <2>3. Head(calls).position + 1 \in Nat \ {0} /\ Head(calls).previous \in 0..MaxReloads
    BY <2>2 DEF Loop
  <2>4. calls' \in Seq(Loop) /\ Len(calls') <= Len(Tail(calls)) + 1 /\ Len(calls') \in Nat
    <3>1. PICK i, previous, around : /\ i = Head(calls).position + 1
                                     /\ previous = Head(calls).previous /\ around = Tail(calls)
      BY Zenon
    <3>2. /\ notify(i, previous, around, swaps)
          /\ i \in Nat \ {0} /\ previous \in 0..MaxReloads /\ around \in Seq(Loop)
      BY <2>1, <2>2, <2>3, <3>1, Zenon
    <3>3. calls' \in Seq(Loop) /\ Len(calls') <= Len(around) + 1
      BY <3>2, NotifyBounds, Zenon
    <3>4. QED
      BY <3>1, <3>3
  <2>5. Len(calls') <= swaps'
    BY <1>0, <2>1, <2>2, <2>4
  <2>6. QED
    BY <2>1, <2>4, <2>5, Zenon DEF ConfigBounds
<1>3. ASSUME NEW l \in Listener, onChange(l)
      PROVE  ConfigBounds'
  <2>1. /\ Len(_listeners) < MaxListeners /\ _listeners' = Append(_listeners, l)
        /\ registrations < MaxRegistrations /\ registrations' = registrations + 1
        /\ UNCHANGED <<_current, calls, swaps, jumped>>
    BY <1>3, Zenon DEF onChange
  <2>2. Len(_listeners') = Len(_listeners) + 1
    BY <2>1 DEF ConfigInv
  <2>3. QED
    BY <1>0, <2>1, <2>2 DEF ConfigBounds
<1>4. ASSUME NEW l \in Listener, unsubscribeListener(l)
      PROVE  ConfigBounds'
  <2> DEFINE idx == SelectInSeq(_listeners, LAMBDA x : x = l)
  <2>1. /\ Contains(_listeners, l) /\ _listeners' = RemoveAt(_listeners, idx)
        /\ UNCHANGED <<_current, calls, swaps, seen, registrations>>
    BY <1>4, Zenon DEF unsubscribeListener
  <2>2. jumped' \in BOOLEAN
    BY <1>4, Zenon DEF unsubscribeListener, ConfigBounds
  <2>3. idx \in 1..Len(_listeners)
    <3>1. idx = Min({n \in 1..Len(_listeners) : _listeners[n] = l})
      BY <2>1, IndexOfListener, Zenon DEF SelectInSeq, ConfigInv
    <3> HIDE DEF idx
    <3>2. QED
      BY <2>1, <3>1, IndexOfListener, Zenon DEF ConfigInv
  <2> HIDE DEF idx
  <2>4. Len(_listeners') = Len(_listeners) - 1
    BY <2>1, <2>3, SpliceSpec, Zenon DEF ConfigInv
  <2>5. QED
    BY <1>0, <2>1, <2>2, <2>4 DEF ConfigBounds
<1>5. CASE UNCHANGED configVars
  BY <1>5, Zenon DEF configVars, ConfigBounds
<1>6. QED
  BY <1>1, <1>2, <1>3, <1>4, <1>5, Zenon DEF ConfigNext

\* The types of the configuration: notification loops nest at most as deep as there
\* were reloads, and each stays within the array (index.ts:255-275).
THEOREM ConfigTypeCorrect == ConfigSpec => []ConfigTypeOK
<1>1. ASSUME ConfigInit
      PROVE  ConfigBounds
  <2>1. /\ _listeners = << >> /\ calls = << >> /\ swaps = 0 /\ registrations = 0
        /\ _current \in Candidate
    BY <1>1, Zenon DEF ConfigInit
  <2>2. jumped \in BOOLEAN
    BY <1>1, Zenon DEF ConfigInit
  <2>3. calls \in Seq(Loop) /\ Len(calls) = 0 /\ Len(_listeners) = 0
    BY <2>1
  <2>4. QED
    BY <2>1, <2>2, <2>3, ConfigAssumption DEF ConfigBounds
<1>2. ConfigInv /\ ConfigBounds /\ [ConfigNext]_configVars => ConfigBounds'
  BY ConfigBoundsKept, Zenon
<1>3. ASSUME ConfigInv, ConfigBounds
      PROVE  ConfigTypeOK
  <2>0. /\ MaxReloads \in Nat /\ MaxListeners \in Nat /\ swaps \in Nat /\ swaps <= MaxReloads
        /\ _listeners \in Seq(Listener) /\ Len(_listeners) <= MaxListeners
        /\ calls \in Seq(Loop) /\ Len(calls) \in Nat /\ Len(calls) <= swaps
    BY <1>3, ConfigAssumption DEF ConfigInv, ConfigBounds
  <2>1. \E n \in 0..MaxListeners : _listeners \in [1..n -> Listener]
    BY <2>0, BoundedSequence, Zenon
  <2>2. \E n \in 0..MaxReloads : calls \in [1..n -> Loop]
    <3>1. Len(calls) <= MaxReloads
      BY <2>0
    <3>2. QED
      BY <2>0, <3>1, BoundedSequence, Zenon
  <2>3. seen \in [Listener -> 0..MaxReloads]
    <3>1. seen \in [Listener -> Nat] /\ \A l \in Listener : seen[l] <= swaps
      BY <1>3, Zenon DEF ConfigInv
    <3>2. QED
      BY <2>0, <3>1
  <2>4. swaps \in 0..MaxReloads
    BY <2>0
  <2>5. QED
    BY <1>3, <2>1, <2>2, <2>3, <2>4, Zenon DEF ConfigBounds, ConfigTypeOK
<1>4. QED
  BY <1>1, <1>2, <1>3, ConfigInvCorrect, PTL DEF ConfigSpec

=============================================================================

---------------------------- MODULE GatewayProofs ----------------------------
(***************************************************************************)
(* Theorems about Gateway, for any requests, addresses, users, limits,     *)
(* threshold and times.                                                    *)
(***************************************************************************)
EXTENDS Gateway, FiniteSetTheorems, TLAPS

-----------------------------------------------------------------------------
(* The circuit breaker, whatever the requests do *)

Breaker == [state : {"CLOSED", "OPEN", "HALF_OPEN"}, failures : 0..Threshold, wait : 0..OpenFor]

\* Only an open breaker waits for nextAttempt.
WaitsWhenOpen == breaker.wait > 0 => breaker.state = "OPEN"

BreakerInv == breaker \in Breaker /\ ClosedIsHealthy /\ WaitsWhenOpen

\* All that can happen to the breaker in a step.
BreakerStep ==
  \/ UNCHANGED breaker
  \/ breaker' = NewBreaker
  \/ ~Blocked /\ breaker' = TryAgain
  \/ breaker' = OnSuccess
  \/ breaker' = OnFailure
  \/ breaker' = [breaker EXCEPT !.wait = IF @ = 0 THEN 0 ELSE @ - 1]

LEMMA LimitsAreNaturals ==
  {IpMax, UserMax, Window, Threshold, OpenFor, Burst} \subseteq Nat \ {0}
  BY LimitsAssumption

LEMMA NewBreakerInv == NewBreaker \in Breaker /\ (breaker = NewBreaker => BreakerInv)
  BY LimitsAreNaturals DEF NewBreaker, Breaker, BreakerInv, ClosedIsHealthy, WaitsWhenOpen

LEMMA EachStepIsABreakerStep == [GatewayNext]_gatewayVars => BreakerStep
  <1> SUFFICES ASSUME [GatewayNext]_gatewayVars PROVE BreakerStep
    OBVIOUS
  <1>1. ASSUME NEW c \in Calls, NEW route \in Routes, NEW a \in Addresses,
               NEW u \in Users \cup {Nobody}, Arrive(c, route, a, u)
        PROVE  BreakerStep
    BY <1>1 DEF Arrive, BreakerStep
  <1>2. ASSUME NEW c \in Calls, UserRateLimit(c) PROVE BreakerStep
    BY <1>2 DEF UserRateLimit, BreakerStep
  <1>3. ASSUME NEW c \in Calls, Execute(c) PROVE BreakerStep
    BY <1>3 DEF Execute, BreakerStep
  <1>4. ASSUME NEW c \in Calls, Answer(c) \/ CallFails(c) PROVE BreakerStep
    BY <1>4 DEF Answer, CallFails, BreakerStep
  <1>5. CASE ServiceDown \/ ServiceUp \/ Tick \/ Restart
    BY <1>5 DEF ServiceDown, ServiceUp, Tick, Restart, BreakerStep
  <1>6. CASE UNCHANGED gatewayVars
    BY <1>6 DEF gatewayVars, BreakerStep
  <1> QED
    BY <1>1, <1>2, <1>3, <1>4, <1>5, <1>6 DEF GatewayNext

LEMMA BreakerStepKeeps ==
  ASSUME BreakerInv, BreakerStep
  PROVE  BreakerInv'
  <1> USE LimitsAreNaturals DEF BreakerInv, Breaker, ClosedIsHealthy, WaitsWhenOpen
  <1>1. CASE UNCHANGED breaker
    BY <1>1
  <1>2. CASE breaker' = NewBreaker
    BY <1>2 DEF NewBreaker
  <1>3. CASE ~Blocked /\ breaker' = TryAgain
    BY <1>3 DEF Blocked, TryAgain
  <1>4. CASE breaker' = OnSuccess
    <2> DEFINE st == IF breaker.state = "HALF_OPEN" THEN "CLOSED" ELSE breaker.state
    <2> HIDE DEF st
    <2>1. st \in {"CLOSED", "OPEN", "HALF_OPEN"} /\ 0 \in 0..Threshold
      BY DEF st
    <2>2. OnSuccess = [breaker EXCEPT !.failures = 0, !.state = st]
      BY DEF OnSuccess, st
    <2>3. /\ OnSuccess \in Breaker
          /\ OnSuccess.state = st /\ OnSuccess.failures = 0 /\ OnSuccess.wait = breaker.wait
      BY <2>1, <2>2
    <2> QED
      BY <1>4, <2>3 DEF st
  <1>5. CASE breaker' = OnFailure
    BY <1>5 DEF OnFailure
  <1>6. CASE breaker' = [breaker EXCEPT !.wait = IF @ = 0 THEN 0 ELSE @ - 1]
    BY <1>6
  <1> QED
    BY <1>1, <1>2, <1>3, <1>4, <1>5, <1>6 DEF BreakerStep

LEMMA BreakerInvariant == GatewaySpec => []BreakerInv
  <1>1. GatewayInit => BreakerInv
    BY NewBreakerInv DEF GatewayInit
  <1>2. BreakerInv /\ [GatewayNext]_gatewayVars => BreakerInv'
    BY EachStepIsABreakerStep, BreakerStepKeeps
  <1> QED
    BY <1>1, <1>2, PTL DEF GatewaySpec

\* A closed breaker has counted fewer than Threshold failures, in whatever order
\* successes, failures, trials and restarts come.
THEOREM ClosedBreakerIsHealthy == GatewaySpec => []ClosedIsHealthy
  <1>1. BreakerInv => ClosedIsHealthy
    BY DEF BreakerInv
  <1> QED
    BY <1>1, BreakerInvariant, PTL

-----------------------------------------------------------------------------
(* Type correctness *)

Requests == {Idle} \cup [pc : {"proxy"} \cup InFlight] \cup [pc : {"user"}, user : Users]

Windows == [Keys -> SUBSET Members]

\* A request with room in its window adds a member that was not there.
LEMMA NewestIsNew ==
  ASSUME NEW ms, RoomFor(ms)
  PROVE  Newest(ms) \in Members /\ Newest(ms) \notin ms
  <1> DEFINE free == CHOOSE n \in 1..Burst : <<0, n>> \notin ms
  <1>1. free \in 1..Burst /\ <<0, free>> \notin ms
    BY DEF RoomFor
  <1>2. 0 \in Ages
    BY LimitsAreNaturals DEF Ages
  <1>3. Newest(ms) = <<0, free>>
    BY DEF Newest
  <1> HIDE DEF free
  <1> QED
    BY <1>1, <1>2, <1>3 DEF Members

LEMMA NewestType ==
  ASSUME NEW W \in Windows, NEW k \in Keys, NEW ms, RoomFor(ms)
  PROVE  [W EXCEPT ![k] = @ \cup {Newest(ms)}] \in Windows
  BY NewestIsNew DEF Windows

\* What a tick leaves of a window.
LEMMA OlderType ==
  ASSUME NEW ms \in SUBSET Members
  PROVE  Older(ms) \in SUBSET Members
  <1> SUFFICES ASSUME NEW m \in ms, m[1] + 1 < Window
               PROVE  <<m[1] + 1, m[2]>> \in Members
    BY DEF Older
  <1>1. m[1] \in Ages /\ m[2] \in 1..Burst
    BY DEF Members
  <1>2. m[1] + 1 \in Ages
    BY <1>1, LimitsAreNaturals DEF Ages
  <1> QED
    BY <1>1, <1>2 DEF Members

\* What the requests and their windows can become, without the breaker.
RequestTypes == /\ up \in BOOLEAN
                /\ call \in [Calls -> Requests]
                /\ hits \in Windows
                /\ passed \in Windows

\* Moving one request on keeps the type of them all and leaves the others alone.
LEMMA Moves ==
  ASSUME call \in [Calls -> Requests], NEW c \in Calls, NEW r \in Requests,
         call' = [call EXCEPT ![c] = r]
  PROVE  /\ call' \in [Calls -> Requests]
         /\ \A d \in Calls : d # c => call'[d] = call[d]
         /\ call'[c] = r
  OBVIOUS

LEMMA RequestKinds ==
  /\ Idle \in Requests
  /\ \A pc \in {"proxy", "sent", "stuck"} : [pc |-> pc] \in Requests
  /\ \A u \in Users : [pc |-> "user", user |-> u] \in Requests
  BY DEF Requests, InFlight

\* What a step does to a request: nothing, or it moves it on; a request is with
\* the service only when Execute has sent it or the service went down meanwhile.
RequestStep(c) ==
  \/ call'[c] = call[c]
  \/ call'[c] \in Requests /\ call'[c].pc \notin InFlight
  \/ call[c].pc = "proxy" /\ ~Blocked
  \/ call[c].pc = "sent"

LEMMA ArriveMoves ==
  ASSUME RequestTypes, NEW c \in Calls, NEW route \in Routes, NEW a \in Addresses,
         NEW u \in Users \cup {Nobody}, Arrive(c, route, a, u)
  PROVE  RequestTypes' /\ \A d \in Calls : RequestStep(d)
  <1>1. CASE route = "private"
    <2>1. u \in Users /\ a \in Keys
      BY <1>1 DEF Arrive, VerifyJWT, Keys
    <2>2. /\ hits' \in Windows /\ passed' \in Windows
          /\ \/ call' = [call EXCEPT ![c] = [pc |-> "user", user |-> u]]
             \/ Finish(c)
      BY <1>1, <2>1, NewestType
         DEF Arrive, IpRateLimit, RateLimiter, RequestTypes, limiterVars
    <2>3. PICK r \in {Idle, [pc |-> "user", user |-> u]} : call' = [call EXCEPT ![c] = r]
      BY <2>2 DEF Finish
    <2>4. r \in Requests /\ r.pc \notin InFlight
      BY <2>1, RequestKinds DEF Idle, InFlight
    <2> QED
      BY <2>2, <2>3, <2>4, Moves DEF Arrive, RequestTypes, RequestStep
  <1>2. CASE route # "private"
    <2>1. call' = [call EXCEPT ![c] = [pc |-> "proxy"]] /\ UNCHANGED <<hits, passed>>
      BY <1>2 DEF Arrive, EndpointRateLimit, Goto, limiterVars
    <2>2. [pc |-> "proxy"] \in Requests /\ [pc |-> "proxy"].pc \notin InFlight
      BY RequestKinds DEF InFlight
    <2> QED
      BY <2>1, <2>2, Moves DEF Arrive, RequestTypes, RequestStep
  <1> QED
    BY <1>1, <1>2

LEMMA UserRateLimitMoves ==
  ASSUME RequestTypes, NEW c \in Calls, UserRateLimit(c)
  PROVE  RequestTypes' /\ \A d \in Calls : RequestStep(d)
  <1>1. call[c].user \in Keys
    <2>1. call[c] \in Requests /\ call[c].pc = "user"
      BY DEF RequestTypes, UserRateLimit
    <2> QED
      BY <2>1 DEF Requests, Idle, InFlight, Keys
  <1>2. /\ hits' \in Windows /\ passed' \in Windows
        /\ Goto(c, "proxy") \/ Finish(c)
    BY <1>1, NewestType DEF UserRateLimit, RateLimiter, RequestTypes, limiterVars
  <1>3. PICK r \in {Idle, [pc |-> "proxy"]} : call' = [call EXCEPT ![c] = r]
    BY <1>2 DEF Goto, Finish
  <1>4. r \in Requests /\ r.pc \notin InFlight
    BY RequestKinds DEF Idle, InFlight
  <1> QED
    BY <1>2, <1>3, <1>4, Moves DEF UserRateLimit, RequestTypes, RequestStep

LEMMA ExecuteMoves ==
  ASSUME RequestTypes, NEW c \in Calls, Execute(c)
  PROVE  RequestTypes' /\ \A d \in Calls : RequestStep(d)
  <1>1. CASE Blocked
    <2>1. call' = [call EXCEPT ![c] = Idle] /\ Idle \in Requests /\ Idle.pc \notin InFlight
      BY <1>1, RequestKinds DEF Execute, Finish, Idle, InFlight
    <2> QED
      BY <2>1, Moves DEF Execute, RequestTypes, RequestStep
  <1>2. CASE ~Blocked
    <2>1. PICK pc \in {"sent", "stuck"} : call' = [call EXCEPT ![c] = [pc |-> pc]]
      BY <1>2 DEF Execute, Goto
    <2>2. [pc |-> pc] \in Requests
      BY RequestKinds
    <2>3. call[c].pc = "proxy"
      BY DEF Execute
    <2> QED
      BY <1>2, <2>1, <2>2, <2>3, Moves DEF Execute, RequestTypes, RequestStep
  <1> QED
    BY <1>1, <1>2

LEMMA AnswerMoves ==
  ASSUME RequestTypes, NEW c \in Calls, Answer(c) \/ CallFails(c)
  PROVE  RequestTypes' /\ \A d \in Calls : RequestStep(d)
  <1>1. call' = [call EXCEPT ![c] = Idle] /\ Idle \in Requests /\ Idle.pc \notin InFlight
    BY RequestKinds DEF Answer, CallFails, Finish, Idle, InFlight
  <1> QED
    BY <1>1, Moves DEF Answer, CallFails, RequestTypes, RequestStep

LEMMA EnvironmentMoves ==
  ASSUME RequestTypes, ServiceDown \/ ServiceUp \/ Tick \/ Restart \/ UNCHANGED gatewayVars
  PROVE  RequestTypes' /\ \A d \in Calls : RequestStep(d)
  <1>1. CASE ServiceDown
    BY <1>1, RequestKinds DEF ServiceDown, RequestTypes, RequestStep
  <1>2. CASE ServiceUp \/ UNCHANGED gatewayVars
    BY <1>2 DEF ServiceUp, gatewayVars, RequestTypes, RequestStep
  <1>3. CASE Tick
    <2>1. passed' \in Windows
      BY <1>3, OlderType DEF Tick, RequestTypes, Windows
    <2>2. hits' \in Windows
      BY <1>3, OlderType DEF Tick, RequestTypes, Windows, RemoveOld
    <2> QED
      BY <1>3, <2>1, <2>2 DEF Tick, RequestTypes, RequestStep
  <1>4. CASE Restart
    BY <1>4, RequestKinds DEF Restart, RequestTypes, RequestStep, Idle, InFlight
  <1> QED
    BY <1>1, <1>2, <1>3, <1>4

LEMMA EachStepMoves ==
  ASSUME RequestTypes, [GatewayNext]_gatewayVars
  PROVE  RequestTypes' /\ \A d \in Calls : RequestStep(d)
  <1>1. ASSUME NEW c \in Calls, NEW route \in Routes, NEW a \in Addresses,
               NEW u \in Users \cup {Nobody}, Arrive(c, route, a, u)
        PROVE  RequestTypes' /\ \A d \in Calls : RequestStep(d)
    BY <1>1, ArriveMoves
  <1>2. ASSUME NEW c \in Calls, UserRateLimit(c)
        PROVE  RequestTypes' /\ \A d \in Calls : RequestStep(d)
    BY <1>2, UserRateLimitMoves
  <1>3. ASSUME NEW c \in Calls, Execute(c)
        PROVE  RequestTypes' /\ \A d \in Calls : RequestStep(d)
    BY <1>3, ExecuteMoves
  <1>4. ASSUME NEW c \in Calls, Answer(c) \/ CallFails(c)
        PROVE  RequestTypes' /\ \A d \in Calls : RequestStep(d)
    BY <1>4, AnswerMoves
  <1>5. CASE ServiceDown \/ ServiceUp \/ Tick \/ Restart \/ UNCHANGED gatewayVars
    BY <1>5, EnvironmentMoves
  <1> QED
    BY <1>1, <1>2, <1>3, <1>4, <1>5 DEF GatewayNext

LEMMA RequestInvariant == GatewaySpec => []RequestTypes
  <1>1. GatewayInit => RequestTypes
    BY RequestKinds DEF GatewayInit, RequestTypes, Windows
  <1>2. RequestTypes /\ [GatewayNext]_gatewayVars => RequestTypes'
    BY EachStepMoves
  <1> QED
    BY <1>1, <1>2, PTL DEF GatewaySpec

\* Every reachable state of the gateway has the types of its variables: the
\* failures that are counted never pass the threshold, the wait never the timeout.
THEOREM GatewayTypeCorrect == GatewaySpec => []GatewayTypeOK
  <1>1. BreakerInv /\ RequestTypes => GatewayTypeOK
    BY DEF BreakerInv, Breaker, RequestTypes, Requests, Windows, GatewayTypeOK
  <1> QED
    BY <1>1, BreakerInvariant, RequestInvariant, PTL

-----------------------------------------------------------------------------
(* A tripped breaker *)

\* While the breaker waits for nextAttempt no request goes to the service, with
\* any number of calls in flight that succeed or fail meanwhile.
THEOREM TrippedBreakerIsQuiet == GatewaySpec => TrippedIsQuiet
  <1> DEFINE Quiet ==
        \A c \in Calls : call[c].pc = "proxy" /\ call'[c].pc \in InFlight => breaker.wait = 0
  <1>1. BreakerInv /\ RequestTypes /\ [GatewayNext]_gatewayVars => Quiet
    <2> SUFFICES ASSUME BreakerInv, RequestTypes, [GatewayNext]_gatewayVars,
                        NEW c \in Calls, call[c].pc = "proxy", call'[c].pc \in InFlight
                 PROVE  breaker.wait = 0
      OBVIOUS
    <2>1. RequestStep(c)
      BY EachStepMoves
    <2>2. ~Blocked
      BY <2>1 DEF RequestStep, InFlight
    <2> QED
      BY <2>2, LimitsAreNaturals DEF Blocked, BreakerInv, Breaker, WaitsWhenOpen
  <1>2. BreakerInv /\ RequestTypes /\ [GatewayNext]_gatewayVars => [Quiet]_gatewayVars
    BY <1>1
  <1> QED
    BY <1>2, BreakerInvariant, RequestInvariant, PTL DEF GatewaySpec, TrippedIsQuiet

-----------------------------------------------------------------------------
(* Rate limits *)

\* Whatever was let through is still counted: a limiter's window never forgets
\* a request before the time does.
PassedIsCounted == \A k \in Keys : passed[k] \subseteq hits[k]

LimitInv == RequestTypes /\ PassedIsCounted /\ LimitHolds

LEMMA MembersAreFinite ==
  ASSUME NEW ms \in SUBSET Members
  PROVE  IsFiniteSet(ms) /\ Cardinality(ms) \in Nat
  <1>1. IsFiniteSet(Ages) /\ IsFiniteSet(1..Burst)
    BY FS_Interval, LimitsAreNaturals DEF Ages
  <1>2. IsFiniteSet(Members)
    BY <1>1, FS_Product DEF Members
  <1> QED
    BY <1>2, FS_Subset, FS_CardinalityType

\* Time takes members away and brings none.
LEMMA OlderIsSmaller ==
  ASSUME NEW ms \in SUBSET Members
  PROVE  Cardinality(Older(ms)) <= Cardinality(ms)
  <1> DEFINE kept == {e \in ms : e[1] + 1 < Window}
             aged == [m \in kept |-> <<m[1] + 1, m[2]>>]
  <1>1. aged \in Surjection(kept, Older(ms))
    BY DEF Surjection, Older
  <1>2. IsFiniteSet(ms) /\ IsFiniteSet(kept) /\ Cardinality(kept) <= Cardinality(ms)
    BY MembersAreFinite, FS_Subset
  <1>3. Older(ms) \in SUBSET Members
    BY OlderType
  <1>4. kept \in SUBSET Members
    OBVIOUS
  <1> HIDE DEF kept, aged
  <1>5. Cardinality(Older(ms)) <= Cardinality(kept)
    BY <1>1, <1>2, FS_Surjection
  <1>6. {Cardinality(Older(ms)), Cardinality(kept), Cardinality(ms)} \subseteq Nat
    BY <1>3, <1>4, MembersAreFinite
  <1> QED
    BY <1>2, <1>5, <1>6

\* A limiter that lets a request through has counted it with all that it let
\* through before and that are in the window still.
LEMMA RateLimiterKeepsLimit ==
  ASSUME LimitInv, NEW k \in Keys, RateLimiter(k, TRUE, TRUE)
  PROVE  (PassedIsCounted /\ LimitHolds)'
  <1>1. CASE UNCHANGED limiterVars
    BY <1>1 DEF LimitInv, limiterVars, PassedIsCounted, LimitHolds
  <1>2. CASE /\ RoomFor(hits[k])
             /\ hits' = [hits EXCEPT ![k] = @ \cup {Newest(@)}]
             /\ UNCHANGED passed
    BY <1>2 DEF LimitInv, RequestTypes, Windows, PassedIsCounted, LimitHolds
  <1>3. CASE /\ RoomFor(hits[k])
             /\ hits' = [hits EXCEPT ![k] = @ \cup {Newest(@)}]
             /\ Allowed(k)
             /\ passed' = [passed EXCEPT ![k] = @ \cup {Newest(hits[k])}]
    <2> DEFINE added == hits[k] \cup {Newest(hits[k])}
    <2>1. added \in SUBSET Members
      BY <1>3, NewestIsNew DEF LimitInv, RequestTypes, Windows
    <2>2. PassedIsCounted' /\ passed'[k] \in SUBSET added
      BY <1>3 DEF LimitInv, RequestTypes, Windows, PassedIsCounted
    <2>3. Cardinality(added) <= MaxRequests(k)
      BY <1>3 DEF Allowed
    <2>4. \A j \in Keys \ {k} : passed'[j] = passed[j]
      BY <1>3 DEF LimitInv, RequestTypes, Windows
    <2> HIDE DEF added
    <2>5. /\ Cardinality(passed'[k]) <= Cardinality(added)
          /\ Cardinality(passed'[k]) \in Nat /\ Cardinality(added) \in Nat
      BY <2>1, <2>2, MembersAreFinite, FS_Subset
    <2>6. MaxRequests(k) \in Nat
      BY LimitsAreNaturals DEF MaxRequests
    <2>7. Cardinality(passed'[k]) <= MaxRequests(k)
      BY <2>3, <2>5, <2>6
    <2> QED
      BY <2>2, <2>4, <2>7 DEF LimitInv, LimitHolds, MaxRequests
  <1> QED
    BY <1>1, <1>2, <1>3 DEF RateLimiter

LEMMA LimitStep == LimitInv /\ [GatewayNext]_gatewayVars => LimitInv'
  <1> SUFFICES ASSUME LimitInv, [GatewayNext]_gatewayVars
               PROVE  (PassedIsCounted /\ LimitHolds)'
    BY EachStepMoves DEF LimitInv
  <1>1. CASE UNCHANGED limiterVars
    BY <1>1 DEF LimitInv, limiterVars, PassedIsCounted, LimitHolds
  <1>2. ASSUME NEW c \in Calls, NEW route \in Routes, NEW a \in Addresses,
               NEW u \in Users \cup {Nobody}, Arrive(c, route, a, u)
        PROVE  (PassedIsCounted /\ LimitHolds)'
    <2>1. route # "private" => UNCHANGED limiterVars
      BY <1>2 DEF Arrive, EndpointRateLimit
    <2>2. route = "private" => RateLimiter(a, TRUE, TRUE) /\ a \in Keys
      BY <1>2 DEF Arrive, IpRateLimit, RateLimiter, Keys
    <2> QED
      BY <1>1, <2>1, <2>2, RateLimiterKeepsLimit
  <1>3. ASSUME NEW c \in Calls, UserRateLimit(c) PROVE (PassedIsCounted /\ LimitHolds)'
    <2>1. call[c] \in Requests /\ call[c].pc = "user"
      BY <1>3 DEF LimitInv, RequestTypes, UserRateLimit
    <2>2. call[c].user \in Keys
      BY <2>1 DEF Requests, Idle, InFlight, Keys
    <2> QED
      <3>1. RateLimiter(call[c].user, TRUE, TRUE)
        BY <1>3 DEF UserRateLimit, RateLimiter
      <3> QED
        BY <2>2, <3>1, RateLimiterKeepsLimit
  <1>4. CASE Tick
    <2>1. ASSUME NEW k \in Keys
          PROVE  /\ passed'[k] \subseteq hits'[k]
                 /\ Cardinality(passed'[k]) <= MaxRequests(k)
      <3>1. passed[k] \in SUBSET Members /\ passed[k] \subseteq hits[k]
        BY DEF LimitInv, RequestTypes, Windows, PassedIsCounted
      <3>2. passed'[k] = Older(passed[k]) /\ hits'[k] = Older(hits[k])
        BY <1>4 DEF Tick, RemoveOld
      <3>3. Older(passed[k]) \subseteq Older(hits[k])
        BY <3>1 DEF Older
      <3>4. {Cardinality(Older(passed[k])), Cardinality(passed[k]), MaxRequests(k)} \subseteq Nat
        BY <3>1, OlderType, MembersAreFinite, LimitsAreNaturals DEF MaxRequests
      <3>5. Cardinality(Older(passed[k])) <= Cardinality(passed[k])
        BY <3>1, OlderIsSmaller
      <3>6. Cardinality(passed[k]) <= MaxRequests(k)
        BY DEF LimitInv, LimitHolds
      <3>7. Cardinality(Older(passed[k])) <= MaxRequests(k)
        BY <3>4, <3>5, <3>6
      <3> QED
        BY <3>2, <3>3, <3>7
    <2> QED
      BY <2>1 DEF PassedIsCounted, LimitHolds, MaxRequests
  <1>5. ASSUME NEW c \in Calls, Execute(c) \/ Answer(c) \/ CallFails(c)
        PROVE  UNCHANGED limiterVars
    BY <1>5 DEF Execute, Answer, CallFails, limiterVars
  <1>6. CASE ServiceDown \/ ServiceUp \/ Restart \/ UNCHANGED gatewayVars
    <2>1. UNCHANGED limiterVars
      BY <1>6 DEF ServiceDown, ServiceUp, Restart, gatewayVars, limiterVars
    <2> QED
      BY <1>1, <2>1
  <1> QED
    BY <1>1, <1>2, <1>3, <1>4, <1>5, <1>6 DEF GatewayNext

\* No limiter lets more through in a window than its limit, whatever requests it
\* refuses in between: they stay in the window and can only refuse more.
THEOREM LimitsHold == GatewaySpec => []LimitHolds
  <1>1. GatewayInit => LimitInv
    <2> SUFFICES ASSUME GatewayInit PROVE LimitInv
      OBVIOUS
    <2>1. RequestTypes
      BY RequestKinds DEF GatewayInit, RequestTypes, Windows
    <2>2. PassedIsCounted
      BY DEF GatewayInit, PassedIsCounted
    <2>3. LimitHolds
      BY FS_EmptySet, LimitsAreNaturals DEF GatewayInit, LimitHolds, MaxRequests
    <2> QED
      BY <2>1, <2>2, <2>3 DEF LimitInv
  <1>2. LimitInv => LimitHolds
    BY DEF LimitInv
  <1> QED
    BY <1>1, <1>2, LimitStep, PTL DEF GatewaySpec
=============================================================================

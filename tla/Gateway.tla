------------------------------- MODULE Gateway -------------------------------
(***************************************************************************)
(* api-gateway in front of one service: the routes, the token check, the   *)
(* rate limiters, the circuit breaker and the forwarded calls.  Each       *)
(* service has a breaker of its own, so that one is enough.                *)
(*                                                                         *)
(* The gateway handles up to Cardinality(Calls) requests at once, and a    *)
(* step of a request ends where it awaits Redis or the service.  Time is   *)
(* counted in ticks: deadlines are kept as ticks left and window entries   *)
(* by age.  How long a call takes is not tied to the clock, as             *)
(* SERVICE_TIMEOUT_MS and CIRCUIT_BREAKER_TIMEOUT are set separately.      *)
(*                                                                         *)
(* The breaker is in the memory of the one gateway process, the windows    *)
(* are in Redis.                                                           *)
(***************************************************************************)
EXTENDS Naturals, FiniteSets

CONSTANTS
  Calls,       \* requests in flight
  Addresses,   \* IP addresses
  Users,       \* ids that a valid access token can carry
  Nobody,      \* no valid token
  IpMax,       \* RATE_LIMIT_MAX_REQUESTS
  UserMax,     \* the limit of a user (ten times as much in the code)
  Window,      \* RATE_LIMIT_WINDOW_MS, in ticks
  Threshold,   \* CIRCUIT_BREAKER_THRESHOLD
  OpenFor,     \* CIRCUIT_BREAKER_TIMEOUT, in ticks
  Burst        \* bound on the requests a limiter counts in one tick

ASSUME NobodyAssumption == Nobody \notin Users /\ Addresses \cap Users = {}
ASSUME LimitsAssumption == {IpMax, UserMax, Window, Threshold, OpenFor, Burst} \subseteq Nat \ {0}

VARIABLES
  breaker,   \* state, failureCount and the ticks until nextAttempt
  up,        \* the service answers
  call,      \* per request in flight, what it waits for
  hits,      \* members of a limiter's sorted set
  passed     \* history: those of them that the limiter let through

limiterVars == <<hits, passed>>
gatewayVars == <<breaker, up, call, hits, passed>>

-----------------------------------------------------------------------------
Keys == Addresses \cup Users

MaxRequests(k) == IF k \in Users THEN UserMax ELSE IpMax

\* A member of a sorted set: its age, which is the score, and what tells it from
\* the others of that age (Math.random).
Ages == 0..(Window - 1)
Members == Ages \X (1..Burst)

\* "user": at the user limiter; "proxy": let through to the proxy; "sent": with
\* the service; "stuck": with a service that has been down since.
Idle == [pc |-> "idle"]

InFlight == {"sent", "stuck"}

GatewayTypeOK ==
  /\ breaker \in [state : {"CLOSED", "OPEN", "HALF_OPEN"}, failures : 0..Threshold,
                  wait : 0..OpenFor]
  /\ up \in BOOLEAN
  /\ call \in [Calls -> {Idle} \cup [pc : {"proxy"} \cup InFlight]
                               \cup [pc : {"user"}, user : Users]]
  /\ hits \in [Keys -> SUBSET Members]
  /\ passed \in [Keys -> SUBSET Members]

Goto(c, pc) == call' = [call EXCEPT ![c] = [pc |-> pc]]

Finish(c) == call' = [call EXCEPT ![c] = Idle]

-----------------------------------------------------------------------------
(* Rate limits *)

\* What a request adds with zadd: a member that is not in the set.
Newest(ms) == <<0, CHOOSE n \in 1..Burst : <<0, n>> \notin ms>>

RoomFor(ms) == \E n \in 1..Burst : <<0, n>> \notin ms

\* The request is added, then counted with the others in the window (zcard).
Allowed(k) == Cardinality(hits[k] \cup {Newest(hits[k])}) <= MaxRequests(k)

\* rateLimiter: refused requests stay in the window.  When Redis fails, a pipeline
\* that answers with errors has no count to compare and the request passes
\* uncounted; one that throws ends the request too, because what the catch branch
\* returns has no resetTime to put in the header (a Restart may follow).
RateLimiter(k, Pass, Refuse) ==
  \/ /\ RoomFor(hits[k])
     /\ hits' = [hits EXCEPT ![k] = @ \cup {Newest(@)}]
     /\ IF Allowed(k)
        THEN Pass /\ passed' = [passed EXCEPT ![k] = @ \cup {Newest(hits[k])}]
        ELSE Refuse /\ UNCHANGED passed
  \/ (Pass \/ Refuse) /\ UNCHANGED limiterVars

-----------------------------------------------------------------------------
(* Routes *)

\* "public": a limit of the endpoint; "booking": a token and a limit of the
\* endpoint; "private": a token and both other limits; "webhook": nothing.
Routes == {"public", "booking", "private", "webhook"}

\* verifyJWT refuses a request without a valid token and reads the user from it.
VerifyJWT(route, u) == route \in {"booking", "private"} => u \in Users

\* Over its limit endpointRateLimit builds an error and calls next() without
\* it: it refuses nobody while Redis works, and its window is left out.
EndpointRateLimit(c) == Goto(c, "proxy") /\ UNCHANGED limiterVars

\* combinedRateLimit: the address first ...
IpRateLimit(c, a, u) ==
  RateLimiter(a, call' = [call EXCEPT ![c] = [pc |-> "user", user |-> u]], Finish(c))

\* ... then the user.
UserRateLimit(c) ==
  /\ call[c].pc = "user"
  /\ RateLimiter(call[c].user, Goto(c, "proxy"), Finish(c))
  /\ UNCHANGED <<breaker, up>>

Arrive(c, route, a, u) ==
  /\ call[c] = Idle
  /\ VerifyJWT(route, u)
  /\ IF route = "private" THEN IpRateLimit(c, a, u) ELSE EndpointRateLimit(c)
  /\ UNCHANGED <<breaker, up>>

-----------------------------------------------------------------------------
(* Circuit breaker *)

NewBreaker == [state |-> "CLOSED", failures |-> 0, wait |-> 0]

\* Now is before nextAttempt.
Blocked == breaker.state = "OPEN" /\ breaker.wait > 0

\* Mutant: the trial does not take the breaker out of OPEN.
StayOpen == breaker

\* Past nextAttempt the next call is let through, and every other one too
\* until the breaker opens again.
TryAgain == IF breaker.state = "OPEN" THEN [breaker EXCEPT !.state = "HALF_OPEN"] ELSE breaker

Execute(c) ==
  /\ call[c].pc = "proxy"
  /\ IF Blocked
     THEN Finish(c) /\ UNCHANGED breaker
     ELSE Goto(c, IF up THEN "sent" ELSE "stuck") /\ breaker' = TryAgain
  /\ UNCHANGED <<up, hits, passed>>

\* Mutant: any success closes the breaker.
CloseOnAnySuccess == [breaker EXCEPT !.failures = 0, !.state = "CLOSED"]

\* Mutant: the count is kept when the breaker closes.
CloseAndKeepCount ==
  IF breaker.state = "HALF_OPEN" THEN [breaker EXCEPT !.state = "CLOSED"]
                                 ELSE [breaker EXCEPT !.failures = 0]

\* A success that comes while the breaker is OPEN leaves it OPEN.
OnSuccess ==
  [breaker EXCEPT !.failures = 0, !.state = IF @ = "HALF_OPEN" THEN "CLOSED" ELSE @]

\* Mutant: failures are counted and never compared.
CountOnly == [breaker EXCEPT !.failures = @ + 1]

\* Failures are compared with Threshold only, and counted up to it.
OnFailure ==
  IF breaker.failures + 1 >= Threshold
  THEN [state |-> "OPEN", failures |-> Threshold, wait |-> OpenFor]
  ELSE [breaker EXCEPT !.failures = @ + 1]

\* Any status the service answers with counts as a success (validateStatus).
Answer(c) ==
  /\ call[c].pc \in InFlight
  /\ Finish(c)
  /\ breaker' = OnSuccess
  /\ UNCHANGED <<up, hits, passed>>

\* Refused, reset or timed out.  execute has made it an AppError, so that the
\* branches of forwardRequest for other errors are never taken.
CallFails(c) ==
  /\ call[c].pc = "stuck"
  /\ Finish(c)
  /\ breaker' = OnFailure
  /\ UNCHANGED <<up, hits, passed>>

-----------------------------------------------------------------------------
(* The service, the clock and the process *)

ServiceDown ==
  /\ up
  /\ up' = FALSE
  /\ call' = [c \in Calls |-> IF call[c].pc = "sent" THEN [pc |-> "stuck"] ELSE call[c]]
  /\ UNCHANGED <<breaker, hits, passed>>

ServiceUp ==
  /\ ~up
  /\ up' = TRUE
  /\ UNCHANGED <<breaker, call, hits, passed>>

\* A tick later, without the members that are as old as the window.
Older(ms) == {<<m[1] + 1, m[2]>> : m \in {e \in ms : e[1] + 1 < Window}}

\* Mutant: the window is one tick short.
RemoveEarly(ms) == {m \in Older(ms) : m[1] + 1 < Window}

\* zremrangebyscore: a member as old as the window is removed.
RemoveOld(ms) == Older(ms)

Tick ==
  /\ hits' = [k \in Keys |-> RemoveOld(hits[k])]
  /\ passed' = [k \in Keys |-> Older(passed[k])]
  /\ breaker' = [breaker EXCEPT !.wait = IF @ = 0 THEN 0 ELSE @ - 1]
  /\ UNCHANGED <<up, call>>

\* The process restarts: the breaker is new and the requests are gone.
Restart ==
  /\ breaker' = NewBreaker
  /\ call' = [c \in Calls |-> Idle]
  /\ UNCHANGED <<up, hits, passed>>

-----------------------------------------------------------------------------
GatewayInit ==
  /\ breaker = NewBreaker
  /\ up \in BOOLEAN
  /\ call = [c \in Calls |-> Idle]
  /\ hits = [k \in Keys |-> {}]
  /\ passed = [k \in Keys |-> {}]

Proceed(c) == UserRateLimit(c) \/ Execute(c) \/ Answer(c) \/ CallFails(c)

GatewayNext ==
  \/ \E c \in Calls, route \in Routes, a \in Addresses, u \in Users \cup {Nobody} :
       Arrive(c, route, a, u)
  \/ \E c \in Calls : UserRateLimit(c)
  \/ \E c \in Calls : Execute(c)
  \/ \E c \in Calls : Answer(c)
  \/ \E c \in Calls : CallFails(c)
  \/ ServiceDown
  \/ ServiceUp
  \/ Tick
  \/ Restart

\* Requests that have arrived go on and time passes.  Nobody need send a
\* request, and the service need not come back.
GatewaySpec ==
  /\ GatewayInit /\ [][GatewayNext]_gatewayVars
  /\ \A c \in Calls : WF_gatewayVars(Proceed(c))
  /\ WF_gatewayVars(Tick)

-----------------------------------------------------------------------------
(* Properties *)

\* Once the breaker has tripped no call is sent until nextAttempt, whatever
\* the calls that were in flight then report, and in whatever order.
TrippedIsQuiet ==
  [][\A c \in Calls :
       call[c].pc = "proxy" /\ call'[c].pc \in InFlight => breaker.wait = 0]_gatewayVars

\* A breaker that is closed has seen fewer than Threshold failures since the
\* last success, also when failures and successes overtake one another.
ClosedIsHealthy == breaker.state = "CLOSED" => breaker.failures < Threshold

\* In no window does a limiter let more requests of an address or a user
\* through than its limit, also when refused requests come between them and
\* when the gateway restarts.  (What Redis failed to count is not included.)
LimitHolds == \A k \in Keys : Cardinality(passed[k]) <= MaxRequests(k)

\* When the service stays up and requests go on reaching the proxy, the
\* breaker closes and stays closed.
BreakerRecovers ==
  <>[]up /\ []<>(\E c \in Calls : call[c].pc = "proxy") => <>[](breaker.state = "CLOSED")
=============================================================================

------------------------------- MODULE Accounts -------------------------------
(***************************************************************************)
(* user-service: sign-up with a code sent by e-mail (otp.js and            *)
(* auth.service.js), login and the rotation of refresh tokens, with the    *)
(* e-mail consumer of notification-service.                                *)
(*                                                                         *)
(* Up to Cardinality(Calls) requests run at once.  Every Redis command and *)
(* database statement of a handler is awaited, so each is a step of its    *)
(* own, and what one read may have changed when the next writes.  An INCR  *)
(* and the EXPIRE behind it are one step.                                  *)
(*                                                                         *)
(* A code is its session id; each id is drawn once.  Keys in Redis end by  *)
(* themselves: a key may end as soon as the keys that were to end earlier  *)
(* have (OTP_TTL for codes and attempts, an hour for the rate).            *)
(***************************************************************************)
EXTENDS Naturals, FiniteSets

LOCAL INSTANCE FiniteSetsExt

CONSTANTS
  Emails,                    \* addresses
  CodeIds,                   \* otpSessionIds
  Calls,                     \* requests in flight
  Nothing,                   \* no address, no id
  RATE_MAX,                  \* OTP_RATE_MAX_PER_HOUR
  OTP_MAX_VERIFY_ATTEMPTS,
  MaxTokens,                 \* bound on the refresh tokens a user is given
  MaxUncounted               \* bound on the guesses at stored codes whose INCR failed

ASSUME CallsAssumption == IsFiniteSet(Calls)
ASSUME NothingAssumption == Nothing \notin Emails \cup CodeIds \cup Nat
ASSUME AccountLimitsAssumption ==
  /\ {RATE_MAX, OTP_MAX_VERIFY_ATTEMPTS, MaxTokens} \subseteq Nat \ {0}
  /\ MaxUncounted \in Nat

VARIABLES
  users,      \* rows of the users table, by address
  code,       \* otp:session:<id>, and where its e-mail is
  attempts,   \* otp:attempts:<email>
  rate,       \* otp:rate:<email>
  token,      \* refresh:<id>: the token that is accepted, 0 for none
  issued,     \* refresh tokens given to the user, numbered from 1
  call,       \* the requests in flight
  verified,   \* history: the addresses a right code was taken for
  failed,     \* history: the addresses whose request failed after that
  guess       \* history: the wrong guesses of a stored code, and those whose INCR failed

otpVars == <<users, code, attempts, rate, verified, failed, guess>>
sessionVars == <<token, issued>>
accountVars == <<otpVars, sessionVars, call>>

-----------------------------------------------------------------------------
Tokens == 1..MaxTokens

\* A code: where it and its e-mail are, its address, and the wrong guesses counted
\* in the attempts of the address.
Code == [state : {"unused", "stored", "counted", "queued", "delivered", "dropped", "gone"},
         email : Emails \cup {Nothing}, counted : Nat]

NoCode(state) == [state |-> state, email |-> Nothing, counted |-> 0]

IsStored(s) == code[s].state \notin {"unused", "gone"}

CodesOf(e) == {s \in CodeIds : IsStored(s) /\ code[s].email = e}

NoGuesses == [wrong |-> 0, uncounted |-> 0]

Forget(s) == guess' = [guess EXCEPT ![s] = NoGuesses]

Note(s, g) == guess' = IF IsStored(s) THEN [guess EXCEPT ![s] = g] ELSE guess

Idle == [pc |-> "idle", email |-> Nothing, id |-> Nothing]

AccountsTypeOK ==
  /\ users \in [Emails -> Nat]
  /\ code \in [CodeIds -> Code]
  /\ attempts \in [Emails -> Nat]
  /\ rate \in [Emails -> Nat]
  /\ token \in [Emails -> {0} \cup Tokens]
  /\ issued \in [Emails -> 0..MaxTokens]
  /\ call \in [Calls -> [pc : {"idle", "absent", "store", "count", "send", "right", "wrong",
                               "match", "miss", "reset", "create", "revoke", "renew"},
                         email : Emails \cup {Nothing},
                         id : CodeIds \cup Tokens \cup {Nothing}]]
  /\ failed \subseteq verified /\ verified \subseteq Emails
  /\ guess \in [CodeIds -> [wrong : Nat, uncounted : Nat]]

At(c, pc) == call[c].pc = pc

Start(c, pc, e, id) == call' = [call EXCEPT ![c] = [pc |-> pc, email |-> e, id |-> id]]

Goto(c, pc) == call' = [call EXCEPT ![c].pc = pc]

Finish(c) == call' = [call EXCEPT ![c] = Idle]

-----------------------------------------------------------------------------
(* sendOtp *)

\* An address that has an account is refused.
FindByEmail(c, e) ==
  /\ call[c] = Idle
  /\ users[e] = 0
  /\ Start(c, "absent", e, Nothing)
  /\ UNCHANGED <<otpVars, sessionVars>>

ReadRate(c) ==
  /\ At(c, "absent")
  /\ IF rate[call[c].email] >= RATE_MAX THEN Finish(c) ELSE Goto(c, "store")
  /\ UNCHANGED <<otpVars, sessionVars>>

StoreOtp(c) ==
  /\ At(c, "store")
  /\ \E s \in CodeIds :
       /\ code[s].state = "unused"
       /\ code' = [code EXCEPT ![s] = [state |-> "stored", email |-> call[c].email, counted |-> 0]]
       /\ Start(c, "count", call[c].email, s)
  /\ UNCHANGED <<users, attempts, rate, verified, failed, guess, sessionVars>>

\* Mutant: the code is not counted.
CountNothing(c) ==
  /\ At(c, "count")
  /\ Goto(c, "send")
  /\ UNCHANGED <<users, code, attempts, rate, verified, failed, guess, sessionVars>>

CountOtp(c) ==
  /\ At(c, "count")
  /\ rate' = [rate EXCEPT ![call[c].email] = @ + 1]
  /\ code' = IF IsStored(call[c].id) THEN [code EXCEPT ![call[c].id].state = "counted"] ELSE code
  /\ Goto(c, "send")
  /\ UNCHANGED <<users, attempts, verified, failed, guess, sessionVars>>

\* The message for the e-mail; when Kafka fails the caller gets an error and the
\* code stays stored.
SendOtpEmail(c) ==
  /\ At(c, "send")
  /\ \/ /\ IsStored(call[c].id)
        /\ code' = [code EXCEPT ![call[c].id].state = "queued"]
     \/ UNCHANGED code
  /\ Finish(c)
  /\ UNCHANGED <<users, attempts, rate, verified, failed, guess, sessionVars>>

\* notification-service: delivered within its three attempts, or dropped.
HandleOtpEmail(s) ==
  /\ code[s].state = "queued"
  /\ \E state \in {"delivered", "dropped"} : code' = [code EXCEPT ![s].state = state]
  /\ UNCHANGED <<users, attempts, rate, verified, failed, guess, sessionVars, call>>

-----------------------------------------------------------------------------
(* verifyOtp *)

\* Whoever has had the e-mail can give the right code.
GetSession(c, s) ==
  /\ call[c] = Idle
  /\ IsStored(s)
  /\ \/ code[s].state = "delivered" /\ Start(c, "right", code[s].email, s)
     \/ Start(c, "wrong", code[s].email, s)
  /\ UNCHANGED <<otpVars, sessionVars>>

\* The guess is compared with the code that was read.
Compare(c) ==
  \/ At(c, "right") /\ Goto(c, "match") /\ UNCHANGED guess
  \/ /\ At(c, "wrong")
     /\ Goto(c, "miss")
     /\ LET g == guess[call[c].id] IN Note(call[c].id, [g EXCEPT !.wrong = @ + 1])

\* Mutant: the attempts are not looked at.
AnyAttempts(c) ==
  /\ Compare(c)
  /\ UNCHANGED <<users, code, attempts, rate, verified, failed, sessionVars>>

\* Refused when more than the maximum have been counted.
CheckAttempts(c) ==
  /\ call[c].pc \in {"right", "wrong"}
  /\ IF attempts[call[c].email] > OTP_MAX_VERIFY_ATTEMPTS
     THEN Finish(c) /\ UNCHANGED guess
     ELSE Compare(c)
  /\ UNCHANGED <<users, code, attempts, rate, verified, failed, sessionVars>>

\* The code and the attempts of its address are deleted.  Another request that
\* has read the same code goes on with it.
TakeCode(c) ==
  /\ At(c, "match")
  /\ code' = [code EXCEPT ![call[c].id] = NoCode("gone")]
  /\ attempts' = [attempts EXCEPT ![call[c].email] = 0]
  /\ verified' = verified \cup {call[c].email}
  /\ Forget(call[c].id)
  /\ Goto(c, "reset")
  /\ UNCHANGED <<users, rate, failed, sessionVars>>

ResetRate(c) ==
  /\ At(c, "reset")
  /\ rate' = [rate EXCEPT ![call[c].email] = 0]
  /\ Goto(c, "create")
  /\ UNCHANGED <<users, code, attempts, verified, failed, guess, sessionVars>>

\* Mutant: the schema does not make the address unique.
InsertUser(c) ==
  /\ At(c, "create")
  /\ users' = [users EXCEPT ![call[c].email] = @ + 1]
  /\ Finish(c)
  /\ UNCHANGED <<code, attempts, rate, verified, failed, guess, sessionVars>>

\* The address is unique in the table: a second INSERT fails.  The welcome
\* e-mail, and whether its message could be sent, changes the answer only.
CreateUser(c) ==
  /\ At(c, "create")
  /\ users' = [users EXCEPT ![call[c].email] = 1]
  /\ Finish(c)
  /\ UNCHANGED <<code, attempts, rate, verified, failed, guess, sessionVars>>

CountMiss(c) ==
  /\ At(c, "miss")
  /\ attempts' = [attempts EXCEPT ![call[c].email] = @ + 1]
  /\ code' = IF IsStored(call[c].id) THEN [code EXCEPT ![call[c].id].counted = @ + 1] ELSE code
  /\ Finish(c)
  /\ UNCHANGED <<users, rate, verified, failed, guess, sessionVars>>

\* The INCR fails, or the process ends before it: nobody counts the guess.
LoseMiss(c) ==
  /\ At(c, "miss")
  /\ MapThenSumSet(LAMBDA s : guess[s].uncounted, CodeIds) < MaxUncounted
  /\ LET g == guess[call[c].id] IN Note(call[c].id, [g EXCEPT !.uncounted = @ + 1])
  /\ Finish(c)
  /\ UNCHANGED <<users, code, attempts, rate, verified, failed, sessionVars>>

-----------------------------------------------------------------------------
(* login and rotateRefreshToken *)

\* Mutant: the id is decoded from the access token, which has none.
LoginWithAccessToken(e) ==
  /\ users[e] > 0
  /\ issued[e] < MaxTokens
  /\ issued' = [issued EXCEPT ![e] = @ + 1]
  /\ token' = [token EXCEPT ![e] = Nothing]
  /\ UNCHANGED <<otpVars, call>>

\* One key per user: the token of an earlier login is accepted no more.
Login(e) ==
  /\ users[e] > 0
  /\ issued[e] < MaxTokens
  /\ issued' = [issued EXCEPT ![e] = @ + 1]
  /\ token' = [token EXCEPT ![e] = issued[e] + 1]
  /\ UNCHANGED <<otpVars, call>>

\* A user without a session is refused; a token other than the accepted one
\* ends the session.
ReadSession(c, e, t) ==
  /\ call[c] = Idle
  /\ t <= issued[e]
  /\ token[e] # 0
  /\ Start(c, IF token[e] = t THEN "renew" ELSE "revoke", e, t)
  /\ UNCHANGED <<otpVars, sessionVars>>

Revoke(c) ==
  /\ At(c, "revoke")
  /\ token' = [token EXCEPT ![call[c].email] = 0]
  /\ Finish(c)
  /\ UNCHANGED <<otpVars, issued>>

\* A new token is given out; the id that is stored is decoded from the token
\* that was presented.
Renew(c) ==
  LET e == call[c].email IN
  /\ At(c, "renew")
  /\ issued[e] < MaxTokens
  /\ issued' = [issued EXCEPT ![e] = @ + 1]
  /\ token' = [token EXCEPT ![e] = call[c].id]
  /\ Finish(c)
  /\ UNCHANGED otpVars

-----------------------------------------------------------------------------
(* A Redis command or a statement fails, or the process ends: the request is
   answered with an error, or not at all, and what it has done stays.  LoseMiss
   is the case of a wrong guess that has been compared. *)
RequestFails(c) ==
  /\ call[c] # Idle
  /\ ~At(c, "miss")
  /\ failed' = IF call[c].pc \in {"reset", "create"} THEN failed \cup {call[c].email} ELSE failed
  /\ Finish(c)
  /\ UNCHANGED <<users, code, attempts, rate, verified, guess, sessionVars>>

-----------------------------------------------------------------------------
(* Keys that end *)

ExpireCode(s) ==
  /\ IsStored(s)
  /\ code' = [code EXCEPT ![s] = NoCode("gone")]
  /\ Forget(s)
  /\ UNCHANGED <<users, attempts, rate, verified, failed, sessionVars, call>>

\* A guess that is counted makes the key last OTP_TTL from then, longer than the code.
ExpireAttempts(e) ==
  /\ attempts[e] > 0
  /\ \A s \in CodesOf(e) : code[s].counted = 0
  /\ attempts' = [attempts EXCEPT ![e] = 0]
  /\ UNCHANGED <<users, code, rate, verified, failed, guess, sessionVars, call>>

\* An hour, counted from the last code that was counted: those are gone by then.
ExpireRate(e) ==
  /\ rate[e] > 0
  /\ \A s \in CodesOf(e) : code[s].state = "stored"
  /\ rate' = [rate EXCEPT ![e] = 0]
  /\ UNCHANGED <<users, code, attempts, verified, failed, guess, sessionVars, call>>

ExpireSession(e) ==
  /\ token[e] # 0
  /\ token' = [token EXCEPT ![e] = 0]
  /\ UNCHANGED <<otpVars, issued, call>>

-----------------------------------------------------------------------------
AccountsInit ==
  /\ users = [e \in Emails |-> 0]
  /\ code = [s \in CodeIds |-> NoCode("unused")]
  /\ attempts = [e \in Emails |-> 0]
  /\ rate = [e \in Emails |-> 0]
  /\ token = [e \in Emails |-> 0]
  /\ issued = [e \in Emails |-> 0]
  /\ call = [c \in Calls |-> Idle]
  /\ verified = {}
  /\ failed = {}
  /\ guess = [s \in CodeIds |-> NoGuesses]

AccountsNext ==
  \/ \E c \in Calls, e \in Emails : FindByEmail(c, e)
  \/ \E c \in Calls : ReadRate(c)
  \/ \E c \in Calls : StoreOtp(c)
  \/ \E c \in Calls : CountOtp(c)
  \/ \E c \in Calls : SendOtpEmail(c)
  \/ \E s \in CodeIds : HandleOtpEmail(s)
  \/ \E c \in Calls, s \in CodeIds : GetSession(c, s)
  \/ \E c \in Calls : CheckAttempts(c)
  \/ \E c \in Calls : TakeCode(c)
  \/ \E c \in Calls : ResetRate(c)
  \/ \E c \in Calls : CreateUser(c)
  \/ \E c \in Calls : CountMiss(c)
  \/ \E c \in Calls : LoseMiss(c)
  \/ \E e \in Emails : Login(e)
  \/ \E c \in Calls, e \in Emails, t \in Tokens : ReadSession(c, e, t)
  \/ \E c \in Calls : Revoke(c)
  \/ \E c \in Calls : Renew(c)
  \/ \E c \in Calls : RequestFails(c)
  \/ \E s \in CodeIds : ExpireCode(s)
  \/ \E e \in Emails : ExpireAttempts(e)
  \/ \E e \in Emails : ExpireRate(e)
  \/ \E e \in Emails : ExpireSession(e)

AccountsSpec == AccountsInit /\ [][AccountsNext]_accountVars

-----------------------------------------------------------------------------
(* Properties *)

\* An address has at most one account, and has one exactly when a right code
\* was taken for it by a request that did not fail later: also when two requests
\* use the same code, when an address was sent several codes, or when it got its
\* account after sendOtp had looked.
OneAccountPerVerifiedAddress ==
  \A e \in Emails :
    /\ users[e] <= 1
    /\ users[e] = 1 => e \in verified
    /\ e \in verified \ failed /\ users[e] = 0 =>
         \E c \in Calls : call[c].pc \in {"reset", "create"} /\ call[c].email = e

\* Until one of them was right, the codes an address was sent and that still work
\* are at most RATE_MAX and the requests that can pass the check together.
CodesBounded ==
  \A e \in Emails \ verified :
    Cardinality({s \in CodesOf(e) : code[s].state \notin {"stored", "counted"}})
      <= RATE_MAX + Cardinality(Calls) - 1

\* Wrong guesses of a code, at any pace and also with other codes of the address
\* in between, are at most OTP_MAX_VERIFY_ATTEMPTS, the requests that can pass
\* the check together, and the guesses whose INCR failed, as long as no code of
\* the address was right.
GuessesBounded ==
  \A s \in CodeIds :
    IsStored(s) /\ code[s].email \notin verified
      => guess[s].wrong <= OTP_MAX_VERIFY_ATTEMPTS + Cardinality(Calls) + guess[s].uncounted

\* A user has OTP_MAX_VERIFY_ATTEMPTS attempts at a code, as otp.js says.  The
\* code compares with >, and reads and counts in separate commands: not checked by
\* a run, as the code does not have it (README, Deviations, 23).
OnlyMaxAttempts ==
  \A s \in CodeIds :
    IsStored(s) /\ guess[s].uncounted = 0 => guess[s].wrong <= OTP_MAX_VERIFY_ATTEMPTS

\* A session that is there accepts the newest token its user was given.
NewestTokenAccepted == \A e \in Emails : token[e] # 0 => token[e] = issued[e]
=============================================================================

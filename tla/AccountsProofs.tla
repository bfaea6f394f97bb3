----------------------------- MODULE AccountsProofs -----------------------------
(***************************************************************************)
(* Theorems about Accounts, for every number of requests in flight, every  *)
(* set of addresses and codes, and any limits.                             *)
(***************************************************************************)
EXTENDS Accounts, FiniteSetTheorems, TLAPS

-----------------------------------------------------------------------------
(* What every state satisfies *)

\* The stages in which a request has a code.
WithCode == {"count", "send", "right", "wrong", "match", "miss"}

\* A request knows its address and its code, which keeps its address while it
\* is stored and is counted by the request that stored it.
Stage(c) ==
  /\ call[c].pc # "idle" => call[c].email \in Emails
  /\ call[c].pc \in WithCode =>
       /\ call[c].id \in CodeIds
       /\ code[call[c].id].state # "unused"
       /\ IsStored(call[c].id) => code[call[c].id].email = call[c].email
  /\ call[c].pc = "count" => code[call[c].id].state \in {"stored", "gone"}
  /\ call[c].pc = "send" => code[call[c].id].state \in {"counted", "gone"}
  /\ call[c].pc \in {"reset", "create"} => call[c].email \in verified
  /\ call[c].pc \in {"revoke", "renew"} => call[c].id \in Tokens

\* Two requests never store one code.
OwnCodes ==
  \A c, d \in Calls :
    c # d /\ {call[c].pc, call[d].pc} \subseteq {"count", "send"} => call[c].id # call[d].id

StoredForAddress == \A s \in CodeIds : IsStored(s) => code[s].email \in Emails

StageInv ==
  /\ AccountsTypeOK
  /\ \A c \in Calls : Stage(c)
  /\ OwnCodes
  /\ StoredForAddress

CallsAt(pcs, e) == {c \in Calls : call[c].pc \in pcs /\ call[c].email = e}

\* Requests that have passed the check of the attempts but are not counted yet.
AttemptsBound ==
  \A e \in Emails :
    attempts[e] + Cardinality(CallsAt({"miss"}, e))
      <= OTP_MAX_VERIFY_ATTEMPTS + Cardinality(Calls)

GuessesCounted ==
  \A s \in CodeIds :
    IsStored(s) /\ code[s].email \notin verified => code[s].counted <= attempts[code[s].email]

\* Requests that have compared a wrong guess of s, which is not counted yet.
Pending(s) == {c \in Calls : At(c, "miss") /\ call[c].id = s}

\* A wrong guess is counted, is lost, or is about to be one of the two.
GuessesSplit ==
  \A s \in CodeIds :
    /\ ~ IsStored(s) => guess[s].wrong = 0
    /\ IsStored(s) =>
         guess[s].wrong <= code[s].counted + guess[s].uncounted + Cardinality(Pending(s))

GuessInv == AttemptsBound /\ GuessesCounted

CountedCodes(e) == {s \in CodesOf(e) : code[s].state # "stored"}

\* Requests that have passed the check of the rate but are not counted yet.
RateBound ==
  \A e \in Emails :
    rate[e] + Cardinality(CallsAt({"store", "count"}, e)) < RATE_MAX + Cardinality(Calls)

CodesCounted ==
  \A e \in Emails \ verified :
    IsFiniteSet(CountedCodes(e)) /\ Cardinality(CountedCodes(e)) <= rate[e]

RateInv == RateBound /\ CodesCounted

AccountsInv == StageInv /\ GuessInv /\ RateInv
-----------------------------------------------------------------------------
(* Requests and codes *)

CallState == [pc : {"idle", "absent", "store", "count", "send", "right", "wrong",
                    "match", "miss", "reset", "create", "revoke", "renew"},
              email : Emails \cup {Nothing},
              id : CodeIds \cup Tokens \cup {Nothing}]

\* What a step may do to a code some request knows: it is never unused again, and
\* is stored only if it was, for the same address.
CodeMoves(s) ==
  code[s].state # "unused" =>
    /\ code'[s].state # "unused"
    /\ IsStored(s)' => IsStored(s) /\ code'[s].email = code[s].email

\* What a step may do to a code another request is storing or counting.
CodeWaits(s) == code'[s].state \in {code[s].state, "gone"}

LEMMA CallTypes ==
  ASSUME AccountsTypeOK, NEW c \in Calls
  PROVE  /\ call[c] \in CallState
         /\ call[c].pc # "idle" => call[c] # Idle
         /\ Idle \in CallState
BY DEF AccountsTypeOK, CallState, Idle

LEMMA StartCall ==
  ASSUME AccountsTypeOK, NEW c \in Calls, NEW e \in Emails,
         NEW id \in CodeIds \cup Tokens \cup {Nothing},
         NEW pc \in {"idle", "absent", "store", "count", "send", "right", "wrong",
                     "match", "miss", "reset", "create", "revoke", "renew"},
         Start(c, pc, e, id)
  PROVE  /\ call' \in [Calls -> CallState]
         /\ call'[c].pc = pc /\ call'[c].email = e /\ call'[c].id = id
         /\ \A d \in Calls \ {c} : call'[d] = call[d]
<1>1. call \in [Calls -> CallState]
  BY DEF AccountsTypeOK, CallState
<1>2. [pc |-> pc, email |-> e, id |-> id] \in CallState
  BY DEF CallState
<1>3. QED
  BY <1>1, <1>2 DEF Start

LEMMA GotoCall ==
  ASSUME AccountsTypeOK, NEW c \in Calls,
         NEW pc \in {"idle", "absent", "store", "count", "send", "right", "wrong",
                     "match", "miss", "reset", "create", "revoke", "renew"},
         Goto(c, pc)
  PROVE  /\ call' \in [Calls -> CallState]
         /\ call'[c].pc = pc /\ call'[c].email = call[c].email /\ call'[c].id = call[c].id
         /\ \A d \in Calls \ {c} : call'[d] = call[d]
<1>1. call \in [Calls -> CallState] /\ call[c] \in CallState
  BY CallTypes DEF AccountsTypeOK, CallState
<1>2. call'[c] = [call[c] EXCEPT !.pc = pc] /\ \A d \in Calls \ {c} : call'[d] = call[d]
  BY <1>1 DEF Goto
<1>3. call'[c] \in CallState /\ call'[c].pc = pc
      /\ call'[c].email = call[c].email /\ call'[c].id = call[c].id
  BY <1>1, <1>2 DEF CallState
<1>4. call' \in [Calls -> CallState]
  BY <1>1, <1>3 DEF Goto, CallState
<1>5. QED
  BY <1>2, <1>3, <1>4

LEMMA FinishCall ==
  ASSUME AccountsTypeOK, NEW c \in Calls, Finish(c)
  PROVE  /\ call' \in [Calls -> CallState]
         /\ call'[c].pc = "idle" /\ call'[c].email = Nothing
         /\ \A d \in Calls \ {c} : call'[d] = call[d]
<1>1. call \in [Calls -> CallState] /\ Idle \in CallState
  BY CallTypes DEF AccountsTypeOK, CallState
<1>2. Idle.pc = "idle" /\ Idle.email = Nothing
  BY DEF Idle
<1>3. QED
  BY <1>1, <1>2 DEF Finish

\* The history of wrong guesses keeps its type.
LEMMA GuessTypes ==
  ASSUME AccountsTypeOK, NEW s \in CodeIds
  PROVE  /\ guess[s] \in [wrong : Nat, uncounted : Nat]
         /\ [guess[s] EXCEPT !.wrong = @ + 1] \in [wrong : Nat, uncounted : Nat]
         /\ [guess[s] EXCEPT !.uncounted = @ + 1] \in [wrong : Nat, uncounted : Nat]
         /\ Forget(s) => guess' \in [CodeIds -> [wrong : Nat, uncounted : Nat]]
         /\ \A g \in [wrong : Nat, uncounted : Nat] :
              Note(s, g) => guess' \in [CodeIds -> [wrong : Nat, uncounted : Nat]]
<1>1. guess \in [CodeIds -> [wrong : Nat, uncounted : Nat]]
  BY DEF AccountsTypeOK
<1>2. NoGuesses \in [wrong : Nat, uncounted : Nat]
  BY DEF NoGuesses
<1>3. QED
  BY <1>1, <1>2 DEF Forget, Note

LEMMA CodeStays ==
  ASSUME UNCHANGED code, NEW s \in CodeIds
  PROVE  CodeMoves(s) /\ CodeWaits(s)
BY DEF CodeMoves, CodeWaits, IsStored

LEMMA StoredStays ==
  ASSUME UNCHANGED code, StoredForAddress
  PROVE  StoredForAddress'
BY DEF StoredForAddress, IsStored

\* A request the step leaves alone.
LEMMA OthersKeep ==
  ASSUME StageInv, NEW d \in Calls, call'[d] = call[d],
         verified \subseteq verified',
         \A s \in CodeIds : CodeMoves(s),
         call[d].pc \in {"count", "send"} => CodeWaits(call[d].id)
  PROVE  Stage(d)'
<1>1. Stage(d)
  BY DEF StageInv
<1>2. CASE call[d].pc \in WithCode
  <2>1. call[d].id \in CodeIds /\ CodeMoves(call[d].id)
    BY <1>1, <1>2 DEF Stage
  <2>2. QED
    BY <1>1, <1>2, <2>1 DEF Stage, WithCode, CodeMoves, CodeWaits, IsStored
<1>3. CASE call[d].pc \notin WithCode
  BY <1>1, <1>3 DEF Stage, WithCode
<1>4. QED
  BY <1>2, <1>3

\* A step of the request c.
LEMMA StageStep ==
  ASSUME StageInv, NEW c \in Calls,
         AccountsTypeOK', StoredForAddress', Stage(c)',
         \A d \in Calls \ {c} : call'[d] = call[d],
         verified \subseteq verified',
         \A s \in CodeIds : CodeMoves(s),
         \A d \in Calls \ {c} : call[d].pc \in {"count", "send"} => CodeWaits(call[d].id),
         call'[c].pc \in {"count", "send"} =>
           \/ call[c].pc \in {"count", "send"} /\ call'[c].id = call[c].id
           \/ code[call'[c].id].state = "unused"
  PROVE  StageInv'
<1>1. ASSUME NEW d \in Calls PROVE Stage(d)'
  BY <1>1, OthersKeep
<1>2. ASSUME NEW d \in Calls, d # c, call'[c].pc \in {"count", "send"},
             call'[d].pc \in {"count", "send"}
      PROVE  call'[c].id # call'[d].id
  <2>1. Stage(d) /\ OwnCodes
    BY DEF StageInv
  <2>2. code[call[d].id].state # "unused" /\ call'[d] = call[d]
    BY <1>2, <2>1 DEF Stage, WithCode
  <2>3. QED
    BY <1>2, <2>1, <2>2 DEF OwnCodes
<1>3. OwnCodes'
  <2>1. OwnCodes
    BY DEF StageInv
  <2>2. SUFFICES ASSUME NEW a \in Calls, NEW b \in Calls, a # b,
                        call'[a].pc \in {"count", "send"}, call'[b].pc \in {"count", "send"}
                 PROVE  call'[a].id # call'[b].id
    BY DEF OwnCodes
  <2>3. CASE a = c
    BY <1>2, <2>2, <2>3
  <2>4. CASE b = c
    BY <1>2, <2>2, <2>4
  <2>5. CASE a # c /\ b # c
    BY <2>1, <2>2, <2>5 DEF OwnCodes
  <2>6. QED
    BY <2>3, <2>4, <2>5
<1>4. QED
  BY <1>1, <1>3 DEF StageInv

\* A step of no request.
LEMMA StageRest ==
  ASSUME StageInv, AccountsTypeOK', StoredForAddress', UNCHANGED call,
         verified \subseteq verified',
         \A s \in CodeIds : CodeMoves(s),
         \A d \in Calls : call[d].pc \in {"count", "send"} => CodeWaits(call[d].id)
  PROVE  StageInv'
<1>1. ASSUME NEW d \in Calls PROVE Stage(d)'
  BY <1>1, OthersKeep
<1>2. OwnCodes'
  BY DEF StageInv, OwnCodes
<1>3. QED
  BY <1>1, <1>2 DEF StageInv

-----------------------------------------------------------------------------
(* StageInv *)

LEMMA StageInit ==
  ASSUME AccountsInit
  PROVE  StageInv
<1>1. AccountsTypeOK
  BY AccountLimitsAssumption DEF AccountsInit, AccountsTypeOK, NoCode, Code, NoGuesses, Idle
<1>2. \A c \in Calls : call[c].pc = "idle"
  BY DEF AccountsInit, Idle
<1>3. \A s \in CodeIds : ~ IsStored(s)
  BY DEF AccountsInit, IsStored, NoCode
<1>4. QED
  BY <1>1, <1>2, <1>3 DEF StageInv, Stage, WithCode, OwnCodes, StoredForAddress

\* The steps of a request that write no code.
LEMMA StageOfReads ==
  ASSUME StageInv, NEW c \in Calls, UNCHANGED code, verified \subseteq verified',
         call' \in [Calls -> CallState],
         \A d \in Calls \ {c} : call'[d] = call[d],
         users' \in [Emails -> Nat], attempts' \in [Emails -> Nat], rate' \in [Emails -> Nat],
         token' \in [Emails -> {0} \cup Tokens], issued' \in [Emails -> 0..MaxTokens],
         failed' \subseteq verified', verified' \subseteq Emails,
         guess' \in [CodeIds -> [wrong : Nat, uncounted : Nat]],
         Stage(c)',
         call'[c].pc \in {"count", "send"} =>
           call[c].pc \in {"count", "send"} /\ call'[c].id = call[c].id
  PROVE  StageInv'
<1>1. AccountsTypeOK'
  BY DEF StageInv, AccountsTypeOK, CallState
<1>2. StoredForAddress'
  BY StoredStays DEF StageInv
<1>3. QED
  BY <1>1, <1>2, StageStep, CodeStays DEF Stage, StageInv, WithCode

LEMMA IdleStage ==
  ASSUME NEW c \in Calls, call'[c].pc = "idle"
  PROVE  Stage(c)'
BY DEF Stage, WithCode

LEMMA FindByEmailStage ==
  ASSUME StageInv, NEW c \in Calls, NEW e \in Emails, FindByEmail(c, e)
  PROVE  StageInv'
<1>1. /\ call' \in [Calls -> CallState]
      /\ call'[c].pc = "absent" /\ call'[c].email = e /\ call'[c].id = Nothing
      /\ \A d \in Calls \ {c} : call'[d] = call[d]
  BY StartCall DEF FindByEmail, StageInv
<1>2. Stage(c)'
  BY <1>1 DEF Stage, WithCode
<1>3. QED
  BY <1>1, <1>2, StageOfReads
     DEF FindByEmail, otpVars, sessionVars, StageInv, AccountsTypeOK

LEMMA ReadRateStage ==
  ASSUME StageInv, NEW c \in Calls, ReadRate(c)
  PROVE  StageInv'
<1>1. /\ call' \in [Calls -> CallState]
      /\ call'[c].pc \in {"idle", "store"}
      /\ call'[c].pc = "store" => call'[c].email = call[c].email
      /\ \A d \in Calls \ {c} : call'[d] = call[d]
  BY FinishCall, GotoCall DEF ReadRate, StageInv
<1>2. Stage(c) /\ call[c].pc = "absent"
  BY DEF ReadRate, At, StageInv
<1>3. Stage(c)'
  BY <1>1, <1>2 DEF Stage, WithCode
<1>4. QED
  BY <1>1, <1>3, StageOfReads
     DEF ReadRate, otpVars, sessionVars, StageInv, AccountsTypeOK

LEMMA GetSessionStage ==
  ASSUME StageInv, NEW c \in Calls, NEW s \in CodeIds, GetSession(c, s)
  PROVE  StageInv'
<1>1. IsStored(s) /\ code[s].email \in Emails
  BY DEF GetSession, StageInv, StoredForAddress
<1>2. /\ call' \in [Calls -> CallState]
      /\ call'[c].pc \in {"right", "wrong"}
      /\ call'[c].email = code[s].email /\ call'[c].id = s
      /\ \A d \in Calls \ {c} : call'[d] = call[d]
  BY <1>1, StartCall DEF GetSession, StageInv
<1>3. code[s].state # "unused" /\ UNCHANGED code
  BY <1>1 DEF IsStored, GetSession, otpVars
<1>4. Stage(c)'
  BY <1>1, <1>2, <1>3 DEF Stage, WithCode, IsStored
<1>5. QED
  BY <1>2, <1>4, StageOfReads
     DEF GetSession, otpVars, sessionVars, StageInv, AccountsTypeOK

LEMMA CheckAttemptsStage ==
  ASSUME StageInv, NEW c \in Calls, CheckAttempts(c)
  PROVE  StageInv'
<1>1. /\ call' \in [Calls -> CallState]
      /\ call'[c].pc \in {"idle", "match", "miss"}
      /\ call'[c].pc # "idle" => call'[c].email = call[c].email /\ call'[c].id = call[c].id
      /\ \A d \in Calls \ {c} : call'[d] = call[d]
  BY FinishCall, GotoCall DEF CheckAttempts, Compare, StageInv
<1>2. Stage(c) /\ call[c].pc \in {"right", "wrong"} /\ UNCHANGED code
  BY DEF CheckAttempts, StageInv
<1>3. Stage(c)'
  BY <1>1, <1>2 DEF Stage, WithCode, IsStored
<1>4. guess' \in [CodeIds -> [wrong : Nat, uncounted : Nat]]
  <2>1. call[c].id \in CodeIds
    BY <1>2 DEF Stage, WithCode
  <2>2. QED
    BY <2>1, GuessTypes DEF CheckAttempts, Compare, StageInv, AccountsTypeOK
<1>5. QED
  BY <1>1, <1>3, <1>4, StageOfReads
     DEF CheckAttempts, sessionVars, StageInv, AccountsTypeOK

LEMMA ResetRateStage ==
  ASSUME StageInv, NEW c \in Calls, ResetRate(c)
  PROVE  StageInv'
<1>1. /\ call' \in [Calls -> CallState]
      /\ call'[c].pc = "create" /\ call'[c].email = call[c].email
      /\ \A d \in Calls \ {c} : call'[d] = call[d]
  BY GotoCall DEF ResetRate, StageInv
<1>2. Stage(c) /\ call[c].pc = "reset" /\ UNCHANGED verified
  BY DEF ResetRate, At, StageInv
<1>3. Stage(c)'
  BY <1>1, <1>2 DEF Stage, WithCode
<1>4. rate' \in [Emails -> Nat]
  BY DEF ResetRate, StageInv, AccountsTypeOK
<1>5. QED
  BY <1>1, <1>3, <1>4, StageOfReads
     DEF ResetRate, sessionVars, StageInv, AccountsTypeOK

LEMMA CreateUserStage ==
  ASSUME StageInv, NEW c \in Calls, CreateUser(c)
  PROVE  StageInv'
<1>1. /\ call' \in [Calls -> CallState]
      /\ call'[c].pc = "idle"
      /\ \A d \in Calls \ {c} : call'[d] = call[d]
  BY FinishCall DEF CreateUser, StageInv
<1>2. users' \in [Emails -> Nat]
  BY DEF CreateUser, StageInv, AccountsTypeOK
<1>3. QED
  BY <1>1, <1>2, IdleStage, StageOfReads
     DEF CreateUser, sessionVars, StageInv, AccountsTypeOK

LEMMA ReadSessionStage ==
  ASSUME StageInv, NEW c \in Calls, NEW e \in Emails, NEW t \in Tokens, ReadSession(c, e, t)
  PROVE  StageInv'
<1>1. /\ call' \in [Calls -> CallState]
      /\ call'[c].pc \in {"renew", "revoke"}
      /\ call'[c].email = e /\ call'[c].id = t
      /\ \A d \in Calls \ {c} : call'[d] = call[d]
  BY StartCall DEF ReadSession, StageInv
<1>2. Stage(c)'
  BY <1>1 DEF Stage, WithCode
<1>3. QED
  BY <1>1, <1>2, StageOfReads
     DEF ReadSession, otpVars, sessionVars, StageInv, AccountsTypeOK

LEMMA RevokeStage ==
  ASSUME StageInv, NEW c \in Calls, Revoke(c)
  PROVE  StageInv'
<1>1. /\ call' \in [Calls -> CallState]
      /\ call'[c].pc = "idle"
      /\ \A d \in Calls \ {c} : call'[d] = call[d]
  BY FinishCall DEF Revoke, StageInv
<1>2. token' \in [Emails -> {0} \cup Tokens]
  BY DEF Revoke, StageInv, AccountsTypeOK
<1>3. QED
  BY <1>1, <1>2, IdleStage, StageOfReads
     DEF Revoke, otpVars, StageInv, AccountsTypeOK

LEMMA RenewStage ==
  ASSUME StageInv, NEW c \in Calls, Renew(c)
  PROVE  StageInv'
<1>1. /\ call' \in [Calls -> CallState]
      /\ call'[c].pc = "idle"
      /\ \A d \in Calls \ {c} : call'[d] = call[d]
  BY FinishCall DEF Renew, StageInv
<1>2. Stage(c) /\ call[c].pc = "renew"
  BY DEF Renew, At, StageInv
<1>3. call[c].id \in Tokens /\ call[c].email \in Emails
  BY <1>2 DEF Stage
<1>4. token' \in [Emails -> {0} \cup Tokens]
  BY <1>3 DEF Renew, StageInv, AccountsTypeOK
<1>5. issued' \in [Emails -> 0..MaxTokens]
  BY <1>3, AccountLimitsAssumption DEF Renew, StageInv, AccountsTypeOK
<1>6. QED
  BY <1>1, <1>4, <1>5, IdleStage, StageOfReads
     DEF Renew, otpVars, StageInv, AccountsTypeOK

LEMMA RequestFailsStage ==
  ASSUME StageInv, NEW c \in Calls, RequestFails(c)
  PROVE  StageInv'
<1>1. /\ call' \in [Calls -> CallState]
      /\ call'[c].pc = "idle"
      /\ \A d \in Calls \ {c} : call'[d] = call[d]
  BY FinishCall DEF RequestFails, StageInv
<1>2. Stage(c) /\ UNCHANGED verified
  BY DEF RequestFails, StageInv
<1>3. failed' \subseteq verified'
  BY <1>2 DEF RequestFails, StageInv, AccountsTypeOK, Stage
<1>4. QED
  BY <1>1, <1>3, IdleStage, StageOfReads
     DEF RequestFails, sessionVars, StageInv, AccountsTypeOK

\* What is left to show of a step of a request that writes a code.
LEMMA StageOfWrites ==
  ASSUME StageInv, NEW c \in Calls, verified \subseteq verified',
         call' \in [Calls -> CallState],
         \A d \in Calls \ {c} : call'[d] = call[d],
         attempts' \in [Emails -> Nat], rate' \in [Emails -> Nat],
         verified' \subseteq Emails, UNCHANGED <<users, failed, sessionVars>>,
         guess' \in [CodeIds -> [wrong : Nat, uncounted : Nat]],
         code' \in [CodeIds -> Code],
         StoredForAddress', Stage(c)',
         \A s \in CodeIds : CodeMoves(s),
         \A d \in Calls \ {c} : call[d].pc \in {"count", "send"} => CodeWaits(call[d].id),
         call'[c].pc \in {"count", "send"} =>
           \/ call[c].pc \in {"count", "send"} /\ call'[c].id = call[c].id
           \/ code[call'[c].id].state = "unused"
  PROVE  StageInv'
<1>1. AccountsTypeOK'
  BY DEF StageInv, AccountsTypeOK, CallState, sessionVars
<1>2. QED
  BY <1>1, StageStep

LEMMA StoreOtpStage ==
  ASSUME StageInv, NEW c \in Calls, StoreOtp(c)
  PROVE  StageInv'
<1>1. Stage(c) /\ call[c].pc = "store"
  BY DEF StoreOtp, At, StageInv
<1>2. call[c].email \in Emails
  BY <1>1 DEF Stage
<1>3. PICK s \in CodeIds :
        /\ code[s].state = "unused"
        /\ code' = [code EXCEPT ![s] = [state |-> "stored", email |-> call[c].email, counted |-> 0]]
        /\ Start(c, "count", call[c].email, s)
  BY DEF StoreOtp
<1>4. /\ call' \in [Calls -> CallState]
      /\ call'[c].pc = "count" /\ call'[c].email = call[c].email /\ call'[c].id = s
      /\ \A d \in Calls \ {c} : call'[d] = call[d]
  BY <1>2, <1>3, StartCall DEF StageInv
<1>5. code \in [CodeIds -> Code]
  BY DEF StageInv, AccountsTypeOK
<1>6. [state |-> "stored", email |-> call[c].email, counted |-> 0] \in Code
  BY <1>2 DEF Code
<1>7. /\ code' \in [CodeIds -> Code]
      /\ code'[s].state = "stored" /\ code'[s].email = call[c].email
      /\ \A r \in CodeIds \ {s} : code'[r] = code[r]
  BY <1>3, <1>5, <1>6
<1>8. \A r \in CodeIds : CodeMoves(r)
  BY <1>3, <1>7 DEF CodeMoves, IsStored
<1>9. ASSUME NEW d \in Calls \ {c}, call[d].pc \in {"count", "send"}
      PROVE  CodeWaits(call[d].id)
  <2>1. Stage(d)
    BY DEF StageInv
  <2>2. call[d].id \in CodeIds /\ call[d].id # s
    BY <1>3, <1>9, <2>1 DEF Stage, WithCode
  <2>3. QED
    BY <1>7, <2>2 DEF CodeWaits
<1>10. StoredForAddress'
  BY <1>2, <1>7 DEF StageInv, StoredForAddress, IsStored
<1>11. Stage(c)'
  BY <1>2, <1>4, <1>7 DEF Stage, WithCode, IsStored
<1>12. QED
  BY <1>3, <1>4, <1>7, <1>8, <1>9, <1>10, <1>11, StageOfWrites
     DEF StoreOtp, sessionVars, StageInv, AccountsTypeOK

\* A code written by the request that knows it: one field, or the code is gone.
LEMMA WriteStage ==
  ASSUME StageInv, NEW s \in CodeIds, IsStored(s),
         NEW k \in Code, code' = [code EXCEPT ![s] = k],
         k.state # "gone" => k.state # "unused" /\ k.email = code[s].email
  PROVE  /\ code' \in [CodeIds -> Code]
         /\ \A r \in CodeIds : CodeMoves(r)
         /\ \A r \in CodeIds \ {s} : CodeWaits(r)
         /\ k.state = "gone" => CodeWaits(s)
         /\ StoredForAddress'
         /\ code'[s] = k
<1>1. /\ code' \in [CodeIds -> Code] /\ code'[s] = k
      /\ \A r \in CodeIds \ {s} : code'[r] = code[r]
  BY DEF StageInv, AccountsTypeOK
<1>2. \A r \in CodeIds : CodeMoves(r)
  BY <1>1 DEF CodeMoves, IsStored
<1>3. (\A r \in CodeIds \ {s} : CodeWaits(r)) /\ (k.state = "gone" => CodeWaits(s))
  BY <1>1 DEF CodeWaits
<1>4. StoredForAddress'
  BY <1>1 DEF StageInv, StoredForAddress, IsStored
<1>5. QED
  BY <1>1, <1>2, <1>3, <1>4

LEMMA CountOtpStage ==
  ASSUME StageInv, NEW c \in Calls, CountOtp(c)
  PROVE  StageInv'
<1>1. Stage(c) /\ call[c].pc = "count" /\ OwnCodes
  BY DEF CountOtp, At, StageInv
<1>2. /\ call' \in [Calls -> CallState]
      /\ call'[c].pc = "send" /\ call'[c].email = call[c].email /\ call'[c].id = call[c].id
      /\ \A d \in Calls \ {c} : call'[d] = call[d]
  BY GotoCall DEF CountOtp, StageInv
<1>3. /\ call[c].id \in CodeIds /\ call[c].email \in Emails
      /\ code[call[c].id].state \in {"stored", "gone"}
  BY <1>1 DEF Stage, WithCode
<1>4. ASSUME NEW d \in Calls \ {c}, call[d].pc \in {"count", "send"}
      PROVE  call[d].id \in CodeIds \ {call[c].id}
  <2>1. Stage(d)
    BY DEF StageInv
  <2>2. QED
    BY <1>1, <1>4, <2>1 DEF Stage, WithCode, OwnCodes
<1>5. rate' \in [Emails -> Nat] /\ UNCHANGED <<users, attempts, failed, verified, guess, sessionVars>>
  BY <1>3 DEF CountOtp, StageInv, AccountsTypeOK
<1>6. CASE IsStored(call[c].id)
  <2>1. [code[call[c].id] EXCEPT !.state = "counted"] \in Code
        /\ [code[call[c].id] EXCEPT !.state = "counted"].state = "counted"
        /\ [code[call[c].id] EXCEPT !.state = "counted"].email = code[call[c].id].email
    BY <1>3 DEF StageInv, AccountsTypeOK, Code
  <2>2. code' = [code EXCEPT ![call[c].id] = [code[call[c].id] EXCEPT !.state = "counted"]]
    BY <1>3, <1>6 DEF CountOtp, StageInv, AccountsTypeOK
  <2>3. /\ code' \in [CodeIds -> Code]
        /\ \A r \in CodeIds : CodeMoves(r)
        /\ \A r \in CodeIds \ {call[c].id} : CodeWaits(r)
        /\ StoredForAddress'
        /\ code'[call[c].id] = [code[call[c].id] EXCEPT !.state = "counted"]
    BY <1>3, <1>6, <2>1, <2>2, WriteStage
  <2>4. code'[call[c].id].state = "counted" /\ code'[call[c].id].email = call[c].email
    BY <1>1, <1>6, <2>1, <2>3 DEF Stage, WithCode
  <2>5. Stage(c)'
    BY <1>2, <1>3, <2>4 DEF Stage, WithCode, IsStored
  <2>6. QED
    BY <1>1, <1>2, <1>4, <1>5, <2>3, <2>5, StageOfWrites DEF StageInv, AccountsTypeOK
<1>7. CASE ~ IsStored(call[c].id)
  <2>1. UNCHANGED code
    BY <1>7 DEF CountOtp
  <2>2. Stage(c)'
    BY <1>1, <1>2, <1>3, <1>7, <2>1 DEF Stage, WithCode, IsStored
  <2>3. QED
    BY <1>1, <1>2, <1>5, <2>1, <2>2, StageOfReads DEF StageInv, AccountsTypeOK, sessionVars
<1>8. QED
  BY <1>6, <1>7

LEMMA SendOtpEmailStage ==
  ASSUME StageInv, NEW c \in Calls, SendOtpEmail(c)
  PROVE  StageInv'
<1>1. Stage(c) /\ call[c].pc = "send" /\ OwnCodes
  BY DEF SendOtpEmail, At, StageInv
<1>2. /\ call' \in [Calls -> CallState]
      /\ call'[c].pc = "idle"
      /\ \A d \in Calls \ {c} : call'[d] = call[d]
  BY FinishCall DEF SendOtpEmail, StageInv
<1>3. call[c].id \in CodeIds
  BY <1>1 DEF Stage, WithCode
<1>4. ASSUME NEW d \in Calls \ {c}, call[d].pc \in {"count", "send"}
      PROVE  call[d].id \in CodeIds \ {call[c].id}
  <2>1. Stage(d)
    BY DEF StageInv
  <2>2. QED
    BY <1>1, <1>4, <2>1 DEF Stage, WithCode, OwnCodes
<1>5. UNCHANGED <<users, attempts, rate, failed, verified, guess, sessionVars>> /\ Stage(c)'
  BY <1>2, IdleStage DEF SendOtpEmail
<1>6. CASE IsStored(call[c].id) /\ code' = [code EXCEPT ![call[c].id].state = "queued"]
  <2>1. [code[call[c].id] EXCEPT !.state = "queued"] \in Code
        /\ [code[call[c].id] EXCEPT !.state = "queued"].state = "queued"
        /\ [code[call[c].id] EXCEPT !.state = "queued"].email = code[call[c].id].email
    BY <1>3 DEF StageInv, AccountsTypeOK, Code
  <2>2. code' = [code EXCEPT ![call[c].id] = [code[call[c].id] EXCEPT !.state = "queued"]]
    BY <1>3, <1>6 DEF StageInv, AccountsTypeOK
  <2>3. /\ code' \in [CodeIds -> Code]
        /\ \A r \in CodeIds : CodeMoves(r)
        /\ \A r \in CodeIds \ {call[c].id} : CodeWaits(r)
        /\ StoredForAddress'
    BY <1>3, <1>6, <2>1, <2>2, WriteStage
  <2>4. QED
    BY <1>2, <1>4, <1>5, <2>3, StageOfWrites DEF StageInv, AccountsTypeOK
<1>7. CASE UNCHANGED code
  BY <1>2, <1>5, <1>7, StageOfReads DEF StageInv, AccountsTypeOK, sessionVars
<1>8. QED
  BY <1>6, <1>7 DEF SendOtpEmail

LEMMA HandleOtpEmailStage ==
  ASSUME StageInv, NEW s \in CodeIds, HandleOtpEmail(s)
  PROVE  StageInv'
<1>1. IsStored(s) /\ code[s].state = "queued"
  BY DEF HandleOtpEmail, IsStored
<1>2. PICK state \in {"delivered", "dropped"} : code' = [code EXCEPT ![s].state = state]
  BY DEF HandleOtpEmail
<1>3. [code[s] EXCEPT !.state = state] \in Code
      /\ [code[s] EXCEPT !.state = state].state = state
      /\ [code[s] EXCEPT !.state = state].email = code[s].email
  BY DEF StageInv, AccountsTypeOK, Code
<1>4. code' = [code EXCEPT ![s] = [code[s] EXCEPT !.state = state]]
  BY <1>2 DEF StageInv, AccountsTypeOK
<1>5. /\ code' \in [CodeIds -> Code]
      /\ \A r \in CodeIds : CodeMoves(r)
      /\ \A r \in CodeIds \ {s} : CodeWaits(r)
      /\ StoredForAddress'
  BY <1>1, <1>3, <1>4, WriteStage
<1>6. ASSUME NEW d \in Calls, call[d].pc \in {"count", "send"}
      PROVE  CodeWaits(call[d].id)
  <2>1. Stage(d)
    BY DEF StageInv
  <2>2. call[d].id \in CodeIds \ {s}
    BY <1>1, <1>6, <2>1 DEF Stage, WithCode
  <2>3. QED
    BY <1>5, <2>2
<1>7. AccountsTypeOK'
  BY <1>5 DEF StageInv, AccountsTypeOK, HandleOtpEmail, sessionVars
<1>8. QED
  BY <1>5, <1>6, <1>7, StageRest DEF HandleOtpEmail

LEMMA GoneCode ==
  NoCode("gone") \in Code /\ NoCode("gone").state = "gone"
  /\ NoCode("gone").email = Nothing /\ NoCode("gone").counted = 0
BY DEF NoCode, Code

LEMMA TakeCodeStage ==
  ASSUME StageInv, NEW c \in Calls, TakeCode(c)
  PROVE  StageInv'
<1>1. Stage(c) /\ call[c].pc = "match"
  BY DEF TakeCode, At, StageInv
<1>2. /\ call' \in [Calls -> CallState]
      /\ call'[c].pc = "reset" /\ call'[c].email = call[c].email
      /\ \A d \in Calls \ {c} : call'[d] = call[d]
  BY GotoCall DEF TakeCode, StageInv
<1>3. call[c].id \in CodeIds /\ call[c].email \in Emails /\ code[call[c].id].state # "unused"
  BY <1>1 DEF Stage, WithCode
<1>4. /\ attempts' \in [Emails -> Nat]
      /\ verified' = verified \cup {call[c].email}
      /\ UNCHANGED <<users, rate, failed, sessionVars>>
      /\ guess' \in [CodeIds -> [wrong : Nat, uncounted : Nat]]
  BY <1>3, GuessTypes DEF TakeCode, StageInv, AccountsTypeOK
<1>5. code' = [code EXCEPT ![call[c].id] = NoCode("gone")] /\ code \in [CodeIds -> Code]
  BY DEF TakeCode, StageInv, AccountsTypeOK
<1>6. /\ code' \in [CodeIds -> Code]
      /\ code'[call[c].id].state = "gone"
      /\ \A r \in CodeIds \ {call[c].id} : code'[r] = code[r]
  BY <1>3, <1>5, GoneCode
<1>7. \A r \in CodeIds : CodeMoves(r) /\ CodeWaits(r)
  BY <1>6 DEF CodeMoves, CodeWaits, IsStored
<1>8. StoredForAddress'
  BY <1>6 DEF StageInv, StoredForAddress, IsStored
<1>9. Stage(c)'
  BY <1>2, <1>3, <1>4 DEF Stage, WithCode
<1>10. ASSUME NEW d \in Calls \ {c}, call[d].pc \in {"count", "send"}
       PROVE  CodeWaits(call[d].id)
  <2>1. Stage(d)
    BY DEF StageInv
  <2>2. QED
    BY <1>7, <1>10, <2>1 DEF Stage, WithCode
<1>11. QED
  BY <1>2, <1>3, <1>4, <1>6, <1>7, <1>8, <1>9, <1>10, StageOfWrites DEF StageInv, AccountsTypeOK

LEMMA CountMissStage ==
  ASSUME StageInv, NEW c \in Calls, CountMiss(c)
  PROVE  StageInv'
<1>1. Stage(c) /\ call[c].pc = "miss"
  BY DEF CountMiss, At, StageInv
<1>2. /\ call' \in [Calls -> CallState]
      /\ call'[c].pc = "idle"
      /\ \A d \in Calls \ {c} : call'[d] = call[d]
  BY FinishCall DEF CountMiss, StageInv
<1>3. call[c].id \in CodeIds /\ call[c].email \in Emails
  BY <1>1 DEF Stage, WithCode
<1>4. /\ attempts' \in [Emails -> Nat]
      /\ UNCHANGED <<users, rate, failed, verified, guess, sessionVars>>
  BY <1>3 DEF CountMiss, StageInv, AccountsTypeOK
<1>5. Stage(c)'
  BY <1>2, IdleStage
<1>6. CASE IsStored(call[c].id)
  <2> DEFINE k == [code[call[c].id] EXCEPT !.counted = @ + 1]
  <2>1. /\ k \in Code /\ k.state = code[call[c].id].state
        /\ k.email = code[call[c].id].email
    BY <1>3 DEF StageInv, AccountsTypeOK, Code
  <2>2. code' = [code EXCEPT ![call[c].id] = k]
    BY <1>3, <1>6 DEF CountMiss, StageInv, AccountsTypeOK
  <2> HIDE DEF k
  <2>3. /\ code' \in [CodeIds -> Code]
        /\ \A r \in CodeIds : CodeMoves(r)
        /\ \A r \in CodeIds \ {call[c].id} : CodeWaits(r)
        /\ StoredForAddress'
        /\ code'[call[c].id] = k
    BY <1>3, <1>6, <2>1, <2>2, WriteStage DEF IsStored
  <2>4. CodeWaits(call[c].id)
    BY <2>1, <2>3 DEF CodeWaits
  <2>5. ASSUME NEW d \in Calls \ {c}, call[d].pc \in {"count", "send"}
        PROVE  CodeWaits(call[d].id)
    <3>1. Stage(d)
      BY DEF StageInv
    <3>2. QED
      BY <2>3, <2>4, <2>5, <3>1 DEF Stage, WithCode
  <2>6. QED
    BY <1>2, <1>4, <1>5, <2>3, <2>5, StageOfWrites DEF StageInv, AccountsTypeOK
<1>7. CASE ~ IsStored(call[c].id)
  <2>1. UNCHANGED code
    BY <1>7 DEF CountMiss
  <2>2. QED
    BY <1>2, <1>4, <1>5, <2>1, StageOfReads DEF StageInv, AccountsTypeOK, sessionVars
<1>8. QED
  BY <1>6, <1>7

LEMMA LoseMissStage ==
  ASSUME StageInv, NEW c \in Calls, LoseMiss(c)
  PROVE  StageInv'
<1>1. /\ call' \in [Calls -> CallState]
      /\ call'[c].pc = "idle"
      /\ \A d \in Calls \ {c} : call'[d] = call[d]
  BY FinishCall DEF LoseMiss, StageInv
<1>2. Stage(c) /\ call[c].pc = "miss"
  BY DEF LoseMiss, At, StageInv
<1>3. call[c].id \in CodeIds
  BY <1>2 DEF Stage, WithCode
<1>4. guess' \in [CodeIds -> [wrong : Nat, uncounted : Nat]]
  BY <1>3, GuessTypes DEF LoseMiss, StageInv
<1>5. QED
  BY <1>1, <1>4, IdleStage, StageOfReads
     DEF LoseMiss, sessionVars, StageInv, AccountsTypeOK

LEMMA ExpireCodeStage ==
  ASSUME StageInv, NEW s \in CodeIds, ExpireCode(s)
  PROVE  StageInv'
<1>1. IsStored(s) /\ code' = [code EXCEPT ![s] = NoCode("gone")]
  BY DEF ExpireCode
<1>2. /\ code' \in [CodeIds -> Code]
      /\ \A r \in CodeIds : CodeMoves(r)
      /\ \A r \in CodeIds : CodeWaits(r)
      /\ StoredForAddress'
  <2>1. PICK k \in Code : k.state = "gone" /\ code' = [code EXCEPT ![s] = k]
    BY <1>1, GoneCode
  <2>2. IsStored(s)
    BY <1>1
  <2>3. /\ code' \in [CodeIds -> Code]
        /\ \A r \in CodeIds : CodeMoves(r)
        /\ \A r \in CodeIds \ {s} : CodeWaits(r)
        /\ k.state = "gone" => CodeWaits(s)
        /\ StoredForAddress'
    BY <2>1, <2>2, WriteStage
  <2>4. QED
    BY <2>1, <2>3
<1>3. AccountsTypeOK' /\ UNCHANGED <<call, verified>>
  BY <1>2, GuessTypes DEF StageInv, AccountsTypeOK, ExpireCode, sessionVars
<1>4. ASSUME NEW d \in Calls, call[d].pc \in {"count", "send"}
      PROVE  CodeWaits(call[d].id)
  <2>1. Stage(d)
    BY DEF StageInv
  <2>2. QED
    BY <1>2, <1>4, <2>1 DEF Stage, WithCode
<1>5. QED
  BY <1>2, <1>3, <1>4, StageRest

\* Steps that are of no request and write no code.
LEMMA StageOfOthers ==
  ASSUME StageInv, UNCHANGED <<call, code, verified>>, AccountsTypeOK'
  PROVE  StageInv'
<1>1. StoredForAddress'
  BY StoredStays DEF StageInv
<1>2. ASSUME NEW d \in Calls, call[d].pc \in {"count", "send"}
      PROVE  CodeWaits(call[d].id)
  BY DEF CodeWaits
<1>3. QED
  BY <1>1, <1>2, CodeStays, StageRest

LEMMA TimersStage ==
  ASSUME StageInv, NEW e \in Emails,
         Login(e) \/ ExpireAttempts(e) \/ ExpireRate(e) \/ ExpireSession(e)
  PROVE  StageInv'
<1>1. AccountsTypeOK'
  <2>1. CASE Login(e)
    <3>1. token' \in [Emails -> {0} \cup Tokens] /\ issued' \in [Emails -> 0..MaxTokens]
      BY <2>1, AccountLimitsAssumption DEF Login, StageInv, AccountsTypeOK, Tokens
    <3>2. QED
      BY <2>1, <3>1 DEF Login, StageInv, AccountsTypeOK, otpVars
  <2>2. CASE ExpireAttempts(e)
    BY <2>2 DEF ExpireAttempts, StageInv, AccountsTypeOK, sessionVars
  <2>3. CASE ExpireRate(e)
    BY <2>3 DEF ExpireRate, StageInv, AccountsTypeOK, sessionVars
  <2>4. CASE ExpireSession(e)
    BY <2>4 DEF ExpireSession, StageInv, AccountsTypeOK, otpVars
  <2>5. QED
    BY <2>1, <2>2, <2>3, <2>4
<1>2. UNCHANGED <<call, code, verified>>
  BY DEF Login, ExpireAttempts, ExpireRate, ExpireSession, otpVars
<1>3. QED
  BY <1>1, <1>2, StageOfOthers

LEMMA StutterStage ==
  ASSUME StageInv, UNCHANGED accountVars
  PROVE  StageInv'
<1>1. UNCHANGED <<call, code, verified>> /\ AccountsTypeOK'
  BY DEF accountVars, otpVars, sessionVars, StageInv, AccountsTypeOK
<1>2. QED
  BY <1>1, StageOfOthers

LEMMA StageNext ==
  ASSUME StageInv, [AccountsNext]_accountVars
  PROVE  StageInv'
BY FindByEmailStage, ReadRateStage, StoreOtpStage, CountOtpStage, SendOtpEmailStage,
   HandleOtpEmailStage, GetSessionStage, CheckAttemptsStage, TakeCodeStage, ResetRateStage,
   CreateUserStage, CountMissStage, LoseMissStage, ReadSessionStage, RevokeStage, RenewStage,
   RequestFailsStage, ExpireCodeStage, TimersStage, StutterStage
   DEF AccountsNext

LEMMA StageAlways == AccountsSpec => []StageInv
BY StageInit, StageNext, PTL DEF AccountsSpec

\* Every variable of user-service keeps its type: in particular no user has more
\* than the tokens issued, and an address is counted as failed only after a right
\* code was taken for it.
THEOREM AccountsTypeCorrect == AccountsSpec => []AccountsTypeOK
<1>1. StageInv => AccountsTypeOK
  BY DEF StageInv
<1>2. QED
  BY <1>1, StageAlways, PTL

-----------------------------------------------------------------------------
(* One account for each verified address *)

\* A step that touches no account: the request that is to create one goes on
\* with it, or is counted as failed.
LEMMA AccountKept ==
  ASSUME OneAccountPerVerifiedAddress, NEW c,
         \A d \in Calls \ {c} : call'[d] = call[d],
         UNCHANGED <<users, verified>>, failed \subseteq failed',
         c \in Calls /\ call[c].pc \in {"reset", "create"} =>
           \/ call'[c].pc \in {"reset", "create"} /\ call'[c].email = call[c].email
           \/ call[c].email \in failed'
  PROVE  OneAccountPerVerifiedAddress'
<1> SUFFICES ASSUME NEW e \in Emails
             PROVE  /\ users'[e] <= 1
                    /\ users'[e] = 1 => e \in verified'
                    /\ e \in verified' \ failed' /\ users'[e] = 0 =>
                         \E d \in Calls : call'[d].pc \in {"reset", "create"} /\ call'[d].email = e
  BY DEF OneAccountPerVerifiedAddress
<1>1. users'[e] <= 1 /\ (users'[e] = 1 => e \in verified')
  BY DEF OneAccountPerVerifiedAddress
<1>2. ASSUME e \in verified' \ failed', users'[e] = 0
      PROVE  \E d \in Calls : call'[d].pc \in {"reset", "create"} /\ call'[d].email = e
  <2>1. PICK d \in Calls : call[d].pc \in {"reset", "create"} /\ call[d].email = e
    BY <1>2 DEF OneAccountPerVerifiedAddress
  <2>2. CASE d = c
    BY <1>2, <2>1, <2>2
  <2>3. CASE d # c
    BY <2>1, <2>3
  <2>4. QED
    BY <2>2, <2>3
<1>3. QED
  BY <1>1, <1>2

LEMMA TakeCodeAccount ==
  ASSUME StageInv, OneAccountPerVerifiedAddress, NEW c \in Calls, TakeCode(c)
  PROVE  OneAccountPerVerifiedAddress'
<1>1. /\ call'[c].pc = "reset" /\ call'[c].email = call[c].email
      /\ \A d \in Calls \ {c} : call'[d] = call[d]
  BY GotoCall DEF TakeCode, StageInv
<1>2. /\ call[c].pc = "match" /\ verified' = verified \cup {call[c].email}
      /\ UNCHANGED <<users, failed>>
  BY DEF TakeCode, At
<1>3. ASSUME NEW e \in Emails, e \in verified' \ failed', users'[e] = 0
      PROVE  \E d \in Calls : call'[d].pc \in {"reset", "create"} /\ call'[d].email = e
  <2>1. CASE e = call[c].email
    BY <1>1, <2>1
  <2>2. CASE e # call[c].email
    <3>1. PICK d \in Calls : call[d].pc \in {"reset", "create"} /\ call[d].email = e
      BY <1>2, <1>3, <2>2 DEF OneAccountPerVerifiedAddress
    <3>2. QED
      BY <1>1, <1>2, <3>1
  <2>3. QED
    BY <2>1, <2>2
<1>4. QED
  BY <1>2, <1>3 DEF OneAccountPerVerifiedAddress

LEMMA CreateUserAccount ==
  ASSUME StageInv, OneAccountPerVerifiedAddress, NEW c \in Calls, CreateUser(c)
  PROVE  OneAccountPerVerifiedAddress'
<1>1. \A d \in Calls \ {c} : call'[d] = call[d]
  BY FinishCall DEF CreateUser, StageInv
<1>2. call[c].pc = "create" /\ Stage(c) /\ UNCHANGED <<verified, failed>>
  BY DEF CreateUser, At, StageInv
<1>3. call[c].email \in Emails /\ call[c].email \in verified
  BY <1>2 DEF Stage
<1>4. /\ users'[call[c].email] = 1
      /\ \A e \in Emails \ {call[c].email} : users'[e] = users[e]
  BY <1>3 DEF CreateUser, StageInv, AccountsTypeOK
<1>5. ASSUME NEW e \in Emails, e \in verified' \ failed', users'[e] = 0
      PROVE  \E d \in Calls : call'[d].pc \in {"reset", "create"} /\ call'[d].email = e
  <2>1. e # call[c].email /\ users[e] = 0
    BY <1>4, <1>5
  <2>2. PICK d \in Calls : call[d].pc \in {"reset", "create"} /\ call[d].email = e
    BY <1>2, <1>5, <2>1 DEF OneAccountPerVerifiedAddress
  <2>3. QED
    BY <1>1, <2>1, <2>2
<1>6. QED
  BY <1>2, <1>3, <1>4, <1>5 DEF OneAccountPerVerifiedAddress

\* The steps of a request, but for those that write an account.
LEMMA RequestAccount ==
  ASSUME StageInv, OneAccountPerVerifiedAddress, NEW c \in Calls,
         \/ \E e \in Emails : FindByEmail(c, e)
         \/ ReadRate(c) \/ StoreOtp(c) \/ CountOtp(c) \/ SendOtpEmail(c)
         \/ \E s \in CodeIds : GetSession(c, s)
         \/ CheckAttempts(c) \/ ResetRate(c) \/ CountMiss(c) \/ LoseMiss(c)
         \/ \E e \in Emails, t \in Tokens : ReadSession(c, e, t)
         \/ Revoke(c) \/ Renew(c)
  PROVE  OneAccountPerVerifiedAddress'
<1>1. \A d \in Calls \ {c} : call'[d] = call[d]
  BY DEF FindByEmail, ReadRate, StoreOtp, CountOtp, SendOtpEmail, GetSession, CheckAttempts,
         ResetRate, CountMiss, LoseMiss, ReadSession, Revoke, Renew, Compare, Start, Goto, Finish,
         StageInv, AccountsTypeOK
<1>2. UNCHANGED <<users, verified, failed>>
  BY DEF FindByEmail, ReadRate, StoreOtp, CountOtp, SendOtpEmail, GetSession, CheckAttempts,
         ResetRate, CountMiss, LoseMiss, ReadSession, Revoke, Renew, otpVars
<1>3. CASE ResetRate(c)
  <2>1. call'[c].pc = "create" /\ call'[c].email = call[c].email
    BY <1>3, GotoCall DEF ResetRate, StageInv
  <2>2. QED
    BY <1>1, <1>2, <2>1, AccountKept
<1>4. CASE ~ ResetRate(c)
  <2>1. call[c].pc \notin {"reset", "create"}
    BY <1>4 DEF FindByEmail, ReadRate, StoreOtp, CountOtp, SendOtpEmail, GetSession,
         CheckAttempts, CountMiss, LoseMiss, ReadSession, Revoke, Renew, At, Idle
  <2>2. QED
    BY <1>1, <1>2, <2>1, AccountKept
<1>5. QED
  BY <1>3, <1>4

LEMMA RequestFailsAccount ==
  ASSUME StageInv, OneAccountPerVerifiedAddress, NEW c \in Calls, RequestFails(c)
  PROVE  OneAccountPerVerifiedAddress'
<1>1. \A d \in Calls \ {c} : call'[d] = call[d]
  BY FinishCall DEF RequestFails, StageInv
<1>2. /\ UNCHANGED <<users, verified>> /\ failed \subseteq failed'
      /\ call[c].pc \in {"reset", "create"} => call[c].email \in failed'
  BY DEF RequestFails
<1>3. QED
  BY <1>1, <1>2, AccountKept

LEMMA AccountsNextOne ==
  ASSUME StageInv, OneAccountPerVerifiedAddress, [AccountsNext]_accountVars
  PROVE  OneAccountPerVerifiedAddress'
<1>1. CASE \E c \in Calls : TakeCode(c) \/ CreateUser(c) \/ RequestFails(c)
  BY <1>1, TakeCodeAccount, CreateUserAccount, RequestFailsAccount
<1>2. CASE UNCHANGED <<users, verified, failed, call>>
  BY <1>2, AccountKept
<1>3. CASE UNCHANGED accountVars
  BY <1>2, <1>3 DEF accountVars, otpVars
<1>4. CASE \/ \E s \in CodeIds : HandleOtpEmail(s) \/ ExpireCode(s)
           \/ \E e \in Emails : Login(e) \/ ExpireAttempts(e) \/ ExpireRate(e) \/ ExpireSession(e)
  BY <1>2, <1>4 DEF HandleOtpEmail, ExpireCode, Login, ExpireAttempts, ExpireRate,
                    ExpireSession, otpVars
<1>5. QED
  BY <1>1, <1>3, <1>4, RequestAccount DEF AccountsNext

\* An address has at most one account, and has one exactly when a right code was
\* taken for it by a request that did not fail afterwards: with any number of
\* sendOtp and verifyOtp requests at once, two for the same code among them.
THEOREM OneAccountEach == AccountsSpec => []OneAccountPerVerifiedAddress
<1>1. AccountsInit => OneAccountPerVerifiedAddress
  BY DEF AccountsInit, OneAccountPerVerifiedAddress
<1>2. StageInv /\ OneAccountPerVerifiedAddress /\ [AccountsNext]_accountVars
        => OneAccountPerVerifiedAddress'
  BY AccountsNextOne
<1>3. QED
  BY <1>1, <1>2, StageAlways, PTL DEF AccountsSpec

-----------------------------------------------------------------------------
(* What a step leaves of the codes and of the requests that have passed a check *)

GuessKeeps(s) ==
  IsStored(s)' =>
    \/ code'[s].counted = 0 /\ code'[s].email \in Emails
    \/ IsStored(s) /\ code'[s].email = code[s].email /\ code'[s].counted = code[s].counted

CountKeeps(s) ==
  IsStored(s)' /\ code'[s].state # "stored" =>
    IsStored(s) /\ code'[s].email = code[s].email /\ code[s].state # "stored"

LEMMA CodesKept ==
  ASSUME StageInv, UNCHANGED code, NEW s \in CodeIds
  PROVE  GuessKeeps(s) /\ CountKeeps(s)
BY DEF GuessKeeps, CountKeeps, IsStored

LEMMA StoreOtpKeeps ==
  ASSUME StageInv, NEW c \in Calls, StoreOtp(c), NEW r \in CodeIds
  PROVE  GuessKeeps(r) /\ CountKeeps(r)
<1>1. call[c].email \in Emails
  <2>1. Stage(c) /\ call[c].pc = "store"
    BY DEF StoreOtp, At, StageInv
  <2>2. QED
    BY <2>1 DEF Stage
<1>2. PICK s \in CodeIds :
        code' = [code EXCEPT ![s] = [state |-> "stored", email |-> call[c].email, counted |-> 0]]
  BY DEF StoreOtp
<1>3. CASE r = s
  BY <1>1, <1>2, <1>3 DEF GuessKeeps, CountKeeps, StageInv, AccountsTypeOK
<1>4. CASE r # s
  BY <1>2, <1>4 DEF GuessKeeps, CountKeeps, IsStored, StageInv, AccountsTypeOK
<1>5. QED
  BY <1>3, <1>4

LEMMA CountOtpKeeps ==
  ASSUME StageInv, NEW c \in Calls, CountOtp(c), NEW r \in CodeIds
  PROVE  GuessKeeps(r) /\ (r # call[c].id => CountKeeps(r))
<1>1. code \in [CodeIds -> Code]
  BY DEF StageInv, AccountsTypeOK
<1>2. CASE IsStored(call[c].id)
  BY <1>1, <1>2 DEF CountOtp, GuessKeeps, CountKeeps, IsStored, Code
<1>3. CASE ~ IsStored(call[c].id)
  BY <1>3, CodesKept DEF CountOtp
<1>4. QED
  BY <1>2, <1>3

LEMMA SendOtpEmailKeeps ==
  ASSUME StageInv, NEW c \in Calls, SendOtpEmail(c), NEW r \in CodeIds
  PROVE  GuessKeeps(r) /\ CountKeeps(r)
<1>1. code \in [CodeIds -> Code]
  BY DEF StageInv, AccountsTypeOK
<1>2. Stage(c) /\ call[c].pc = "send"
  BY DEF StageInv, SendOtpEmail, At
<1>3. call[c].id \in CodeIds /\ code[call[c].id].state \in {"counted", "gone"}
  BY <1>2 DEF Stage, WithCode
<1>4. CASE code' = [code EXCEPT ![call[c].id].state = "queued"] /\ IsStored(call[c].id)
  BY <1>1, <1>3, <1>4 DEF GuessKeeps, CountKeeps, IsStored, Code
<1>5. CASE UNCHANGED code
  BY <1>5, CodesKept
<1>6. QED
  BY <1>4, <1>5 DEF SendOtpEmail

LEMMA HandleOtpEmailKeeps ==
  ASSUME StageInv, NEW s \in CodeIds, HandleOtpEmail(s), NEW r \in CodeIds
  PROVE  GuessKeeps(r) /\ CountKeeps(r)
<1>1. code \in [CodeIds -> Code]
  BY DEF StageInv, AccountsTypeOK
<1>2. PICK state \in {"delivered", "dropped"} : code' = [code EXCEPT ![s].state = state]
  BY DEF HandleOtpEmail
<1>3. code[s].state = "queued"
  BY DEF HandleOtpEmail
<1>4. QED
  BY <1>1, <1>2, <1>3 DEF GuessKeeps, CountKeeps, IsStored, Code

\* TakeCode and ExpireCode.
LEMMA GoneKeeps ==
  ASSUME StageInv, NEW s \in CodeIds, code' = [code EXCEPT ![s] = NoCode("gone")],
         NEW r \in CodeIds
  PROVE  GuessKeeps(r) /\ CountKeeps(r)
<1>1. /\ code'[s].state = "gone"
      /\ \A q \in CodeIds \ {s} : code'[q] = code[q]
  BY GoneCode DEF StageInv, AccountsTypeOK
<1>2. QED
  BY <1>1 DEF GuessKeeps, CountKeeps, IsStored

LEMMA CountMissKeeps ==
  ASSUME StageInv, NEW c \in Calls, CountMiss(c), NEW r \in CodeIds
  PROVE  CountKeeps(r) /\ (r # call[c].id => GuessKeeps(r))
<1>1. code \in [CodeIds -> Code]
  BY DEF StageInv, AccountsTypeOK
<1>2. CASE IsStored(call[c].id)
  <2>1. code'[r].state = code[r].state /\ code'[r].email = code[r].email
        /\ (r # call[c].id => code'[r].counted = code[r].counted)
    BY <1>1, <1>2 DEF CountMiss, Code
  <2>2. QED
    BY <2>1 DEF GuessKeeps, CountKeeps, IsStored
<1>3. CASE ~ IsStored(call[c].id)
  BY <1>3, CodesKept DEF CountMiss
<1>4. QED
  BY <1>2, <1>3

\* Every step: only a miss counts a guess, only CountOtp counts a code.
LEMMA CodesOfStep ==
  ASSUME StageInv, [AccountsNext]_accountVars
  PROVE  /\ (\E c \in Calls : CountMiss(c)) \/ \A r \in CodeIds : GuessKeeps(r)
         /\ (\E c \in Calls : CountOtp(c)) \/ \A r \in CodeIds : CountKeeps(r)
<1>1. CASE \E c \in Calls : StoreOtp(c) \/ CountOtp(c) \/ SendOtpEmail(c) \/ CountMiss(c)
  BY <1>1, StoreOtpKeeps, CountOtpKeeps, SendOtpEmailKeeps, CountMissKeeps
<1>2. CASE \E s \in CodeIds : HandleOtpEmail(s) \/ ExpireCode(s)
  BY <1>2, HandleOtpEmailKeeps, GoneKeeps DEF ExpireCode
<1>3. ASSUME NEW c \in Calls, TakeCode(c) PROVE \A r \in CodeIds : GuessKeeps(r) /\ CountKeeps(r)
  <2>1. Stage(c) /\ call[c].pc = "match"
    BY <1>3 DEF StageInv, TakeCode, At
  <2>2. call[c].id \in CodeIds
    BY <2>1 DEF Stage, WithCode
  <2>3. QED
    BY <1>3, <2>2, GoneKeeps DEF TakeCode
<1>4. CASE UNCHANGED code
  BY <1>4, CodesKept
<1>5. CASE \/ \E c \in Calls : \/ ReadRate(c) \/ CheckAttempts(c) \/ ResetRate(c) \/ CreateUser(c)
                               \/ Revoke(c) \/ Renew(c) \/ RequestFails(c) \/ LoseMiss(c)
                               \/ \E e \in Emails : FindByEmail(c, e)
                               \/ \E s \in CodeIds : GetSession(c, s)
                               \/ \E e \in Emails, t \in Tokens : ReadSession(c, e, t)
           \/ \E e \in Emails : Login(e) \/ ExpireAttempts(e) \/ ExpireRate(e) \/ ExpireSession(e)
           \/ UNCHANGED accountVars
  BY <1>4, <1>5 DEF ReadRate, CheckAttempts, ResetRate, CreateUser, Revoke, Renew, RequestFails,
     LoseMiss, FindByEmail, GetSession, ReadSession, Login, ExpireAttempts, ExpireRate, ExpireSession,
     accountVars, otpVars
<1>6. QED
  BY <1>1, <1>2, <1>3, <1>5 DEF AccountsNext

LEMMA CallsAtBound ==
  ASSUME NEW pcs, NEW e
  PROVE  /\ IsFiniteSet(CallsAt(pcs, e))
         /\ Cardinality(CallsAt(pcs, e)) \in Nat
         /\ Cardinality(CallsAt(pcs, e)) <= Cardinality(Calls)
         /\ Cardinality(Calls) \in Nat
<1>1. CallsAt(pcs, e) \in SUBSET Calls
  BY DEF CallsAt
<1>2. /\ IsFiniteSet(CallsAt(pcs, e))
      /\ Cardinality(CallsAt(pcs, e)) <= Cardinality(Calls)
  BY <1>1, CallsAssumption, FS_Subset
<1>3. QED
  BY <1>2, CallsAssumption, FS_CardinalityType

LEMMA CallsAtBoundNext ==
  ASSUME NEW pcs, NEW e
  PROVE  /\ Cardinality(CallsAt(pcs, e)') \in Nat
         /\ Cardinality(CallsAt(pcs, e)') <= Cardinality(Calls)
<1>1. CallsAt(pcs, e)' \in SUBSET Calls
  BY DEF CallsAt
<1>2. /\ IsFiniteSet(CallsAt(pcs, e)')
      /\ Cardinality(CallsAt(pcs, e)') <= Cardinality(Calls)
  BY <1>1, CallsAssumption, FS_Subset
<1>3. QED
  BY <1>2, FS_CardinalityType

LEMMA CallsAtShrink ==
  ASSUME NEW pcs, NEW e, CallsAt(pcs, e)' \subseteq CallsAt(pcs, e)
  PROVE  Cardinality(CallsAt(pcs, e)') <= Cardinality(CallsAt(pcs, e))
BY CallsAtBound, FS_Subset

\* A request that goes on is one fewer.
LEMMA CallsAtLeave ==
  ASSUME NEW pcs, NEW e, NEW c \in CallsAt(pcs, e),
         CallsAt(pcs, e)' \subseteq CallsAt(pcs, e) \ {c}
  PROVE  Cardinality(CallsAt(pcs, e)') <= Cardinality(CallsAt(pcs, e)) - 1
<1>1. /\ IsFiniteSet(CallsAt(pcs, e) \ {c})
      /\ Cardinality(CallsAt(pcs, e) \ {c}) = Cardinality(CallsAt(pcs, e)) - 1
  BY CallsAtBound, FS_RemoveElement
<1>2. Cardinality(CallsAt(pcs, e)') <= Cardinality(CallsAt(pcs, e) \ {c})
  BY <1>1, FS_Subset
<1>3. QED
  BY <1>1, <1>2

LEMMA CallsAtMoves ==
  ASSUME NEW pcs, NEW c, \A d \in Calls \ {c} : call'[d] = call[d],
         c \in Calls =>
           \/ call'[c].pc \notin pcs
           \/ call[c].pc \in pcs /\ call'[c].email = call[c].email,
         NEW e
  PROVE  CallsAt(pcs, e)' \subseteq CallsAt(pcs, e)
BY DEF CallsAt

\* Every step: only CheckAttempts lets a guess pass, only ReadRate a code.
LEMMA CallsOfRequest ==
  ASSUME StageInv, NEW c \in Calls,
         \/ \E e \in Emails : FindByEmail(c, e)
         \/ StoreOtp(c) \/ CountOtp(c) \/ SendOtpEmail(c)
         \/ \E s \in CodeIds : GetSession(c, s)
         \/ TakeCode(c) \/ ResetRate(c) \/ CreateUser(c) \/ CountMiss(c) \/ LoseMiss(c)
         \/ \E e \in Emails, t \in Tokens : ReadSession(c, e, t)
         \/ Revoke(c) \/ Renew(c) \/ RequestFails(c),
         NEW e \in Emails
  PROVE  /\ CallsAt({"miss"}, e)' \subseteq CallsAt({"miss"}, e)
         /\ CallsAt({"store", "count"}, e)' \subseteq CallsAt({"store", "count"}, e)
<1>1. \A d \in Calls \ {c} : call'[d] = call[d]
  BY DEF FindByEmail, StoreOtp, CountOtp, SendOtpEmail, GetSession, TakeCode, CreateUser,
         ResetRate, CountMiss, LoseMiss, ReadSession, Revoke, Renew, RequestFails, Start, Goto,
         Finish,
         StageInv, AccountsTypeOK
<1>2. CASE StoreOtp(c)
  <2>1. Stage(c) /\ call[c].pc = "store"
    BY <1>2 DEF StoreOtp, At, StageInv
  <2>2. call[c].email \in Emails
    BY <2>1 DEF Stage
  <2>3. call'[c].pc = "count" /\ call'[c].email = call[c].email
    BY <1>2, <2>2, StartCall DEF StoreOtp, StageInv
  <2>4. QED
    BY <1>1, <2>1, <2>3, CallsAtMoves
<1>3. CASE ~ StoreOtp(c)
  <2>1. call'[c].pc \notin {"miss", "store", "count"}
    BY <1>3 DEF FindByEmail, CountOtp, SendOtpEmail, GetSession, TakeCode, CreateUser,
         ResetRate, CountMiss, LoseMiss, ReadSession, Revoke, Renew, RequestFails, Start, Goto,
         Finish,
         Idle, StageInv, AccountsTypeOK
  <2>2. QED
    BY <1>1, <2>1, CallsAtMoves
<1>4. QED
  BY <1>2, <1>3

LEMMA CallsOfStep ==
  ASSUME StageInv, [AccountsNext]_accountVars
  PROVE  /\ \/ \E c \in Calls : CheckAttempts(c)
            \/ \A e \in Emails : CallsAt({"miss"}, e)' \subseteq CallsAt({"miss"}, e)
         /\ \/ \E c \in Calls : ReadRate(c)
            \/ \A e \in Emails :
                 CallsAt({"store", "count"}, e)' \subseteq CallsAt({"store", "count"}, e)
<1>1. ASSUME NEW c \in Calls, CheckAttempts(c), NEW e \in Emails
      PROVE  CallsAt({"store", "count"}, e)' \subseteq CallsAt({"store", "count"}, e)
  <2>1. /\ call'[c].pc \in {"idle", "match", "miss"}
        /\ \A d \in Calls \ {c} : call'[d] = call[d]
    BY <1>1, FinishCall, GotoCall DEF CheckAttempts, Compare, StageInv
  <2>2. QED
    BY <2>1, CallsAtMoves
<1>2. ASSUME NEW c \in Calls, ReadRate(c), NEW e \in Emails
      PROVE  CallsAt({"miss"}, e)' \subseteq CallsAt({"miss"}, e)
  <2>1. /\ call'[c].pc \in {"idle", "store"}
        /\ \A d \in Calls \ {c} : call'[d] = call[d]
    BY <1>2, FinishCall, GotoCall DEF ReadRate, StageInv
  <2>2. QED
    BY <2>1, CallsAtMoves
<1>3. CASE UNCHANGED call
  BY <1>3 DEF CallsAt
<1>4. CASE \/ \E s \in CodeIds : HandleOtpEmail(s) \/ ExpireCode(s)
           \/ \E e \in Emails : Login(e) \/ ExpireAttempts(e) \/ ExpireRate(e) \/ ExpireSession(e)
           \/ UNCHANGED accountVars
  BY <1>3, <1>4 DEF HandleOtpEmail, ExpireCode, Login, ExpireAttempts, ExpireRate,
                    ExpireSession, accountVars
<1>5. QED
  BY <1>1, <1>2, <1>4, CallsOfRequest DEF AccountsNext

-----------------------------------------------------------------------------
(* GuessInv *)

\* Steps that count no guess and forget none.
LEMMA QuietGuesses ==
  ASSUME StageInv, AccountsTypeOK', GuessesCounted, \A s \in CodeIds : GuessKeeps(s),
         verified \subseteq verified',
         \A e \in Emails \ verified' : attempts'[e] = attempts[e]
  PROVE  GuessesCounted'
<1> SUFFICES ASSUME NEW s \in CodeIds, IsStored(s)', code'[s].email \notin verified'
             PROVE  code'[s].counted <= attempts'[code'[s].email]
  BY DEF GuessesCounted
<1>1. CASE code'[s].counted = 0 /\ code'[s].email \in Emails
  BY <1>1 DEF AccountsTypeOK
<1>2. CASE IsStored(s) /\ code'[s].email = code[s].email /\ code'[s].counted = code[s].counted
  <2>1. code[s].email \in Emails
    BY <1>2 DEF StageInv, StoredForAddress
  <2>2. code[s].counted <= attempts[code[s].email]
    BY <1>2 DEF GuessesCounted
  <2>3. QED
    BY <1>2, <2>1, <2>2
<1>3. QED
  BY <1>1, <1>2 DEF GuessKeeps

LEMMA CountMissGuesses ==
  ASSUME StageInv, GuessInv, NEW c \in Calls, CountMiss(c)
  PROVE  AttemptsBound' /\ GuessesCounted'
<1>1. Stage(c) /\ call[c].pc = "miss" /\ UNCHANGED verified
  BY DEF StageInv, CountMiss, At
<1>2. call[c].email \in Emails /\ call[c].id \in CodeIds
      /\ (IsStored(call[c].id) => code[call[c].id].email = call[c].email)
  BY <1>1 DEF Stage, WithCode
<1>3. /\ attempts \in [Emails -> Nat]
      /\ attempts'[call[c].email] = attempts[call[c].email] + 1
      /\ \A e \in Emails \ {call[c].email} : attempts'[e] = attempts[e]
  BY <1>2 DEF CountMiss, StageInv, AccountsTypeOK
<1>4. call'[c].pc = "idle" /\ \A d \in Calls \ {c} : call'[d] = call[d]
  BY FinishCall DEF CountMiss, StageInv
<1>5. AttemptsBound'
  <2> SUFFICES ASSUME NEW e \in Emails
               PROVE  attempts'[e] + Cardinality(CallsAt({"miss"}, e)')
                        <= OTP_MAX_VERIFY_ATTEMPTS + Cardinality(Calls)
    BY DEF AttemptsBound
  <2>1. attempts[e] + Cardinality(CallsAt({"miss"}, e))
          <= OTP_MAX_VERIFY_ATTEMPTS + Cardinality(Calls)
    BY DEF GuessInv, AttemptsBound
  <2>2. /\ Cardinality(CallsAt({"miss"}, e)) \in Nat
        /\ Cardinality(CallsAt({"miss"}, e)') \in Nat /\ Cardinality(Calls) \in Nat
    BY CallsAtBound, CallsAtBoundNext
  <2>3. CASE e = call[c].email
    <3>1. c \in CallsAt({"miss"}, e)
      BY <1>1, <2>3 DEF CallsAt
    <3>2. CallsAt({"miss"}, e)' \subseteq CallsAt({"miss"}, e) \ {c}
      BY <1>4 DEF CallsAt
    <3>3. Cardinality(CallsAt({"miss"}, e)') <= Cardinality(CallsAt({"miss"}, e)) - 1
      BY <3>1, <3>2, CallsAtLeave
    <3>4. QED
      BY <1>3, <2>1, <2>2, <2>3, <3>3, AccountLimitsAssumption
  <2>4. CASE e # call[c].email
    <3>1. CallsAt({"miss"}, e)' \subseteq CallsAt({"miss"}, e)
      BY <1>4, CallsAtMoves
    <3>2. Cardinality(CallsAt({"miss"}, e)') <= Cardinality(CallsAt({"miss"}, e))
      BY <3>1, CallsAtShrink
    <3>3. QED
      BY <1>3, <2>1, <2>2, <2>4, <3>2, AccountLimitsAssumption
  <2>5. QED
    BY <2>3, <2>4
<1>6. GuessesCounted'
  <2> SUFFICES ASSUME NEW s \in CodeIds, IsStored(s)', code'[s].email \notin verified'
               PROVE  code'[s].counted <= attempts'[code'[s].email]
    BY DEF GuessesCounted
  <2>1. /\ IsStored(s) /\ code'[s].email = code[s].email
        /\ code'[s].counted = code[s].counted
             \/ (s = call[c].id /\ code'[s].counted = code[s].counted + 1)
    BY DEF CountMiss, IsStored, StageInv, AccountsTypeOK, Code
  <2>2. code[s].email \in Emails
    BY <2>1 DEF StageInv, StoredForAddress
  <2>3. code[s].counted <= attempts[code[s].email]
    BY <1>1, <2>1 DEF GuessInv, GuessesCounted
  <2>4. code[s].counted \in Nat
    BY DEF StageInv, AccountsTypeOK, Code
  <2>5. QED
    BY <1>2, <1>3, <2>1, <2>2, <2>3, <2>4
<1>7. QED
  BY <1>5, <1>6

LEMMA CheckAttemptsGuesses ==
  ASSUME StageInv, GuessInv, NEW c \in Calls, CheckAttempts(c)
  PROVE  AttemptsBound'
<1> SUFFICES ASSUME NEW e \in Emails
             PROVE  attempts'[e] + Cardinality(CallsAt({"miss"}, e)')
                      <= OTP_MAX_VERIFY_ATTEMPTS + Cardinality(Calls)
  BY DEF AttemptsBound
<1>1. UNCHANGED attempts /\ attempts[e] \in Nat /\ OTP_MAX_VERIFY_ATTEMPTS \in Nat
  BY AccountLimitsAssumption DEF CheckAttempts, otpVars, StageInv, AccountsTypeOK
<1>2. attempts[e] + Cardinality(CallsAt({"miss"}, e))
        <= OTP_MAX_VERIFY_ATTEMPTS + Cardinality(Calls)
  BY DEF GuessInv, AttemptsBound
<1>3. /\ Cardinality(CallsAt({"miss"}, e)) \in Nat
      /\ Cardinality(CallsAt({"miss"}, e)') \in Nat /\ Cardinality(Calls) \in Nat
      /\ Cardinality(CallsAt({"miss"}, e)') <= Cardinality(Calls)
  BY CallsAtBound, CallsAtBoundNext
<1>4. CASE attempts[e] <= OTP_MAX_VERIFY_ATTEMPTS
  BY <1>1, <1>3, <1>4
<1>5. CASE attempts[e] > OTP_MAX_VERIFY_ATTEMPTS
  <2>1. /\ \A d \in Calls \ {c} : call'[d] = call[d]
        /\ call'[c].pc \in {"idle", "match", "miss"} /\ (call'[c].pc # "idle" => call'[c].email = call[c].email)
        /\ call[c].email = e => call'[c].pc = "idle"
    BY <1>5, FinishCall, GotoCall DEF CheckAttempts, Compare, StageInv
  <2>2. CallsAt({"miss"}, e)' \subseteq CallsAt({"miss"}, e)
    BY <2>1 DEF CallsAt
  <2>3. Cardinality(CallsAt({"miss"}, e)') <= Cardinality(CallsAt({"miss"}, e))
    BY <2>2, CallsAtShrink
  <2>4. QED
    BY <1>1, <1>2, <1>3, <2>3
<1>6. QED
  BY <1>1, <1>4, <1>5

\* The counter stays or is set to 0.
LEMMA CounterDown ==
  ASSUME StageInv, GuessInv, AccountsTypeOK',
         \A e \in Emails : attempts'[e] \in {0, attempts[e]},
         \A e \in Emails : CallsAt({"miss"}, e)' \subseteq CallsAt({"miss"}, e)
  PROVE  AttemptsBound'
<1> SUFFICES ASSUME NEW e \in Emails
             PROVE  attempts'[e] + Cardinality(CallsAt({"miss"}, e)')
                      <= OTP_MAX_VERIFY_ATTEMPTS + Cardinality(Calls)
  BY DEF AttemptsBound
<1>1. attempts[e] + Cardinality(CallsAt({"miss"}, e))
        <= OTP_MAX_VERIFY_ATTEMPTS + Cardinality(Calls)
  BY DEF GuessInv, AttemptsBound
<1>2. /\ Cardinality(CallsAt({"miss"}, e)) \in Nat
      /\ Cardinality(CallsAt({"miss"}, e)') \in Nat /\ Cardinality(Calls) \in Nat
  BY CallsAtBound, CallsAtBoundNext
<1>3. Cardinality(CallsAt({"miss"}, e)') <= Cardinality(CallsAt({"miss"}, e))
  BY CallsAtShrink
<1>4. attempts[e] \in Nat /\ OTP_MAX_VERIFY_ATTEMPTS \in Nat
  BY AccountLimitsAssumption DEF StageInv, AccountsTypeOK
<1>5. attempts'[e] \in {0, attempts[e]}
  OBVIOUS
<1>6. QED
  BY <1>1, <1>2, <1>3, <1>4, <1>5

LEMMA ExpireAttemptsGuesses ==
  ASSUME StageInv, StageInv', GuessesCounted, NEW e \in Emails, ExpireAttempts(e)
  PROVE  GuessesCounted'
<1> SUFFICES ASSUME NEW s \in CodeIds, IsStored(s), code[s].email \notin verified
             PROVE  code[s].counted <= attempts'[code[s].email]
  BY DEF GuessesCounted, ExpireAttempts, IsStored
<1>1. code[s].email \in Emails /\ attempts \in [Emails -> Nat]
  BY DEF StageInv, StoredForAddress, AccountsTypeOK
<1>2. CASE code[s].email = e
  BY <1>1, <1>2 DEF ExpireAttempts, CodesOf
<1>3. CASE code[s].email # e
  BY <1>1, <1>3 DEF ExpireAttempts, GuessesCounted
<1>4. QED
  BY <1>2, <1>3

\* What the other steps do to the counters of wrong guesses.
LEMMA CountersOfStep ==
  ASSUME StageInv, [AccountsNext]_accountVars
  PROVE  /\ verified \subseteq verified'
         /\ \/ \E c \in Calls : CountMiss(c)
            \/ \A e \in Emails : attempts'[e] \in {0, attempts[e]}
         /\ \/ \E c \in Calls : CountMiss(c)
            \/ \E e \in Emails : ExpireAttempts(e)
            \/ \A e \in Emails \ verified' : attempts'[e] = attempts[e]
<1>1. ASSUME NEW c \in Calls, TakeCode(c)
      PROVE  /\ verified \subseteq verified'
             /\ \A e \in Emails : attempts'[e] \in {0, attempts[e]}
             /\ \A e \in Emails \ verified' : attempts'[e] = attempts[e]
  BY <1>1 DEF TakeCode, StageInv, AccountsTypeOK
<1>2. ASSUME NEW e \in Emails, ExpireAttempts(e)
      PROVE  /\ verified \subseteq verified'
             /\ \A d \in Emails : attempts'[d] \in {0, attempts[d]}
  BY <1>2 DEF ExpireAttempts, StageInv, AccountsTypeOK
<1>3. CASE \E c \in Calls : CountMiss(c)
  BY <1>3 DEF CountMiss
<1>4. CASE \/ \E c \in Calls : \/ StoreOtp(c) \/ CountOtp(c) \/ SendOtpEmail(c)
                               \/ ReadRate(c) \/ CheckAttempts(c) \/ ResetRate(c) \/ CreateUser(c)
                               \/ Revoke(c) \/ Renew(c) \/ RequestFails(c) \/ LoseMiss(c)
                               \/ \E e \in Emails : FindByEmail(c, e)
                               \/ \E s \in CodeIds : GetSession(c, s)
                               \/ \E e \in Emails, t \in Tokens : ReadSession(c, e, t)
           \/ \E s \in CodeIds : HandleOtpEmail(s) \/ ExpireCode(s)
           \/ \E e \in Emails : Login(e) \/ ExpireRate(e) \/ ExpireSession(e)
           \/ UNCHANGED accountVars
  <2>1. UNCHANGED <<attempts, verified>>
    BY <1>4 DEF StoreOtp, CountOtp, SendOtpEmail, ReadRate, CheckAttempts, ResetRate, CreateUser,
       Revoke, Renew, RequestFails, LoseMiss, FindByEmail, GetSession, ReadSession, HandleOtpEmail,
       ExpireCode, Login, ExpireRate, ExpireSession, accountVars, otpVars
  <2>2. QED
    BY <2>1
<1>5. QED
  BY <1>1, <1>2, <1>3, <1>4 DEF AccountsNext

LEMMA GuessNext ==
  ASSUME StageInv, StageInv', GuessInv, [AccountsNext]_accountVars
  PROVE  GuessInv'
<1>1. CASE \E c \in Calls : CountMiss(c)
  BY <1>1, CountMissGuesses DEF GuessInv
<1>2. CASE ~ \E c \in Calls : CountMiss(c)
  <2>1. AttemptsBound'
    <3>1. CASE \E c \in Calls : CheckAttempts(c)
      BY <3>1, CheckAttemptsGuesses
    <3>2. CASE ~ \E c \in Calls : CheckAttempts(c)
      BY <1>2, <3>2, CallsOfStep, CountersOfStep, CounterDown DEF StageInv
    <3>3. QED
      BY <3>1, <3>2
  <2>2. GuessesCounted'
    <3>1. GuessesCounted
      BY DEF GuessInv
    <3>2. CASE \E e \in Emails : ExpireAttempts(e)
      BY <3>1, <3>2, ExpireAttemptsGuesses
    <3>3. CASE ~ \E e \in Emails : ExpireAttempts(e)
      BY <1>2, <3>1, <3>3, CodesOfStep, CountersOfStep, QuietGuesses DEF StageInv
    <3>4. QED
      BY <3>2, <3>3
  <2>3. QED
    BY <2>1, <2>2 DEF GuessInv
<1>3. QED
  BY <1>1, <1>2

LEMMA GuessInit ==
  ASSUME AccountsInit
  PROVE  GuessInv
<1>1. \A e \in Emails : attempts[e] = 0
  BY DEF AccountsInit
<1>2. \A s \in CodeIds : ~ IsStored(s)
  BY DEF AccountsInit, IsStored, NoCode
<1>3. ASSUME NEW e \in Emails
      PROVE  attempts[e] + Cardinality(CallsAt({"miss"}, e))
               <= OTP_MAX_VERIFY_ATTEMPTS + Cardinality(Calls)
  BY <1>1, CallsAtBound, AccountLimitsAssumption
<1>4. QED
  BY <1>2, <1>3 DEF GuessInv, AttemptsBound, GuessesCounted

-----------------------------------------------------------------------------
(* GuessesSplit *)

\* A step that neither compares nor counts a guess of s.
SplitKeeps(s) ==
  /\ Pending(s)' = Pending(s)
  /\ \/ guess'[s].wrong = 0
     \/ /\ IsStored(s) /\ IsStored(s)'
        /\ guess'[s] = guess[s] /\ code'[s].counted = code[s].counted

LEMMA PendingFinite ==
  ASSUME NEW s
  PROVE  /\ IsFiniteSet(Pending(s)) /\ Cardinality(Pending(s)) \in Nat
         /\ Cardinality(Pending(s)') \in Nat
<1>1. Pending(s) \subseteq Calls /\ Pending(s)' \subseteq Calls
  BY DEF Pending
<1>2. QED
  BY <1>1, CallsAssumption, FS_Subset, FS_CardinalityType

LEMMA SplitKept ==
  ASSUME StageInv', GuessesSplit, NEW s \in CodeIds, SplitKeeps(s)
  PROVE  /\ ~ IsStored(s)' => guess'[s].wrong = 0
         /\ IsStored(s)' =>
              guess'[s].wrong <= code'[s].counted + guess'[s].uncounted + Cardinality(Pending(s)')
<1>1. /\ guess'[s].uncounted \in Nat /\ code'[s].counted \in Nat
      /\ Cardinality(Pending(s)') \in Nat
  BY PendingFinite DEF StageInv, AccountsTypeOK, Code
<1>2. CASE guess'[s].wrong = 0
  BY <1>1, <1>2
<1>3. CASE guess'[s].wrong # 0
  BY <1>3 DEF SplitKeeps, GuessesSplit
<1>4. QED
  BY <1>2, <1>3

\* A request at "miss" is one of its code's pending guesses, and of no other's.
LEMMA PendingEnter ==
  ASSUME StageInv, NEW c \in Calls, ~ At(c, "miss"), Goto(c, "miss"),
         NEW s \in CodeIds, s = call[c].id
  PROVE  /\ Cardinality(Pending(s)') = Cardinality(Pending(s)) + 1
         /\ \A r \in CodeIds \ {s} : Pending(r)' = Pending(r)
<1>1. /\ call'[c].pc = "miss" /\ call'[c].id = s
      /\ \A d \in Calls \ {c} : call'[d] = call[d]
  BY GotoCall DEF StageInv
<1>2. Pending(s)' = Pending(s) \cup {c} /\ c \notin Pending(s)
  BY <1>1 DEF Pending, At
<1>3. \A r \in CodeIds \ {s} : Pending(r)' = Pending(r)
  BY <1>1 DEF Pending, At
<1>4. QED
  BY <1>2, <1>3, PendingFinite, FS_AddElement

LEMMA PendingLeave ==
  ASSUME StageInv, NEW c \in Calls, At(c, "miss"), Finish(c),
         NEW s \in CodeIds, s = call[c].id
  PROVE  /\ Cardinality(Pending(s)') = Cardinality(Pending(s)) - 1
         /\ \A r \in CodeIds \ {s} : Pending(r)' = Pending(r)
<1>1. call'[c].pc = "idle" /\ \A d \in Calls \ {c} : call'[d] = call[d]
  BY FinishCall DEF StageInv
<1>2. Pending(s)' = Pending(s) \ {c} /\ c \in Pending(s)
  BY <1>1 DEF Pending, At
<1>3. \A r \in CodeIds \ {s} : Pending(r)' = Pending(r)
  BY <1>1 DEF Pending, At
<1>4. QED
  BY <1>2, <1>3, PendingFinite, FS_RemoveElement

LEMMA PendingStays ==
  ASSUME NEW c, \A d \in Calls \ {c} : call'[d] = call[d],
         c \in Calls => call[c].pc # "miss" /\ call'[c].pc # "miss"
  PROVE  \A s \in CodeIds : Pending(s)' = Pending(s)
BY DEF Pending, At

\* A wrong guess, compared.
LEMMA CheckAttemptsSplit ==
  ASSUME StageInv, StageInv', GuessesSplit, NEW c \in Calls, CheckAttempts(c)
  PROVE  GuessesSplit'
<1>1. /\ Stage(c) /\ call[c].pc \in {"right", "wrong"}
      /\ UNCHANGED code
  BY DEF StageInv, CheckAttempts
<1>2. PICK s \in CodeIds : s = call[c].id
  BY <1>1 DEF Stage, WithCode
<1>3. CASE Goto(c, "miss")
  <2>1. At(c, "wrong")
    BY <1>3, <1>1, FinishCall, GotoCall DEF CheckAttempts, Compare, StageInv, At
  <2>2. Note(s, [guess[s] EXCEPT !.wrong = @ + 1])
    BY <1>2, <1>3, <2>1, FinishCall, GotoCall DEF CheckAttempts, Compare, StageInv, At
  <2>3. /\ Cardinality(Pending(s)') = Cardinality(Pending(s)) + 1
        /\ \A r \in CodeIds \ {s} : Pending(r)' = Pending(r)
    BY <1>1, <1>2, <1>3, PendingEnter DEF At
  <2>4. /\ \A r \in CodeIds \ {s} : guess'[r] = guess[r]
        /\ ~ IsStored(s) => guess'[s] = guess[s]
        /\ IsStored(s) => guess'[s].wrong = guess[s].wrong + 1
                          /\ guess'[s].uncounted = guess[s].uncounted
    BY <1>2, <2>2 DEF Note, StageInv, AccountsTypeOK
  <2>5. /\ guess[s].wrong \in Nat /\ guess[s].uncounted \in Nat /\ code[s].counted \in Nat
        /\ Cardinality(Pending(s)) \in Nat
    BY <1>2, PendingFinite DEF StageInv, AccountsTypeOK, Code
  <2>6. IsStored(s) => guess'[s].wrong <= code'[s].counted + guess'[s].uncounted
                                            + Cardinality(Pending(s)')
    <3>1. SUFFICES ASSUME IsStored(s)
                   PROVE guess'[s].wrong <= code'[s].counted + guess'[s].uncounted
                                            + Cardinality(Pending(s)')
      OBVIOUS
    <3>2. guess[s].wrong <= code[s].counted + guess[s].uncounted + Cardinality(Pending(s))
      BY <1>2, <3>1 DEF GuessesSplit
    <3>3. code'[s].counted = code[s].counted
      BY <1>1
    <3>4. QED
      BY <2>3, <2>4, <2>5, <3>1, <3>2, <3>3
  <2>7. /\ IsStored(s)' <=> IsStored(s)
        /\ ~ IsStored(s) => guess'[s].wrong = 0
    BY <1>1, <1>2, <2>4 DEF GuessesSplit, IsStored
  <2>8. \A r \in CodeIds \ {s} : SplitKeeps(r)
    BY <1>1, <2>3, <2>4 DEF SplitKeeps, GuessesSplit, IsStored
  <2>9. QED
    BY <2>6, <2>7, <2>8, SplitKept DEF GuessesSplit
<1>4. CASE ~ Goto(c, "miss")
  <2>1. UNCHANGED guess /\ (Finish(c) \/ Goto(c, "match"))
    BY <1>4 DEF CheckAttempts, Compare
  <2>2. call'[c].pc # "miss" /\ \A d \in Calls \ {c} : call'[d] = call[d]
    BY <2>1, FinishCall, GotoCall DEF StageInv
  <2>3. \A r \in CodeIds : Pending(r)' = Pending(r)
    BY <1>1, <2>2, PendingStays
  <2>4. QED
    BY <1>1, <2>1, <2>3 DEF GuessesSplit, IsStored
<1>5. QED
  BY <1>3, <1>4

\* A guess that was pending is counted, or lost.
LEMMA MissSplit ==
  ASSUME StageInv, StageInv', GuessesSplit, NEW c \in Calls, CountMiss(c) \/ LoseMiss(c)
  PROVE  GuessesSplit'
<1>1. Stage(c) /\ At(c, "miss") /\ Finish(c)
  BY DEF StageInv, CountMiss, LoseMiss
<1>2. PICK s \in CodeIds : s = call[c].id
  BY <1>1 DEF Stage, WithCode, At
<1>3. /\ Cardinality(Pending(s)') = Cardinality(Pending(s)) - 1
      /\ \A r \in CodeIds \ {s} : Pending(r)' = Pending(r)
  BY <1>1, <1>2, PendingLeave
<1>4. \A r \in CodeIds \ {s} : guess'[r] = guess[r] /\ code'[r] = code[r]
  BY <1>2 DEF CountMiss, LoseMiss, Note, StageInv, AccountsTypeOK
<1>5. guess'[s].wrong = guess[s].wrong /\ (IsStored(s)' <=> IsStored(s))
  <2>1. CASE CountMiss(c)
    BY <1>2, <2>1 DEF CountMiss, StageInv, AccountsTypeOK, Code, IsStored
  <2>2. CASE LoseMiss(c)
    BY <1>2, <2>2 DEF LoseMiss, Note, StageInv, AccountsTypeOK, IsStored
  <2>3. QED
    BY <2>1, <2>2
<1>6. IsStored(s) => code'[s].counted + guess'[s].uncounted
                       = code[s].counted + guess[s].uncounted + 1
  <2>1. guess[s].uncounted \in Nat /\ code[s].counted \in Nat
    BY <1>2 DEF StageInv, AccountsTypeOK, Code
  <2>2. CASE CountMiss(c)
    BY <1>2, <2>1, <2>2 DEF CountMiss, StageInv, AccountsTypeOK, Code
  <2>3. CASE LoseMiss(c)
    BY <1>2, <2>1, <2>3 DEF LoseMiss, Note, StageInv, AccountsTypeOK, Code
  <2>4. QED
    BY <2>2, <2>3
<1>7. /\ guess[s].wrong \in Nat /\ code'[s].counted \in Nat /\ guess'[s].uncounted \in Nat
      /\ code[s].counted \in Nat /\ guess[s].uncounted \in Nat
      /\ Cardinality(Pending(s)) \in Nat
  BY <1>2, PendingFinite DEF StageInv, AccountsTypeOK, Code
<1>8. IsStored(s)' => guess'[s].wrong <= code'[s].counted + guess'[s].uncounted
                                           + Cardinality(Pending(s)')
  <2>1. SUFFICES ASSUME IsStored(s)
                 PROVE guess'[s].wrong <= code'[s].counted + guess'[s].uncounted
                                           + Cardinality(Pending(s)')
    BY <1>5
  <2>2. guess[s].wrong <= code[s].counted + guess[s].uncounted + Cardinality(Pending(s))
    BY <1>2, <2>1 DEF GuessesSplit
  <2>3. QED
    BY <1>3, <1>5, <1>6, <1>7, <2>1, <2>2
<1>9. ~ IsStored(s)' => guess'[s].wrong = 0
  BY <1>2, <1>5 DEF GuessesSplit
<1>10. \A r \in CodeIds \ {s} : SplitKeeps(r)
  BY <1>3, <1>4 DEF SplitKeeps, GuessesSplit, IsStored
<1>11. QED
  BY <1>8, <1>9, <1>10, SplitKept DEF GuessesSplit

\* The other steps.
LEMMA StoreOtpSplit ==
  ASSUME StageInv, GuessesSplit, NEW c \in Calls, StoreOtp(c), NEW r \in CodeIds
  PROVE  SplitKeeps(r)
<1>1. call[c].pc = "store" /\ Stage(c) /\ UNCHANGED guess
  BY DEF StoreOtp, At, StageInv
<1>2. PICK s \in CodeIds :
        /\ code[s].state = "unused"
        /\ code' = [code EXCEPT ![s] = [state |-> "stored", email |-> call[c].email, counted |-> 0]]
        /\ Start(c, "count", call[c].email, s)
  BY DEF StoreOtp
<1>3. call[c].email \in Emails
  BY <1>1 DEF Stage
<1>4. call'[c].pc = "count" /\ \A d \in Calls \ {c} : call'[d] = call[d]
  BY <1>2, <1>3, StartCall DEF StageInv
<1>5. Pending(r)' = Pending(r)
  BY <1>1, <1>4, PendingStays
<1>6. CASE r = s
  BY <1>1, <1>2, <1>5, <1>6 DEF SplitKeeps, GuessesSplit, IsStored
<1>7. CASE r # s
  <2>1. code'[r] = code[r]
    BY <1>2, <1>7 DEF StageInv, AccountsTypeOK
  <2>2. QED
    BY <1>1, <1>5, <2>1 DEF SplitKeeps, GuessesSplit, IsStored
<1>8. QED
  BY <1>6, <1>7

\* A code that moves on with its count, or ends with it.
LEMMA CodeSplit ==
  ASSUME StageInv, GuessesSplit, NEW r \in CodeIds, Pending(r)' = Pending(r),
         \/ UNCHANGED guess /\ code'[r].counted = code[r].counted
            /\ (IsStored(r)' <=> IsStored(r))
         \/ \E s \in CodeIds : Forget(s) /\ code' = [code EXCEPT ![s] = NoCode("gone")]
  PROVE  SplitKeeps(r)
<1>1. CASE /\ UNCHANGED guess /\ code'[r].counted = code[r].counted
           /\ (IsStored(r)' <=> IsStored(r))
  BY <1>1 DEF SplitKeeps, GuessesSplit
<1>2. ASSUME NEW s \in CodeIds, Forget(s), code' = [code EXCEPT ![s] = NoCode("gone")]
      PROVE  SplitKeeps(r)
  <2>1. CASE r = s
    BY <1>2, <2>1 DEF SplitKeeps, Forget, NoGuesses, StageInv, AccountsTypeOK
  <2>2. CASE r # s
    <3>1. guess'[r] = guess[r] /\ code'[r] = code[r]
      BY <1>2, <2>2 DEF Forget, StageInv, AccountsTypeOK
    <3>2. QED
      BY <3>1 DEF SplitKeeps, GuessesSplit, IsStored
  <2>3. QED
    BY <2>1, <2>2
<1>3. QED
  BY <1>1, <1>2

LEMMA MovesSplit ==
  ASSUME StageInv, NEW r \in CodeIds,
         \/ \E c \in Calls : CountOtp(c) \/ SendOtpEmail(c)
         \/ \E s \in CodeIds : HandleOtpEmail(s)
  PROVE  /\ code'[r].counted = code[r].counted
         /\ IsStored(r)' <=> IsStored(r)
<1>1. code \in [CodeIds -> Code]
  BY DEF StageInv, AccountsTypeOK
<1>2. CASE \E c \in Calls : CountOtp(c)
  BY <1>1, <1>2 DEF CountOtp, IsStored, Code
<1>3. CASE \E c \in Calls : SendOtpEmail(c)
  BY <1>1, <1>3 DEF SendOtpEmail, IsStored, Code
<1>4. CASE \E s \in CodeIds : HandleOtpEmail(s)
  BY <1>1, <1>4 DEF HandleOtpEmail, IsStored, Code
<1>5. QED
  BY <1>2, <1>3, <1>4

LEMMA RequestPending ==
  ASSUME StageInv, NEW c \in Calls, NEW r \in CodeIds,
         \/ \E e \in Emails : FindByEmail(c, e)
         \/ ReadRate(c) \/ CountOtp(c) \/ SendOtpEmail(c)
         \/ \E s \in CodeIds : GetSession(c, s)
         \/ TakeCode(c) \/ ResetRate(c) \/ CreateUser(c)
         \/ \E e \in Emails, t \in Tokens : ReadSession(c, e, t)
         \/ Revoke(c) \/ Renew(c) \/ RequestFails(c)
  PROVE  Pending(r)' = Pending(r)
<1>1. /\ \A d \in Calls \ {c} : call'[d] = call[d]
      /\ call'[c].pc # "miss"
  BY DEF FindByEmail, ReadRate, CountOtp, SendOtpEmail, GetSession, TakeCode, CreateUser,
         ResetRate, ReadSession, Revoke, Renew, RequestFails, Start, Goto, Finish, Idle,
         StageInv, AccountsTypeOK
<1>2. call[c].pc # "miss"
  BY DEF FindByEmail, ReadRate, CountOtp, SendOtpEmail, GetSession, TakeCode, CreateUser,
         ResetRate, ReadSession, Revoke, Renew, RequestFails, At, Idle
<1>3. QED
  BY <1>1, <1>2, PendingStays

LEMMA SplitOfStep ==
  ASSUME StageInv, GuessesSplit, [AccountsNext]_accountVars, NEW r \in CodeIds
  PROVE  \/ \E c \in Calls : CheckAttempts(c) \/ CountMiss(c) \/ LoseMiss(c)
         \/ SplitKeeps(r)
<1>1. CASE \E c \in Calls : StoreOtp(c)
  BY <1>1, StoreOtpSplit
<1>2. CASE \/ \E c \in Calls : CountOtp(c) \/ SendOtpEmail(c)
           \/ \E s \in CodeIds : HandleOtpEmail(s)
  <2>1. UNCHANGED guess
    BY <1>2 DEF CountOtp, SendOtpEmail, HandleOtpEmail
  <2>2. Pending(r)' = Pending(r)
    BY <1>2, RequestPending DEF HandleOtpEmail, Pending, At
  <2>3. QED
    BY <1>2, <2>1, <2>2, MovesSplit, CodeSplit
<1>3. ASSUME NEW c \in Calls, TakeCode(c) PROVE SplitKeeps(r)
  <2>1. Stage(c) /\ call[c].pc = "match"
    BY <1>3 DEF StageInv, TakeCode, At
  <2>2. call[c].id \in CodeIds
    BY <2>1 DEF Stage, WithCode
  <2>3. QED
    BY <1>3, <2>2, RequestPending, CodeSplit DEF TakeCode
<1>4. CASE \E s \in CodeIds : ExpireCode(s)
  BY <1>4, CodeSplit DEF ExpireCode, Pending, At
<1>5. CASE \E c \in Calls : \/ ReadRate(c) \/ ResetRate(c) \/ CreateUser(c)
                            \/ Revoke(c) \/ Renew(c) \/ RequestFails(c)
                            \/ \E e \in Emails : FindByEmail(c, e)
                            \/ \E s \in CodeIds : GetSession(c, s)
                            \/ \E e \in Emails, t \in Tokens : ReadSession(c, e, t)
  <2>1. UNCHANGED <<code, guess>>
    BY <1>5 DEF ReadRate, ResetRate, CreateUser, Revoke, Renew, RequestFails, FindByEmail,
                GetSession, ReadSession, otpVars
  <2>2. Pending(r)' = Pending(r)
    BY <1>5, RequestPending
  <2>3. QED
    BY <2>1, <2>2, CodeSplit DEF IsStored
<1>6. CASE \/ \E e \in Emails : Login(e) \/ ExpireAttempts(e) \/ ExpireRate(e) \/ ExpireSession(e)
           \/ UNCHANGED accountVars
  <2>1. UNCHANGED <<code, guess, call>>
    BY <1>6 DEF Login, ExpireAttempts, ExpireRate, ExpireSession, accountVars, otpVars
  <2>2. QED
    BY <2>1, CodeSplit DEF IsStored, Pending, At
<1>7. QED
  BY <1>1, <1>2, <1>3, <1>4, <1>5, <1>6 DEF AccountsNext

LEMMA SplitNext ==
  ASSUME StageInv, StageInv', GuessesSplit, [AccountsNext]_accountVars
  PROVE  GuessesSplit'
<1>1. CASE \E c \in Calls : CheckAttempts(c) \/ CountMiss(c) \/ LoseMiss(c)
  BY <1>1, CheckAttemptsSplit, MissSplit
<1>2. CASE ~ \E c \in Calls : CheckAttempts(c) \/ CountMiss(c) \/ LoseMiss(c)
  <2>1. ASSUME NEW s \in CodeIds PROVE SplitKeeps(s)
    BY <1>2, <2>1, SplitOfStep
  <2>2. QED
    BY <2>1, SplitKept DEF GuessesSplit
<1>3. QED
  BY <1>1, <1>2

\* Wrong guesses of a code, counted or not, are at most OTP_MAX_VERIFY_ATTEMPTS,
\* the requests that can pass the check together, and the guesses whose INCR
\* failed, however slowly they are made, as long as no code of the address was
\* right.
THEOREM GuessesAreBounded == AccountsSpec => []GuessesBounded
<1>1. AccountsInit => GuessInv /\ GuessesSplit
  BY GuessInit DEF AccountsInit, GuessesSplit, NoCode, NoGuesses, IsStored
<1>2. StageInv /\ StageInv' /\ GuessInv /\ [AccountsNext]_accountVars => GuessInv'
  BY GuessNext
<1>3. StageInv /\ StageInv' /\ GuessesSplit /\ [AccountsNext]_accountVars => GuessesSplit'
  BY SplitNext
<1>4. StageInv /\ GuessInv /\ GuessesSplit => GuessesBounded
  <2> SUFFICES ASSUME StageInv, GuessInv, GuessesSplit, NEW s \in CodeIds,
                      IsStored(s), code[s].email \notin verified
               PROVE  guess[s].wrong
                        <= OTP_MAX_VERIFY_ATTEMPTS + Cardinality(Calls) + guess[s].uncounted
    BY DEF GuessesBounded
  <2>1. /\ code[s].email \in Emails /\ code[s].counted \in Nat /\ attempts \in [Emails -> Nat]
        /\ guess[s].wrong \in Nat /\ guess[s].uncounted \in Nat
    BY DEF StageInv, StoredForAddress, AccountsTypeOK, Code
  <2>2. code[s].counted <= attempts[code[s].email]
    BY DEF GuessInv, GuessesCounted
  <2>3. attempts[code[s].email] + Cardinality(CallsAt({"miss"}, code[s].email))
          <= OTP_MAX_VERIFY_ATTEMPTS + Cardinality(Calls)
    BY <2>1 DEF GuessInv, AttemptsBound
  <2>4. guess[s].wrong <= code[s].counted + guess[s].uncounted + Cardinality(Pending(s))
    BY DEF GuessesSplit
  <2>5. Pending(s) \subseteq CallsAt({"miss"}, code[s].email)
    BY DEF Pending, CallsAt, At, StageInv, Stage, WithCode
  <2>6. Cardinality(Pending(s)) <= Cardinality(CallsAt({"miss"}, code[s].email))
    BY <2>5, CallsAtBound, FS_Subset
  <2>7. /\ Cardinality(CallsAt({"miss"}, code[s].email)) \in Nat /\ Cardinality(Calls) \in Nat
        /\ Cardinality(Pending(s)) \in Nat
    BY CallsAtBound, PendingFinite
  <2>8. QED
    BY <2>1, <2>2, <2>3, <2>4, <2>6, <2>7, AccountLimitsAssumption
<1>5. QED
  BY <1>1, <1>2, <1>3, <1>4, StageAlways, PTL DEF AccountsSpec

-----------------------------------------------------------------------------
(* RateInv *)

\* A step that counts no code of e leaves no more of them.
LEMMA CountedShrink ==
  ASSUME NEW e, IsFiniteSet(CountedCodes(e)), \A s \in CodeIds : CountKeeps(s)
  PROVE  /\ IsFiniteSet(CountedCodes(e)')
         /\ Cardinality(CountedCodes(e)') <= Cardinality(CountedCodes(e))
<1>1. CountedCodes(e)' \subseteq CountedCodes(e)
  BY DEF CountedCodes, CodesOf, CountKeeps, IsStored
<1>2. QED
  BY <1>1, FS_Subset

LEMMA CountOtpRate ==
  ASSUME StageInv, RateInv, NEW c \in Calls, CountOtp(c)
  PROVE  RateInv'
<1>1. Stage(c) /\ call[c].pc = "count" /\ UNCHANGED verified
  BY DEF StageInv, CountOtp, At
<1>2. call[c].email \in Emails /\ call[c].id \in CodeIds
  BY <1>1 DEF Stage, WithCode
<1>3. /\ rate \in [Emails -> Nat]
      /\ rate'[call[c].email] = rate[call[c].email] + 1
      /\ \A e \in Emails \ {call[c].email} : rate'[e] = rate[e]
  BY <1>2 DEF CountOtp, StageInv, AccountsTypeOK
<1>4. call'[c].pc = "send" /\ \A d \in Calls \ {c} : call'[d] = call[d]
  BY GotoCall DEF CountOtp, StageInv
<1>5. RateBound'
  <2> SUFFICES ASSUME NEW e \in Emails
               PROVE  rate'[e] + Cardinality(CallsAt({"store", "count"}, e)')
                        < RATE_MAX + Cardinality(Calls)
    BY DEF RateBound
  <2>1. rate[e] + Cardinality(CallsAt({"store", "count"}, e)) < RATE_MAX + Cardinality(Calls)
    BY DEF RateInv, RateBound
  <2>2. /\ Cardinality(CallsAt({"store", "count"}, e)) \in Nat
        /\ Cardinality(CallsAt({"store", "count"}, e)') \in Nat /\ Cardinality(Calls) \in Nat
    BY CallsAtBound, CallsAtBoundNext
  <2>3. CASE e = call[c].email
    <3>1. c \in CallsAt({"store", "count"}, e)
      BY <1>1, <2>3 DEF CallsAt
    <3>2. CallsAt({"store", "count"}, e)' \subseteq CallsAt({"store", "count"}, e) \ {c}
      BY <1>4 DEF CallsAt
    <3>3. Cardinality(CallsAt({"store", "count"}, e)')
            <= Cardinality(CallsAt({"store", "count"}, e)) - 1
      BY <3>1, <3>2, CallsAtLeave
    <3>4. QED
      BY <1>3, <2>1, <2>2, <2>3, <3>3, AccountLimitsAssumption
  <2>4. CASE e # call[c].email
    <3>1. CallsAt({"store", "count"}, e)' \subseteq CallsAt({"store", "count"}, e)
      BY <1>4, CallsAtMoves
    <3>2. Cardinality(CallsAt({"store", "count"}, e)')
            <= Cardinality(CallsAt({"store", "count"}, e))
      BY <3>1, CallsAtShrink
    <3>3. QED
      BY <1>3, <2>1, <2>2, <2>4, <3>2, AccountLimitsAssumption
  <2>5. QED
    BY <2>3, <2>4
<1>6. CodesCounted'
  <2> SUFFICES ASSUME NEW e \in Emails \ verified
               PROVE  /\ IsFiniteSet(CountedCodes(e)')
                      /\ Cardinality(CountedCodes(e)') <= rate'[e]
    BY <1>1 DEF CodesCounted
  <2>1. IsFiniteSet(CountedCodes(e)) /\ Cardinality(CountedCodes(e)) <= rate[e]
    BY DEF RateInv, CodesCounted
  <2>2. \A r \in CodeIds \ {call[c].id} : CountKeeps(r)
    BY CountOtpKeeps
  <2>3. CASE e = call[c].email
    <3>1. CountedCodes(e)' \subseteq CountedCodes(e) \cup {call[c].id}
      BY <2>2 DEF CountedCodes, CodesOf, CountKeeps, IsStored
    <3>2. /\ IsFiniteSet(CountedCodes(e) \cup {call[c].id})
          /\ Cardinality(CountedCodes(e) \cup {call[c].id}) <= Cardinality(CountedCodes(e)) + 1
          /\ Cardinality(CountedCodes(e)) \in Nat
      <4>1. Cardinality(CountedCodes(e)) \in Nat
        BY <2>1, FS_CardinalityType
      <4>2. /\ IsFiniteSet(CountedCodes(e) \cup {call[c].id})
            /\ Cardinality(CountedCodes(e) \cup {call[c].id}) =
                 IF call[c].id \in CountedCodes(e) THEN Cardinality(CountedCodes(e))
                 ELSE Cardinality(CountedCodes(e)) + 1
        BY <2>1, FS_AddElement
      <4>3. QED
        BY <4>1, <4>2
    <3>3. /\ IsFiniteSet(CountedCodes(e)')
          /\ Cardinality(CountedCodes(e)') <= Cardinality(CountedCodes(e) \cup {call[c].id})
      BY <3>1, <3>2, FS_Subset
    <3>4. Cardinality(CountedCodes(e)') \in Nat
          /\ Cardinality(CountedCodes(e) \cup {call[c].id}) \in Nat
      BY <3>2, <3>3, FS_CardinalityType
    <3>5. QED
      BY <1>3, <2>1, <2>3, <3>2, <3>3, <3>4
  <2>4. CASE e # call[c].email
    <3>1. call[c].id \notin CountedCodes(e)'
      BY <1>1, <1>2, <2>4 DEF CountOtp, CountedCodes, CodesOf, IsStored, Stage, WithCode,
                              StageInv, AccountsTypeOK, Code
    <3>2. CountedCodes(e)' \subseteq CountedCodes(e)
      BY <2>2, <3>1 DEF CountedCodes, CodesOf, CountKeeps, IsStored
    <3>3. /\ IsFiniteSet(CountedCodes(e)')
          /\ Cardinality(CountedCodes(e)') <= Cardinality(CountedCodes(e))
      BY <2>1, <3>2, FS_Subset
    <3>4. Cardinality(CountedCodes(e)') \in Nat /\ Cardinality(CountedCodes(e)) \in Nat
      BY <2>1, <3>3, FS_CardinalityType
    <3>5. QED
      BY <1>3, <2>1, <2>4, <3>3, <3>4
  <2>5. QED
    BY <2>3, <2>4
<1>7. QED
  BY <1>5, <1>6 DEF RateInv

LEMMA ReadRateBound ==
  ASSUME StageInv, RateBound, NEW c \in Calls, ReadRate(c)
  PROVE  RateBound'
<1> SUFFICES ASSUME NEW e \in Emails
             PROVE  rate'[e] + Cardinality(CallsAt({"store", "count"}, e)')
                      < RATE_MAX + Cardinality(Calls)
  BY DEF RateBound
<1>1. UNCHANGED rate /\ rate[e] \in Nat /\ RATE_MAX \in Nat
  BY AccountLimitsAssumption DEF ReadRate, otpVars, StageInv, AccountsTypeOK
<1>2. rate[e] + Cardinality(CallsAt({"store", "count"}, e)) < RATE_MAX + Cardinality(Calls)
  BY DEF RateBound
<1>3. /\ Cardinality(CallsAt({"store", "count"}, e)) \in Nat
      /\ Cardinality(CallsAt({"store", "count"}, e)') \in Nat /\ Cardinality(Calls) \in Nat
      /\ Cardinality(CallsAt({"store", "count"}, e)') <= Cardinality(Calls)
  BY CallsAtBound, CallsAtBoundNext
<1>4. CASE rate[e] < RATE_MAX
  BY <1>1, <1>3, <1>4
<1>5. CASE rate[e] >= RATE_MAX
  <2>1. /\ \A d \in Calls \ {c} : call'[d] = call[d]
        /\ call'[c].pc \in {"idle", "store"}
        /\ call'[c].pc # "idle" => call'[c].email = call[c].email
        /\ call[c].email = e => call'[c].pc = "idle"
    BY <1>5, FinishCall, GotoCall DEF ReadRate, StageInv
  <2>2. CallsAt({"store", "count"}, e)' \subseteq CallsAt({"store", "count"}, e)
    BY <2>1 DEF CallsAt
  <2>3. Cardinality(CallsAt({"store", "count"}, e)')
          <= Cardinality(CallsAt({"store", "count"}, e))
    BY <2>2, CallsAtShrink
  <2>4. QED
    BY <1>1, <1>2, <1>3, <2>3
<1>6. QED
  BY <1>1, <1>4, <1>5

LEMMA RateDown ==
  ASSUME StageInv, RateBound, AccountsTypeOK',
         \A e \in Emails : rate'[e] \in {0, rate[e]},
         \A e \in Emails : CallsAt({"store", "count"}, e)' \subseteq CallsAt({"store", "count"}, e)
  PROVE  RateBound'
<1> SUFFICES ASSUME NEW e \in Emails
             PROVE  rate'[e] + Cardinality(CallsAt({"store", "count"}, e)')
                      < RATE_MAX + Cardinality(Calls)
  BY DEF RateBound
<1>1. rate[e] + Cardinality(CallsAt({"store", "count"}, e)) < RATE_MAX + Cardinality(Calls)
  BY DEF RateBound
<1>2. /\ Cardinality(CallsAt({"store", "count"}, e)) \in Nat
      /\ Cardinality(CallsAt({"store", "count"}, e)') \in Nat /\ Cardinality(Calls) \in Nat
  BY CallsAtBound, CallsAtBoundNext
<1>3. Cardinality(CallsAt({"store", "count"}, e)') <= Cardinality(CallsAt({"store", "count"}, e))
  BY CallsAtShrink
<1>4. rate[e] \in Nat /\ RATE_MAX \in Nat
  BY AccountLimitsAssumption DEF StageInv, AccountsTypeOK
<1>5. rate'[e] \in {0, rate[e]}
  OBVIOUS
<1>6. QED
  BY <1>1, <1>2, <1>3, <1>4, <1>5

\* The rate ends only when the codes it counted have.
LEMMA ExpireRateCounted ==
  ASSUME StageInv, CodesCounted, NEW e \in Emails, ExpireRate(e)
  PROVE  CodesCounted'
<1> SUFFICES ASSUME NEW d \in Emails \ verified
             PROVE  /\ IsFiniteSet(CountedCodes(d)')
                    /\ Cardinality(CountedCodes(d)') <= rate'[d]
  BY DEF CodesCounted, ExpireRate
<1>1. CountedCodes(d)' = CountedCodes(d)
  BY DEF ExpireRate, CountedCodes, CodesOf, IsStored
<1>2. rate \in [Emails -> Nat]
  BY DEF StageInv, AccountsTypeOK
<1>3. CASE d = e
  <2>1. CountedCodes(d) = {}
    BY <1>3 DEF ExpireRate, CountedCodes
  <2>2. rate'[d] = 0
    BY <1>2, <1>3 DEF ExpireRate
  <2>3. QED
    BY <1>1, <2>1, <2>2, FS_EmptySet
<1>4. CASE d # e
  <2>1. rate'[d] = rate[d]
    BY <1>2, <1>4 DEF ExpireRate
  <2>2. QED
    BY <1>1, <2>1 DEF CodesCounted
<1>5. QED
  BY <1>3, <1>4

LEMMA QuietRates ==
  ASSUME StageInv, CodesCounted, \A s \in CodeIds : CountKeeps(s),
         verified \subseteq verified',
         \A e \in Emails \ verified' : rate'[e] = rate[e]
  PROVE  CodesCounted'
<1> SUFFICES ASSUME NEW e \in Emails \ verified'
             PROVE  /\ IsFiniteSet(CountedCodes(e)')
                    /\ Cardinality(CountedCodes(e)') <= rate'[e]
  BY DEF CodesCounted
<1>1. /\ IsFiniteSet(CountedCodes(e)) /\ Cardinality(CountedCodes(e)) <= rate[e]
      /\ rate[e] \in Nat /\ rate'[e] = rate[e]
  BY DEF CodesCounted, StageInv, AccountsTypeOK
<1>2. /\ IsFiniteSet(CountedCodes(e)')
      /\ Cardinality(CountedCodes(e)') <= Cardinality(CountedCodes(e))
  BY <1>1, CountedShrink
<1>3. Cardinality(CountedCodes(e)') \in Nat /\ Cardinality(CountedCodes(e)) \in Nat
  BY <1>1, <1>2, FS_CardinalityType
<1>4. QED
  BY <1>1, <1>2, <1>3

LEMMA RatesOfStep ==
  ASSUME StageInv, [AccountsNext]_accountVars
  PROVE  /\ \/ \E c \in Calls : CountOtp(c)
            \/ \A e \in Emails : rate'[e] \in {0, rate[e]}
         /\ \/ \E c \in Calls : CountOtp(c)
            \/ \E e \in Emails : ExpireRate(e)
            \/ \A e \in Emails \ verified' : rate'[e] = rate[e]
<1>1. ASSUME NEW c \in Calls, ResetRate(c)
      PROVE  /\ \A e \in Emails : rate'[e] \in {0, rate[e]}
             /\ \A e \in Emails \ verified' : rate'[e] = rate[e]
  <2>1. Stage(c) /\ call[c].pc = "reset"
    BY <1>1 DEF StageInv, ResetRate, At
  <2>2. call[c].email \in verified
    BY <2>1 DEF Stage
  <2>3. QED
    BY <1>1, <2>2 DEF ResetRate, StageInv, AccountsTypeOK
<1>2. ASSUME NEW e \in Emails, ExpireRate(e)
      PROVE  \A d \in Emails : rate'[d] \in {0, rate[d]}
  BY <1>2 DEF ExpireRate, StageInv, AccountsTypeOK
<1>3. CASE \/ \E c \in Calls : \/ StoreOtp(c) \/ TakeCode(c) \/ SendOtpEmail(c) \/ CountMiss(c)
                               \/ ReadRate(c) \/ CheckAttempts(c) \/ CreateUser(c)
                               \/ Revoke(c) \/ Renew(c) \/ RequestFails(c) \/ LoseMiss(c)
                               \/ \E e \in Emails : FindByEmail(c, e)
                               \/ \E s \in CodeIds : GetSession(c, s)
                               \/ \E e \in Emails, t \in Tokens : ReadSession(c, e, t)
           \/ \E s \in CodeIds : HandleOtpEmail(s) \/ ExpireCode(s)
           \/ \E e \in Emails : Login(e) \/ ExpireAttempts(e) \/ ExpireSession(e)
           \/ UNCHANGED accountVars
  <2>1. UNCHANGED rate
    BY <1>3 DEF StoreOtp, TakeCode, SendOtpEmail, CountMiss, ReadRate, CheckAttempts, CreateUser,
       Revoke, Renew, RequestFails, LoseMiss, FindByEmail, GetSession, ReadSession, HandleOtpEmail,
       ExpireCode, Login, ExpireAttempts, ExpireSession, accountVars, otpVars
  <2>2. QED
    BY <2>1
<1>4. QED
  BY <1>1, <1>2, <1>3 DEF AccountsNext

LEMMA RateNext ==
  ASSUME StageInv, StageInv', RateInv, [AccountsNext]_accountVars
  PROVE  RateInv'
<1>1. CASE \E c \in Calls : CountOtp(c)
  BY <1>1, CountOtpRate
<1>2. CASE ~ \E c \in Calls : CountOtp(c)
  <2>1. RateBound'
    <3>1. CASE \E c \in Calls : ReadRate(c)
      BY <3>1, ReadRateBound DEF RateInv
    <3>2. CASE ~ \E c \in Calls : ReadRate(c)
      BY <1>2, <3>2, CallsOfStep, RatesOfStep, RateDown DEF StageInv, RateInv
    <3>3. QED
      BY <3>1, <3>2
  <2>2. CodesCounted'
    <3>1. CASE \E e \in Emails : ExpireRate(e)
      BY <3>1, ExpireRateCounted DEF RateInv
    <3>2. CASE ~ \E e \in Emails : ExpireRate(e)
      BY <1>2, <3>2, CodesOfStep, CountersOfStep, RatesOfStep, QuietRates DEF RateInv
    <3>3. QED
      BY <3>1, <3>2
  <2>3. QED
    BY <2>1, <2>2 DEF RateInv
<1>3. QED
  BY <1>1, <1>2

LEMMA RateInit ==
  ASSUME AccountsInit
  PROVE  RateInv
<1>1. \A e \in Emails : rate[e] = 0 /\ CountedCodes(e) = {}
  BY DEF AccountsInit, CountedCodes, CodesOf, IsStored, NoCode
<1>2. \A c \in Calls : call[c].pc = "idle"
  BY DEF AccountsInit, Idle
<1>3. ASSUME NEW e \in Emails
      PROVE  rate[e] + Cardinality(CallsAt({"store", "count"}, e)) < RATE_MAX + Cardinality(Calls)
  <2>1. CallsAt({"store", "count"}, e) = {}
    BY <1>2 DEF CallsAt
  <2>2. Cardinality(Calls) \in Nat
    BY CallsAssumption, FS_CardinalityType
  <2>3. QED
    BY <1>1, <2>1, <2>2, FS_EmptySet, AccountLimitsAssumption
<1>4. ASSUME NEW e \in Emails \ verified
      PROVE  IsFiniteSet(CountedCodes(e)) /\ Cardinality(CountedCodes(e)) <= rate[e]
  BY <1>1, FS_EmptySet
<1>5. QED
  BY <1>3, <1>4 DEF RateInv, RateBound, CodesCounted

\* Until one of them was right, the codes an address was sent and that still work
\* are at most RATE_MAX and the requests that can pass the check of the rate
\* together.
THEOREM CodesAreBounded == AccountsSpec => []CodesBounded
<1>1. AccountsInit => RateInv
  BY RateInit
<1>2. StageInv /\ StageInv' /\ RateInv /\ [AccountsNext]_accountVars => RateInv'
  BY RateNext
<1>3. StageInv /\ RateInv => CodesBounded
  <2> SUFFICES ASSUME StageInv, RateInv, NEW e \in Emails \ verified
               PROVE  Cardinality({s \in CodesOf(e) : code[s].state \notin {"stored", "counted"}})
                        <= RATE_MAX + Cardinality(Calls) - 1
    BY DEF CodesBounded
  <2> DEFINE Sent == {s \in CodesOf(e) : code[s].state \notin {"stored", "counted"}}
  <2>1. /\ IsFiniteSet(CountedCodes(e)) /\ Cardinality(CountedCodes(e)) <= rate[e]
        /\ rate[e] \in Nat
        /\ rate[e] + Cardinality(CallsAt({"store", "count"}, e)) < RATE_MAX + Cardinality(Calls)
    BY DEF RateInv, RateBound, CodesCounted, StageInv, AccountsTypeOK
  <2>2. Sent \subseteq CountedCodes(e)
    BY DEF CountedCodes
  <2>3. IsFiniteSet(Sent) /\ Cardinality(Sent) <= Cardinality(CountedCodes(e))
    BY <2>1, <2>2, FS_Subset
  <2>4. /\ Cardinality(Sent) \in Nat /\ Cardinality(CountedCodes(e)) \in Nat
        /\ Cardinality(CallsAt({"store", "count"}, e)) \in Nat /\ Cardinality(Calls) \in Nat
    BY <2>1, <2>3, CallsAtBound, FS_CardinalityType
  <2> HIDE DEF Sent
  <2>5. Cardinality(Sent) <= RATE_MAX + Cardinality(Calls) - 1
    BY <2>1, <2>3, <2>4, AccountLimitsAssumption
  <2>6. QED
    BY <2>5 DEF Sent
<1>4. QED
  BY <1>1, <1>2, <1>3, StageAlways, PTL DEF AccountsSpec

================================================================================
